SPECIFICATION Spec
CONSTANTS
  Threads = {"web"}
  CheckerEnabled = TRUE
  RebootEnabled = TRUE
  RestartEnabled = TRUE
  MaxMessages = 3
  MaxOverlaps = 0
  MaxPrompts = 3
  MaxVersion = 2
  MaxRestarts = 0
INVARIANTS ConsentNotCrossed
CHECK_DEADLOCK FALSE
