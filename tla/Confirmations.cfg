SPECIFICATION Spec
CONSTANTS
  Threads = {web, voice}
  web = web
  voice = voice
  CheckerEnabled = TRUE
  RebootEnabled = TRUE
  RestartEnabled = FALSE
  MaxMessages = 3
  MaxOverlaps = 1
  MaxPrompts = 3
  MaxVersion = 2
  MaxRestarts = 1
INVARIANTS TypeOK ConsentMatches PromptHeld AnsweredLeaves
PROPERTY DismissalHolds
SYMMETRY MCSymmetry
CHECK_DEADLOCK FALSE
