SPECIFICATION Spec
CONSTANTS
  Speakers = {"health", "timers"}
  Lines = {"database locked", "database lost", "voice missing", "timer complete"}
  Silence = "silence"
  Local = TRUE
  Checks <- MCChecks
  VoiceCheck = "voice"
  SaysOf <- MCSaysOf
  Monitor = "health"
  MaxRestarts = 1
INVARIANTS TypeOK OutageToldOnce
PROPERTIES VoiceNotBlamed LastingFailureTold
CHECK_DEADLOCK FALSE
