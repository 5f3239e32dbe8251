SPECIFICATION Spec
CONSTANTS
  Requests = {"chat", "voice"}
  VoiceRequests = {"voice"}
  Reporters = {"health"}
  Loggers = {"timers"}
  Streams = {"browser"}
  MaxEvents = 2
  MaxRecords = 6
INVARIANTS TypeOK IdleUnlessLogged
PROPERTIES StreamKept ClientCatchesUp
CHECK_DEADLOCK FALSE
