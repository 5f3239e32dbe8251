SPECIFICATION Spec
CONSTANTS
  MaxId = 2
  MaxMade = 2
  MaxClock = 2
  MaxCrashes = 0
  Delays <- MCOne
  Lines = {"line"}
  OtherLine = "other"
  Silence = ""
  Grace = 0
  Clients = {"api"}
  CliClients = {}
  Overlaps = TRUE
PROPERTY CompletionRemovesExpired
CHECK_DEADLOCK FALSE
