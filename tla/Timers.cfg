SPECIFICATION Spec
CONSTANTS
  MaxId = 1
  MaxMade = 2
  MaxClock = 2
  MaxCrashes = 1
  Delays <- MCOne
  Lines = {"line"}
  OtherLine = "other"
  Silence = ""
  Grace = 0
  Clients = {"api", "cli"}
  CliClients = {"cli"}
  Overlaps = FALSE
INVARIANTS TypeOK NoEarlyRing
PROPERTIES PromiseKept DueTimerLeaves StaleJobDrains
CHECK_DEADLOCK FALSE
