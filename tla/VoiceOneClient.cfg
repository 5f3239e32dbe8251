SPECIFICATION Spec
CONSTANTS
  Requests = {"put"}
  Lifespan = "lifespan"
  HandlersFail = TRUE
  MaxPuts = 5
  MaxThreads = 6
INVARIANTS TypeOK OneListener StatusTruthful
PROPERTIES DisabledFallsSilent EnabledFromRest
CHECK_DEADLOCK FALSE
