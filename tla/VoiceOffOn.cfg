SPECIFICATION Spec
CONSTANTS
  Requests = {"put"}
  Lifespan = "lifespan"
  HandlersFail = FALSE
  MaxPuts = 3
  MaxThreads = 3
PROPERTY EnabledListens
CHECK_DEADLOCK FALSE
