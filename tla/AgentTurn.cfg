SPECIFICATION Spec
CONSTANTS
  Requests = {"web", "chat"}
  ChatRequests = {"chat"}
  Messages <- MCMessages
  OtherTool = "make_coffee"
  Arguments = {"a"}
  PlannerSteps = 3
  MaxWipes = 1
  MaxNumber = 3
INVARIANTS TypeOK HistoryPairs GroundedAnswer ConfirmationNeverRefuses
PROPERTY TurnEnds
CHECK_DEADLOCK FALSE
