SPECIFICATION MCSpec
CONSTANTS
  MaxWords = 3
  MaxNumber = 60
  MaxSeconds = 86400
  MaxAmounts = 2
  Counts <- MCCounts
  LaterCounts = {1, 45}
  LaterUnits = {"seconds", "m", "hours"}
  Continued = {1, 60, 90, 1200, 3600, 7200}
INVARIANTS RouterToolAccepted PlannerLeavesTimersAlone IdCommandHitsItsTarget OnlyTimersPreempt
  TimerLastsAsSaid ConfirmedAsSet
CHECK_DEADLOCK FALSE
