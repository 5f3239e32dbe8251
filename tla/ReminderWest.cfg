SPECIFICATION Spec
CONSTANTS
  Meetings <- MCMeetings
  Start <- MCStart
  Offset <- MCWest
  Leads <- MCOneLead
  Clients = {"web"}
  MaxPuts = 2
  MaxClock = 3
  MaxCrashes = 0
  Grace = 1
INVARIANT NoEarlyReminder
CHECK_DEADLOCK FALSE
