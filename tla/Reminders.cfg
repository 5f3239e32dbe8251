SPECIFICATION Spec
CONSTANTS
  Meetings <- MCOneMeeting
  Start <- MCOneStart
  Offset <- MCUtc
  Leads <- MCLeads
  Clients = {"web", "app"}
  MaxPuts = 2
  MaxClock = 2
  MaxCrashes = 1
  Grace = 1
INVARIANTS TypeOK NoEarlyReminder
PROPERTIES ReminderKept DueReminderFires OrphanJobDrains
CHECK_DEADLOCK FALSE
