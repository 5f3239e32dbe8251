------------------------- MODULE MCMeetingReminders -------------------------
(* Small instances of MeetingReminders for TLC.                           *)
EXTENDS MeetingReminders

MCMeetings == {"standup1", "standup2"}
MCStart == [m \in MCMeetings |-> IF m = "standup1" THEN 2 ELSE 3]
MCOneMeeting == {"standup1"}
MCOneStart == [m \in MCOneMeeting |-> 2]
MCUtc == [m \in Meetings |-> 0]
MCWest == [m \in Meetings |-> -1]
MCEast == [m \in Meetings |-> 1]
MCLeads == {1, 2}
MCOneLead == {1}
=============================================================================
