--------------------------- MODULE ReminderPromise ---------------------------
(***************************************************************************)
(* What meeting reminders promise, without threads, jobs, polls or the     *)
(* order of requests.  A meeting has at most one reminder, as it was set   *)
(* last; it leaves only when it is deleted or its meeting has begun, never *)
(* by a crash or a restart.  It is announced once its lead time has begun, *)
(* and then marked.  In one life of the process one setting is announced   *)
(* at most twice, once by its job and once by the poll.                    *)
(*                                                                         *)
(* What is marked is the reminder, not its setting: if the reminder was    *)
(* set again between its last look-up and the mark, the new setting is     *)
(* taken for announced and lost.  This is the one way to be marked without *)
(* having been announced.  MeetingReminders implements this; that a due    *)
(* reminder is fired is its DueReminderFires.                              *)
(***************************************************************************)
EXTENDS Integers

CONSTANTS Meetings, Start, Leads, MaxPuts, MaxClock

VARIABLES
    clock,
    up,         \* the process runs
    life,       \* crashes of the process
    puts,       \* times a reminder was set
    rows,       \* the reminders that are set
    firing,     \* the settings being announced, by their job or the poll
    announced   \* the settings announced, by whom and in which life

pvars == <<clock, up, life, puts, rows, firing, announced>>

By == {"job", "poll"}
Begun(r) == Start[r.meeting] - r.lead <= clock

Init ==
    /\ clock = 0 /\ up = TRUE /\ life = 0 /\ puts = 0
    /\ rows = {} /\ firing = {} /\ announced = {}

\* The reminder of a meeting keeps its id when it is set again.
Set ==
    /\ puts < MaxPuts /\ puts' = puts + 1
    /\ \E m \in Meetings, l \in Leads, i \in 1..MaxPuts :
          LET old == {r \in rows : r.meeting = m}
          IN  /\ Start[m] > clock
              /\ IF old = {} THEN \A r \in rows : r.id # i ELSE \A r \in old : r.id = i
              /\ rows' = (rows \ old) \cup {[id |-> i, arm |-> puts + 1, meeting |-> m,
                                             lead |-> l, fired |-> FALSE]}
    /\ UNCHANGED <<clock, up, life, firing, announced>>

Delete ==
    /\ \E r \in rows : rows' = rows \ {r}
    /\ UNCHANGED <<clock, up, life, puts, firing, announced>>

\* Meetings that have begun need no reminder any more.
Prune ==
    /\ \E S \in SUBSET {r \in rows : Start[r.meeting] <= clock} : rows' = rows \ S
    /\ UNCHANGED <<clock, up, life, puts, firing, announced>>

\* A reminder that is set, not marked, and in its lead time is looked up, ...
LookUp ==
    /\ \E r \in rows, b \in By :
          /\ ~r.fired /\ Begun(r)
          /\ \A e \in firing : e.by = b => e.row.id # r.id
          /\ firing' = firing \cup {[row |-> r, by |-> b, told |-> FALSE]}
    /\ UNCHANGED <<clock, up, life, puts, rows, announced>>

\* ... announced, ...
Announce ==
    /\ \E e \in firing :
          /\ ~e.told
          /\ \A a \in announced : a.life = life /\ a.by = e.by => a.row.arm # e.row.arm
          /\ announced' = announced \cup {[row |-> e.row, by |-> e.by, life |-> life]}
          /\ firing' = (firing \ {e}) \cup {[row |-> e.row, by |-> e.by, told |-> TRUE]}
    /\ UNCHANGED <<clock, up, life, puts, rows>>

\* ... and marked.
Mark ==
    /\ \E e \in firing :
          /\ e.told
          /\ rows' = {[r EXCEPT !.fired = @ \/ r.id = e.row.id] : r \in rows}
          /\ firing' = firing \ {e}
    /\ UNCHANGED <<clock, up, life, puts, announced>>

\* What was under way is forgotten, the reminders are not.
Crash ==
    /\ up /\ up' = FALSE /\ life' = life + 1 /\ firing' = {}
    /\ UNCHANGED <<clock, puts, rows, announced>>

Restart ==
    /\ ~up /\ up' = TRUE
    /\ UNCHANGED <<clock, life, puts, rows, firing, announced>>

Tick ==
    /\ clock < MaxClock /\ clock' = clock + 1
    /\ UNCHANGED <<up, life, puts, rows, firing, announced>>

Next ==
    \/ Set \/ Delete \/ Prune \/ LookUp \/ Announce \/ Mark
    \/ Crash \/ Restart \/ Tick

Spec == Init /\ [][Next]_pvars
=============================================================================
