-------------------------- MODULE MeetingReminders --------------------------
(***************************************************************************)
(* Reminders of calendar meetings: the MeetingReminder table, the one-shot *)
(* jobs that announce them, the poll behind those jobs, and the API that   *)
(* sets, lists and deletes them.                                           *)
(*                                                                         *)
(* One action is one transaction of app.memory.meeting_reminders or one    *)
(* call of the scheduler; what a thread read stays with it meanwhile.      *)
(*                                                                         *)
(* A meeting is its key (calendar, event, start).  Its times arrive with   *)
(* the UTC offset of the calendar; the table drops the offset and what is  *)
(* read back is taken for UTC.  Each PUT is numbered (ghost "arm"): a row  *)
(* keeps the id of the PUT that created it and the number of the last one. *)
(***************************************************************************)
EXTENDS Integers

CONSTANTS
    Meetings,    \* calendar_id, event_id and start
    Start,       \* when each begins
    Offset,      \* the UTC offset its times are written with
    Leads,       \* ALLOWED_LEAD_MINUTES
    Clients,     \* threads that serve the API
    MaxPuts,     \* bound: successful PUTs
    MaxClock,    \* bound: the clock
    MaxCrashes,  \* bound: crashes of the service
    Grace        \* misfire_grace_time of a reminder's job

ASSUME ReminderAssumption ==
    /\ Start \in [Meetings -> Int] /\ Offset \in [Meetings -> Int]
    /\ Leads \subseteq Nat
    /\ {MaxPuts, MaxClock, MaxCrashes, Grace} \subseteq Nat

VARIABLES
    clock,    \* datetime.now(UTC)
    puts,     \* ghost: PUTs so far
    rows,     \* the MeetingReminder table
    up, crashes,
    jobs,     \* the scheduler's jobs "meeting_reminder:<id>"
    work,     \* the executions of fire_reminder
    todo,     \* the rows the poll has read and not yet handled
    op,       \* what each client is doing
    rung      \* ghost: the reminders announced as they were read, by whom, in which life

vars == <<clock, puts, rows, up, crashes, jobs, work, todo, op, rung>>

-----------------------------------------------------------------------------
Ids == 1..MaxPuts
Row == [id : Ids, arm : Ids, meeting : Meetings, lead : Leads, fired : BOOLEAN]
NoRow == [id |-> 0]

\* The poll is worker 0; worker i is the running instance of reminder i's job.
Poll == 0
Workers == 0..MaxPuts

Later(a, b) == IF a > b THEN a ELSE b
WithId(i) == {r \in rows : r.id = i}
Of(m) == {r \in rows : r.meeting = m}

\* The instant a PUT asks for, and what the table gives back for it.
Wanted(r) == Start[r.meeting] - r.lead
RemindAt(r) == Wanted(r) + Offset[r.meeting]
StoredStart(r) == Start[r.meeting] + Offset[r.meeting]

Due(r) == ~r.fired /\ RemindAt(r) <= clock
Schedulable(r) == ~r.fired /\ RemindAt(r) > clock
DueRows == {r \in rows : Due(r)}

Unscheduled(i) == {j \in jobs : j.id # i}
Scheduled(i, t) == Unscheduled(i) \cup {[id |-> i, at |-> Later(t, clock)]}

Firing(pc, i, r) == [pc |-> pc, id |-> i, row |-> r]
Idle == Firing("idle", 0, NoRow)
Doing(pc, i, t) == [pc |-> pc, id |-> i, at |-> t]
NoOp == Doing("idle", 0, 0)

Init ==
    /\ clock = 0 /\ puts = 0 /\ rows = {}
    /\ up = TRUE /\ crashes = 0 /\ jobs = {}
    /\ work = [w \in Workers |-> Idle] /\ todo = {}
    /\ op = [c \in Clients |-> NoOp]
    /\ rung = {}

-----------------------------------------------------------------------------
(* fire_reminder, run by the instance of a job and by the poll.            *)

\* Mutant of GetReminder: no comparison with now.
GetReminderUnchecked(w) ==
    /\ work[w].pc = "get"
    /\ LET i == work[w].id
           found == {r \in WithId(i) : ~r.fired}
       IN  \/ /\ found = {}
              /\ work' = [work EXCEPT ![w] = Firing("unschedule", i, NoRow)]
           \/ \E r \in found : work' = [work EXCEPT ![w] = Firing("announce", i, r)]
    /\ UNCHANGED <<clock, puts, rows, up, crashes, jobs, todo, op, rung>>

\* get_reminder, fired_at, and the comparison of remind_at with now.
GetReminder(w) ==
    /\ work[w].pc = "get"
    /\ LET i == work[w].id
           found == {r \in WithId(i) : ~r.fired}
       IN  \/ /\ found = {}
              /\ work' = [work EXCEPT ![w] = Firing("unschedule", i, NoRow)]
           \/ \E r \in found :
                 work' = [work EXCEPT ![w] =
                    Firing(IF Due(r) THEN "announce" ELSE "reschedule", i, r)]
    /\ UNCHANGED <<clock, puts, rows, up, crashes, jobs, todo, op, rung>>

Reschedule(w) ==
    /\ work[w].pc = "reschedule"
    /\ jobs' = Scheduled(work[w].id, RemindAt(work[w].row))
    /\ work' = [work EXCEPT ![w] = Idle]
    /\ UNCHANGED <<clock, puts, rows, up, crashes, todo, op, rung>>

\* activity.log, then announce_voice (module Announcements).
Announce(w) ==
    /\ work[w].pc = "announce"
    /\ rung' = rung \cup {[row |-> work[w].row, by |-> w, life |-> crashes]}
    /\ work' = [work EXCEPT ![w] = Firing("mark", work[w].id, work[w].row)]
    /\ UNCHANGED <<clock, puts, rows, up, crashes, jobs, todo, op>>

\* mark_reminder_fired: by id, whatever the row says by now.
MarkFired(w) ==
    /\ work[w].pc = "mark"
    /\ rows' = {[r EXCEPT !.fired = @ \/ r.id = work[w].id] : r \in rows}
    /\ work' = [work EXCEPT ![w] = Firing("unschedule", work[w].id, NoRow)]
    /\ UNCHANGED <<clock, puts, up, crashes, jobs, todo, op, rung>>

Unschedule(w) ==
    /\ work[w].pc = "unschedule"
    /\ jobs' = Unscheduled(work[w].id)
    /\ work' = [work EXCEPT ![w] = Idle]
    /\ UNCHANGED <<clock, puts, rows, up, crashes, todo, op, rung>>

FireReminder(w) ==
    GetReminder(w) \/ Reschedule(w) \/ Announce(w) \/ MarkFired(w) \/ Unschedule(w)

-----------------------------------------------------------------------------
(* The scheduler.                                                          *)

\* Mutant of Dispatch: a job that is too late stays in the store.
DispatchKeepsMisfired(i) ==
    /\ up /\ work[i].pc = "idle"
    /\ \E j \in jobs :
          /\ j.id = i /\ j.at <= clock /\ clock - j.at <= Grace
          /\ jobs' = jobs \ {j}
          /\ work' = [work EXCEPT ![i] = Firing("get", i, NoRow)]
    /\ UNCHANGED <<clock, puts, rows, up, crashes, todo, op, rung>>

\* A date job leaves the store when it is dispatched.  It runs unless it is
\* too late or an instance of the same job id is still running.
Dispatch(i) ==
    /\ up
    /\ \E j \in jobs :
          /\ j.id = i /\ j.at <= clock
          /\ jobs' = jobs \ {j}
          /\ work' = IF work[i].pc = "idle" /\ clock - j.at <= Grace
                     THEN [work EXCEPT ![i] = Firing("get", i, NoRow)]
                     ELSE work
    /\ UNCHANGED <<clock, puts, rows, up, crashes, todo, op, rung>>

\* Mutant of PollDue: meetings that have begun are left out.
PollUpcoming ==
    /\ up /\ work[Poll].pc = "idle" /\ todo = {}
    /\ todo' = {r \in DueRows : StoredStart(r) > clock}
    /\ todo' # {}
    /\ UNCHANGED <<clock, puts, rows, up, crashes, jobs, work, op, rung>>

\* check_due_reminders: list_due_reminders.
PollDue ==
    /\ up /\ work[Poll].pc = "idle" /\ todo = {}
    /\ todo' = DueRows /\ todo' # {}
    /\ UNCHANGED <<clock, puts, rows, up, crashes, jobs, work, op, rung>>

\* check_due_reminders: fire_reminder for the next row, in order of remind_at.
PollNext ==
    /\ work[Poll].pc = "idle"
    /\ \E r \in todo :
          /\ \A q \in todo : RemindAt(r) <= RemindAt(q)
          /\ todo' = todo \ {r}
          /\ work' = [work EXCEPT ![Poll] = Firing("get", r.id, NoRow)]
    /\ UNCHANGED <<clock, puts, rows, up, crashes, jobs, op, rung>>

-----------------------------------------------------------------------------
(* The API.                                                                *)

Free(c) == up /\ op[c].pc = "idle"

\* Mutant of Put: the row that is there is not looked for.
PutNewRow(c) ==
    /\ Free(c) /\ puts < MaxPuts
    /\ puts' = puts + 1
    /\ \E m \in Meetings, l \in Leads :
          LET r == [id |-> puts + 1, arm |-> puts + 1, meeting |-> m, lead |-> l,
                    fired |-> FALSE]
          IN  /\ Start[m] > clock
              /\ rows' = rows \cup {r}
              /\ op' = [op EXCEPT ![c] = Doing("schedule", puts + 1, Wanted(r))]
    /\ UNCHANGED <<clock, up, crashes, jobs, work, todo, rung>>

\* upsert_reminder: a PUT for a known meeting overwrites the lead and the time
\* and clears fired_at; validate_upsert wants a meeting that has not begun.  Of two
\* first PUTs that both find no row, the later commit fails and changes nothing.
Put(c) ==
    /\ Free(c) /\ puts < MaxPuts
    /\ puts' = puts + 1
    /\ \E m \in Meetings, l \in Leads :
          /\ Start[m] > clock
          /\ \E i \in IF Of(m) = {} THEN {puts + 1} ELSE {r.id : r \in Of(m)} :
                LET r == [id |-> i, arm |-> puts + 1, meeting |-> m, lead |-> l,
                          fired |-> FALSE]
                IN  /\ rows' = (rows \ Of(m)) \cup {r}
                    /\ op' = [op EXCEPT ![c] = Doing("schedule", i, Wanted(r))]
    /\ UNCHANGED <<clock, up, crashes, jobs, work, todo, rung>>

\* upsert_meeting_reminder: schedule_reminder, with the time as it was sent.
PutSchedules(c) ==
    /\ op[c].pc = "schedule"
    /\ jobs' = Scheduled(op[c].id, op[c].at)
    /\ op' = [op EXCEPT ![c] = NoOp]
    /\ UNCHANGED <<clock, puts, rows, up, crashes, work, todo, rung>>

\* list_meeting_reminders: prune_expired_reminders leaves the jobs alone.
List(c) ==
    /\ Free(c)
    /\ rows' = {r \in rows : StoredStart(r) > clock} /\ rows' # rows
    /\ UNCHANGED <<clock, puts, up, crashes, jobs, work, todo, op, rung>>

\* delete_reminder_by_key.
Delete(c) ==
    /\ Free(c)
    /\ \E r \in rows :
          /\ rows' = rows \ {r}
          /\ op' = [op EXCEPT ![c] = Doing("unschedule", r.id, 0)]
    /\ UNCHANGED <<clock, puts, up, crashes, jobs, work, todo, rung>>

\* delete_meeting_reminder: unschedule_reminder.
DeleteUnschedules(c) ==
    /\ op[c].pc = "unschedule"
    /\ jobs' = Unscheduled(op[c].id)
    /\ op' = [op EXCEPT ![c] = NoOp]
    /\ UNCHANGED <<clock, puts, rows, up, crashes, work, todo, rung>>

ClientStep(c) == PutSchedules(c) \/ DeleteUnschedules(c)
ClientRequest(c) == Put(c) \/ List(c) \/ Delete(c)

-----------------------------------------------------------------------------
(* The process and the clock.                                              *)

Crash ==
    /\ up /\ crashes < MaxCrashes
    /\ up' = FALSE /\ crashes' = crashes + 1
    /\ jobs' = {} /\ todo' = {}
    /\ work' = [w \in Workers |-> Idle]
    /\ op' = [c \in Clients |-> NoOp]
    /\ UNCHANGED <<clock, puts, rows, rung>>

\* Mutant of Restart: what was missed meanwhile is marked as fired.
RestartMarksMissed ==
    /\ ~up
    /\ up' = TRUE
    /\ jobs' = {[id |-> r.id, at |-> RemindAt(r)] : r \in {q \in rows : Schedulable(q)}}
    /\ rows' = {[r EXCEPT !.fired = @ \/ Due(r)] : r \in rows}
    /\ UNCHANGED <<clock, puts, crashes, work, todo, op, rung>>

\* sync_reminder_schedules: those already due are left to the poll.
Restart ==
    /\ ~up
    /\ up' = TRUE
    /\ jobs' = {[id |-> r.id, at |-> RemindAt(r)] : r \in {q \in rows : Schedulable(q)}}
    /\ UNCHANGED <<clock, puts, rows, crashes, work, todo, op, rung>>

Tick ==
    /\ clock < MaxClock
    /\ clock' = clock + 1
    /\ UNCHANGED <<puts, rows, up, crashes, jobs, work, todo, op, rung>>

Next ==
    \/ \E w \in Workers : FireReminder(w)
    \/ \E i \in Ids : Dispatch(i)
    \/ PollDue \/ PollNext
    \/ \E c \in Clients : ClientStep(c) \/ ClientRequest(c)
    \/ Crash \/ Restart \/ Tick

\* Threads of a running process keep running, the scheduler dispatches what is
\* due and runs its interval job, systemd restarts the service, time passes.
Fairness ==
    /\ \A w \in Workers : WF_vars(FireReminder(w))
    /\ \A i \in Ids : WF_vars(Dispatch(i))
    /\ WF_vars(PollDue) /\ WF_vars(PollNext)
    /\ \A c \in Clients : WF_vars(ClientStep(c))
    /\ WF_vars(Restart) /\ WF_vars(Tick)

Spec == Init /\ [][Next]_vars /\ Fairness

-----------------------------------------------------------------------------
\* Every variable holds a value of its type, ids and keys are unique in the
\* table, and at most one job exists for an id.
TypeOK ==
    /\ clock \in 0..MaxClock /\ puts \in 0..MaxPuts
    /\ rows \subseteq Row
    /\ \A r, q \in rows : r.id = q.id \/ r.meeting = q.meeting => r = q
    /\ up \in BOOLEAN /\ crashes \in 0..MaxCrashes
    /\ jobs \subseteq [id : Ids, at : Int]
    /\ \A j, k \in jobs : j.id = k.id => j = k
    /\ work \in [Workers -> [pc : {"idle", "get", "reschedule", "announce", "mark", "unschedule"},
                             id : 0..MaxPuts, row : Row \cup {NoRow}]]
    /\ op \in [Clients -> [pc : {"idle", "schedule", "unschedule"}, id : 0..MaxPuts, at : Int]]
    /\ todo \subseteq Row
    /\ rung \subseteq [row : Row, by : Workers, life : 0..MaxCrashes]

\* No reminder is announced before its time: also when a job scheduled for an
\* earlier lead is still there, or the poll has read its list long ago.
NoEarlyReminder == \A x \in rung : Wanted(x.row) <= clock

\* Who announces a reminder, what is being announced, and what was.
By(w) == IF w = Poll THEN "poll" ELSE "job"
Held == {[row |-> work[w].row, by |-> By(w), told |-> work[w].pc = "mark"] :
            w \in {v \in Workers : work[v].pc \in {"announce", "mark"}}}
Announced == {[row |-> x.row, by |-> By(x.by), life |-> x.life] : x \in rung}

\* Threads, jobs, the poll, crashes and overlapping requests leave users with
\* what ReminderPromise says: one reminder of a meeting, which no crash takes;
\* announced in time or later, in one life of the process once by the job and once
\* by the poll; marked by fired_at only if it was announced, or if it was set again
\* after the look-up and before the mark of an announcement (service.py:88-108).
Promise == INSTANCE ReminderPromise
           WITH life <- crashes, firing <- Held, announced <- Announced
ReminderKept == Promise!Spec

\* A reminder that is due is fired or leaves the table, whatever happened to its
\* job: misfired, replaced, removed with an earlier setting's, lost in a crash.
DueReminderFires ==
    \A i \in Ids : (\E r \in WithId(i) : Due(r)) ~> (\A r \in WithId(i) : ~Due(r))

\* The job of a pruned or deleted reminder goes away: it does not come back by
\* rescheduling itself.
OrphanJobDrains ==
    \A i \in Ids : (WithId(i) = {} /\ \E j \in jobs : j.id = i)
                   ~> (WithId(i) # {} \/ \A j \in jobs : j.id # i)
=============================================================================
