--------------------------- MODULE TimerScheduler ---------------------------
(***************************************************************************)
(* Countdown timers and stopwatches: the table in SQLite, the in-memory    *)
(* scheduler jobs that complete a countdown, the poll that backs them up,  *)
(* and the requests that create and remove rows, from the service's own    *)
(* threads and from the command line.                                      *)
(*                                                                         *)
(* One action is one shared-state access of a thread: a transaction of     *)
(* app.memory.repository (each opens its own session) or a call of the     *)
(* scheduler (which locks its job store).  What a thread read stays in its *)
(* own state while the others run.                                         *)
(*                                                                         *)
(* A row's label and duration are abstracted to the line they make         *)
(* format_due_timer say: the activity hub drops a line equal to the last   *)
(* one it announced.  A row carries a ghost serial number, so that two     *)
(* rows that had the same id at different times can be told apart.         *)
(***************************************************************************)
EXTENDS Integers

CONSTANTS
    MaxId,       \* bound: ids the table hands out are 1..MaxId
    MaxMade,     \* bound: rows ever created
    MaxClock,    \* bound: the clock, and every due time
    MaxCrashes,  \* bound: crashes of the service
    Delays,      \* durations a client asks for; 0 is a start_at in the past
    Lines,       \* what completed timers say: one per label and duration
    OtherLine,   \* what any other part of the program says
    Silence,     \* nothing announced since the process started
    Grace,       \* misfire_grace_time of a completion job
    Clients,     \* threads that serve the API and the assistant
    CliClients,  \* those of them that are command-line processes
    Overlaps     \* bound: whether a client may start while another is under way

ASSUME BoundsAssumption ==
    /\ MaxId \in Nat \ {0} /\ MaxMade \in Nat /\ MaxClock \in Nat
    /\ MaxCrashes \in Nat /\ Grace \in Nat
    /\ Delays \subseteq Nat
    /\ CliClients \subseteq Clients /\ Overlaps \in BOOLEAN
    /\ OtherLine \notin Lines /\ Silence \notin Lines /\ OtherLine # Silence

VARIABLES
    clock,    \* datetime.now(UTC)
    made,     \* ghost: rows ever created, the serial of the newest
    rows,     \* the Timer table
    up,       \* the service process is running
    crashes,  \* how often it crashed
    jobs,     \* the scheduler's jobs "timer:<id>"
    work,     \* the executions of complete_timer
    todo,     \* the rows the poll has read and not yet handled
    op,       \* what each client is doing
    said,     \* activity._last_voice_announcement
    rung      \* ghost: the completions logged, and whether they were spoken

vars == <<clock, made, rows, up, crashes, jobs, work, todo, op, said, rung>>

-----------------------------------------------------------------------------
Ids == 1..MaxId
Times == 0..MaxClock
Kinds == {"countdown", "stopwatch"}

\* A stopwatch has neither due time nor completion line: 0 and Silence.
Row == [id : Ids, serial : 1..MaxMade, kind : Kinds, due : Times,
        line : Lines \cup {Silence}]
NoRow == [id |-> 0, serial |-> 0, kind |-> "none", due |-> 0, line |-> Silence]
Job == [id : Ids, at : Times]

\* The poll is worker 0; worker i is the one running instance of job "timer:i".
Poll == 0
Workers == 0..MaxId

Later(a, b) == IF a > b THEN a ELSE b
Countdowns == {r \in rows : r.kind = "countdown"}
Due(r) == r.kind = "countdown" /\ r.due <= clock
WithId(i) == {r \in rows : r.id = i}

\* list_countdown_timers orders by due and id; stopwatches come after them.
Before(r, q) ==
    \/ r.kind = "countdown" /\ q.kind = "stopwatch"
    \/ r.kind = q.kind /\ (r.due < q.due \/ (r.due = q.due /\ r.id < q.id))
First(S) == {r \in S : \A q \in S \ {r} : ~Before(q, r)}

\* INTEGER PRIMARY KEY without AUTOINCREMENT: one more than the largest id.
FreshId(i) == /\ \A r \in rows : r.id < i
              /\ i = 1 \/ WithId(i - 1) # {}

Unscheduled(i) == {j \in jobs : j.id # i}

\* Mutant of Scheduled: run one second after the due time.
ScheduledLate(r) == Unscheduled(r.id) \cup {[id |-> r.id, at |-> Later(r.due, clock) + 1]}

Scheduled(r) == Unscheduled(r.id) \cup {[id |-> r.id, at |-> Later(r.due, clock)]}

\* A label shows in the line of a countdown.
Renamed(r, i, l) ==
    IF r.id = i /\ r.kind = "countdown" THEN [r EXCEPT !.line = l] ELSE r

\* A completion of timer i that stands at pc, having read row r; a client
\* that stands at pc with row r in hand and the rows S still to remove.
Completing(pc, i, r) == [pc |-> pc, id |-> i, row |-> r]
Idle == Completing("idle", 0, NoRow)
Doing(pc, r, S) == [pc |-> pc, row |-> r, todo |-> S]
NoOp == Doing("idle", NoRow, {})

Init ==
    /\ clock = 0 /\ made = 0 /\ rows = {}
    /\ up = TRUE /\ crashes = 0
    /\ jobs = {}
    /\ work = [w \in Workers |-> Idle]
    /\ todo = {}
    /\ op = [c \in Clients |-> NoOp]
    /\ said = Silence /\ rung = {}

-----------------------------------------------------------------------------
(* complete_timer, run by the instance of a job and by the poll.           *)

\* Mutant of GetTimer: no comparison with now.
GetTimerUnchecked(w) ==
    /\ work[w].pc = "get"
    /\ \E r \in WithId(work[w].id) :
          /\ r.kind = "countdown"
          /\ work' = [work EXCEPT ![w] = Completing("ring", work[w].id, r)]
    /\ UNCHANGED <<clock, made, rows, up, crashes, jobs, todo, op, said, rung>>

\* get_timer, and the comparison of its due time with now.
GetTimer(w) ==
    /\ work[w].pc = "get"
    /\ \/ /\ \A r \in WithId(work[w].id) : r.kind # "countdown"
          /\ work' = [work EXCEPT ![w] = Completing("unschedule", work[w].id, NoRow)]
       \/ \E r \in WithId(work[w].id) :
             /\ r.kind = "countdown" /\ r.due > clock
             /\ work' = [work EXCEPT ![w] = Completing("reschedule", work[w].id, r)]
       \/ \E r \in WithId(work[w].id) :
             /\ Due(r)
             /\ work' = [work EXCEPT ![w] = Completing("ring", work[w].id, r)]
    /\ UNCHANGED <<clock, made, rows, up, crashes, jobs, todo, op, said, rung>>

\* schedule_timer for a timer that turned out not to be due.
Reschedule(w) ==
    /\ work[w].pc = "reschedule"
    /\ jobs' = Scheduled(work[w].row)
    /\ work' = [work EXCEPT ![w] = Idle]
    /\ UNCHANGED <<clock, made, rows, up, crashes, todo, op, said, rung>>

\* activity.log, then announce_voice, which ignores the line it announced last.
Ring(w) ==
    /\ work[w].pc = "ring"
    /\ said' = work[w].row.line
    /\ rung' = rung \cup {[row |-> work[w].row, by |-> w, life |-> crashes,
                           spoken |-> work[w].row.line # said]}
    /\ work' = [work EXCEPT ![w] = Completing("delete", work[w].id, work[w].row)]
    /\ UNCHANGED <<clock, made, rows, up, crashes, jobs, todo, op>>

\* delete_timer: by id, whatever row has the id now.
DeleteTimer(w) ==
    /\ work[w].pc = "delete"
    /\ rows' = {r \in rows : r.id # work[w].id}
    /\ work' = [work EXCEPT ![w] = Completing("unschedule", work[w].id, NoRow)]
    /\ UNCHANGED <<clock, made, up, crashes, jobs, todo, op, said, rung>>

UnscheduleTimer(w) ==
    /\ work[w].pc = "unschedule"
    /\ jobs' = Unscheduled(work[w].id)
    /\ work' = [work EXCEPT ![w] = Idle]
    /\ UNCHANGED <<clock, made, rows, up, crashes, todo, op, said, rung>>

CompleteTimer(w) ==
    \/ GetTimer(w) \/ Reschedule(w) \/ Ring(w) \/ DeleteTimer(w) \/ UnscheduleTimer(w)

-----------------------------------------------------------------------------
(* The scheduler.                                                          *)

\* Mutant of Dispatch: a job that is too late stays in the store.
DispatchKeepsMisfired(i) ==
    /\ up /\ work[i].pc = "idle"
    /\ \E j \in jobs :
          /\ j.id = i /\ j.at <= clock /\ clock - j.at <= Grace
          /\ jobs' = jobs \ {j}
          /\ work' = [work EXCEPT ![i] = Completing("get", i, NoRow)]
    /\ UNCHANGED <<clock, made, rows, up, crashes, todo, op, said, rung>>

\* A date job leaves the store when it is dispatched.  It runs unless it is
\* too late or an instance of the same job id is still running.
Dispatch(i) ==
    /\ up
    /\ \E j \in jobs :
          /\ j.id = i /\ j.at <= clock
          /\ jobs' = jobs \ {j}
          /\ work' = IF work[i].pc = "idle" /\ clock - j.at <= Grace
                     THEN [work EXCEPT ![i] = Completing("get", i, NoRow)]
                     ELSE work
    /\ UNCHANGED <<clock, made, rows, up, crashes, todo, op, said, rung>>

\* Mutant of PollDue: only rows that still have a job.
PollScheduledOnly ==
    /\ up /\ work[Poll].pc = "idle" /\ todo = {}
    /\ \E r \in rows : Due(r) /\ \E j \in jobs : j.id = r.id
    /\ todo' = {r \in rows : Due(r) /\ \E j \in jobs : j.id = r.id}
    /\ UNCHANGED <<clock, made, rows, up, crashes, jobs, work, op, said, rung>>

\* check_due_timers: list_due_timers.
PollDue ==
    /\ up /\ work[Poll].pc = "idle" /\ todo = {}
    /\ \E r \in rows : Due(r)
    /\ todo' = {r \in rows : Due(r)}
    /\ UNCHANGED <<clock, made, rows, up, crashes, jobs, work, op, said, rung>>

\* check_due_timers: complete_timer for the next row of the list.
PollNext ==
    /\ work[Poll].pc = "idle"
    /\ \E r \in First(todo) :
          /\ todo' = todo \ {r}
          /\ work' = [work EXCEPT ![Poll] = Completing("get", r.id, NoRow)]
    /\ UNCHANGED <<clock, made, rows, up, crashes, jobs, op, said, rung>>

-----------------------------------------------------------------------------
(* The operations of timers/operations.py.  A command-line process has a   *)
(* scheduler of its own, never started: what it schedules never runs and   *)
(* what it unschedules is not the service's.                               *)

Running(c) ==
    /\ up \/ c \in CliClients
    /\ Overlaps \/ \A d \in Clients : op[d].pc = "idle"
OwnsJobs(c) == c \notin CliClients

\* create_countdown_timer: add_timer.
AddTimer(c) ==
    /\ Running(c) /\ op[c].pc = "idle" /\ made < MaxMade
    /\ \E i \in Ids, d \in Delays, l \in Lines :
          LET r == [id |-> i, serial |-> made + 1, kind |-> "countdown",
                    due |-> clock + d, line |-> l]
          IN  /\ FreshId(i) /\ clock + d <= MaxClock
              /\ rows' = rows \cup {r}
              /\ op' = [op EXCEPT ![c] = Doing("schedule", r, {})]
    /\ made' = made + 1
    /\ UNCHANGED <<clock, up, crashes, jobs, work, todo, said, rung>>

\* create_countdown_timer: schedule_timer.
ScheduleTimer(c) ==
    /\ op[c].pc = "schedule"
    /\ jobs' = IF OwnsJobs(c) THEN Scheduled(op[c].row) ELSE jobs
    /\ op' = [op EXCEPT ![c] = NoOp]
    /\ UNCHANGED <<clock, made, rows, up, crashes, work, todo, said, rung>>

\* create_stopwatch: add_stopwatch.
AddStopwatch(c) ==
    /\ Running(c) /\ op[c].pc = "idle" /\ made < MaxMade
    /\ \E i \in Ids :
          /\ FreshId(i)
          /\ rows' = rows \cup {[id |-> i, serial |-> made + 1,
                                 kind |-> "stopwatch", due |-> 0, line |-> Silence]}
    /\ made' = made + 1
    /\ UNCHANGED <<clock, up, crashes, jobs, work, todo, op, said, rung>>

\* cancel_timers and DELETE /timers/{id} select countdowns, stop_stopwatches
\* and DELETE /stopwatches/{id} select stopwatches, clear_all_timers takes all.
Select(c) ==
    /\ Running(c) /\ op[c].pc = "idle"
    /\ \E S \in (SUBSET Countdowns) \cup (SUBSET (rows \ Countdowns)) \cup {rows} :
          /\ S # {}
          /\ op' = [op EXCEPT ![c] = Doing("remove", NoRow, S)]
    /\ UNCHANGED <<clock, made, rows, up, crashes, jobs, work, todo, said, rung>>

\* The loop over the selected rows.
Rest(S) == IF S = {} THEN NoOp ELSE Doing("remove", NoRow, S)

\* remove_countdown_timer / remove_stopwatch: get_timer and the kind check.
\* A row that is gone, or is now of the other kind, is skipped.
RemoveNext(c) ==
    /\ op[c].pc = "remove"
    /\ \E r \in First(op[c].todo) :
          LET rest == op[c].todo \ {r}
              found == \E q \in WithId(r.id) : q.kind = r.kind
              next == IF r.kind = "countdown" THEN "unschedule" ELSE "delete"
          IN  op' = [op EXCEPT ![c] = IF found THEN Doing(next, r, rest) ELSE Rest(rest)]
    /\ UNCHANGED <<clock, made, rows, up, crashes, jobs, work, todo, said, rung>>

\* remove_countdown_timer: unschedule_timer.
RemoveUnschedule(c) ==
    /\ op[c].pc = "unschedule"
    /\ jobs' = IF OwnsJobs(c) THEN Unscheduled(op[c].row.id) ELSE jobs
    /\ op' = [op EXCEPT ![c] = Doing("delete", op[c].row, op[c].todo)]
    /\ UNCHANGED <<clock, made, rows, up, crashes, work, todo, said, rung>>

\* remove_countdown_timer / remove_stopwatch: delete_timer, by id.
RemoveDelete(c) ==
    /\ op[c].pc = "delete"
    /\ rows' = {r \in rows : r.id # op[c].row.id}
    /\ op' = [op EXCEPT ![c] = Rest(op[c].todo)]
    /\ UNCHANGED <<clock, made, up, crashes, jobs, work, todo, said, rung>>

\* rename_timer, rename_stopwatch and their PATCH requests choose a row of
\* their kind, ...
SelectRename(c) ==
    /\ Running(c) /\ op[c].pc = "idle"
    /\ \E r \in rows : op' = [op EXCEPT ![c] = Doing("rename", r, {})]
    /\ UNCHANGED <<clock, made, rows, up, crashes, jobs, work, todo, said, rung>>

\* ... and update_timer_label renames whatever row has the id now.
Rename(c) ==
    /\ op[c].pc = "rename"
    /\ \E l \in Lines : rows' = {Renamed(r, op[c].row.id, l) : r \in rows}
    /\ op' = [op EXCEPT ![c] = NoOp]
    /\ UNCHANGED <<clock, made, up, crashes, jobs, work, todo, said, rung>>

\* wipe_database deletes every row and leaves the jobs alone.
WipeDatabase(c) ==
    /\ Running(c) /\ op[c].pc = "idle" /\ rows # {}
    /\ rows' = {}
    /\ UNCHANGED <<clock, made, up, crashes, jobs, work, todo, op, said, rung>>

ClientStep(c) ==
    \/ ScheduleTimer(c) \/ RemoveNext(c) \/ RemoveUnschedule(c) \/ RemoveDelete(c)
    \/ Rename(c)
ClientRequest(c) ==
    \/ AddTimer(c) \/ AddStopwatch(c) \/ Select(c) \/ SelectRename(c) \/ WipeDatabase(c)

-----------------------------------------------------------------------------
(* The process and the clock.                                              *)

Crash ==
    /\ up /\ crashes < MaxCrashes
    /\ up' = FALSE /\ crashes' = crashes + 1
    /\ jobs' = {} /\ todo' = {} /\ said' = Silence
    /\ work' = [w \in Workers |-> Idle]
    /\ op' = [c \in Clients |-> IF OwnsJobs(c) THEN NoOp ELSE op[c]]
    /\ UNCHANGED <<clock, made, rows, rung>>

\* Mutant of Restart: what fell due meanwhile is given up.
RestartForgets ==
    /\ ~up
    /\ up' = TRUE
    /\ rows' = {r \in rows : ~Due(r)}
    /\ jobs' = {[id |-> r.id, at |-> r.due] : r \in {q \in Countdowns : ~Due(q)}}
    /\ UNCHANGED <<clock, made, crashes, work, todo, op, said, rung>>

\* The lifespan of main.py: register_jobs, which calls sync_timer_schedules,
\* before scheduler.start().
Restart ==
    /\ ~up
    /\ up' = TRUE
    /\ jobs' = {[id |-> r.id, at |-> Later(r.due, clock)] : r \in Countdowns}
    /\ UNCHANGED <<clock, made, rows, crashes, work, todo, op, said, rung>>

\* announce_voice of a tool, a reminder, a health check, ...
AnnounceOther ==
    /\ up
    /\ said' = OtherLine
    /\ UNCHANGED <<clock, made, rows, up, crashes, jobs, work, todo, op, rung>>

Tick ==
    /\ clock < MaxClock
    /\ clock' = clock + 1
    /\ UNCHANGED <<made, rows, up, crashes, jobs, work, todo, op, said, rung>>

Next ==
    \/ \E w \in Workers : CompleteTimer(w)
    \/ \E i \in Ids : Dispatch(i)
    \/ PollDue \/ PollNext
    \/ \E c \in Clients : ClientStep(c) \/ ClientRequest(c)
    \/ Crash \/ Restart \/ Tick \/ AnnounceOther

\* Threads of a running process keep running, the scheduler dispatches what is
\* due and starts its interval job, systemd restarts the service, time passes.
\* Nothing obliges a client to ask for anything, and nothing obliges a crash.
Fairness ==
    /\ \A w \in Workers : WF_vars(CompleteTimer(w))
    /\ \A i \in Ids : WF_vars(Dispatch(i))
    /\ WF_vars(PollDue) /\ WF_vars(PollNext)
    /\ \A c \in Clients : WF_vars(ClientStep(c))
    /\ WF_vars(Restart) /\ WF_vars(Tick)

Spec == Init /\ [][Next]_vars /\ Fairness

-----------------------------------------------------------------------------
WorkerStates == {"idle", "get", "reschedule", "ring", "delete", "unschedule"}
ClientStates == {"idle", "schedule", "remove", "unschedule", "delete", "rename"}
Completion == [pc : WorkerStates, id : 0..MaxId, row : Row \cup {NoRow}]
Operation == [pc : ClientStates, row : Row \cup {NoRow}, todo : SUBSET Row]

\* Every variable holds a value of its type.
TypeOK ==
    /\ clock \in Times /\ made \in 0..MaxMade
    /\ rows \subseteq Row
    /\ up \in BOOLEAN /\ crashes \in 0..MaxCrashes
    /\ jobs \subseteq Job
    /\ work \in [Workers -> Completion]
    /\ todo \subseteq Row
    /\ op \in [Clients -> Operation]
    /\ said \in Lines \cup {OtherLine, Silence}
    /\ rung \subseteq [row : Row, by : Workers, life : 0..MaxCrashes, spoken : BOOLEAN]

\* No timer is announced before it is due, and no stopwatch ever: neither by
\* the job of an earlier timer whose id it got (a wipe and the command line
\* leave such jobs behind), nor by a poll that read its list earlier.
NoEarlyRing == \A x \in rung : Due(x.row)

\* A job left behind by a wipe or by the command line runs, finds no
\* countdown and goes away: it cannot reschedule itself forever.
StaleJobDrains ==
    \A i \in Ids :
       ((\E j \in jobs : j.id = i) /\ \A r \in WithId(i) : r.kind # "countdown")
       ~> ((\A j \in jobs : j.id # i) \/ \E r \in WithId(i) : r.kind = "countdown")

\* A countdown that is due leaves the table, whatever happened to its job:
\* dropped as misfired, refused because an instance was still running, removed
\* by the completion of an earlier timer with its id, or lost in a crash.
DueTimerLeaves ==
    \A s \in 1..MaxMade :
       (\E r \in rows : r.serial = s /\ Due(r)) ~> (\A r \in rows : r.serial # s)

\* Who completes a timer, the timers that are being completed, those that were
\* announced, and the rows that clients are removing.
By(w) == IF w = Poll THEN "poll" ELSE "job"
Expiring == {[row |-> work[w].row, by |-> By(w), told |-> work[w].pc = "delete"] :
                w \in {v \in Workers : work[v].pc \in {"ring", "delete"}}}
Announced == {[row |-> x.row, by |-> By(x.by), life |-> x.life] : x \in rung}
Held(o) == IF o.pc \in {"unschedule", "delete"} THEN o.todo \cup {o.row} ELSE o.todo
Leaving == UNION {Held(op[c]) : c \in Clients}

\* Threads, jobs, polls and crashes leave users with what TimerPromise says: no
\* crash and no restart takes a row; a row leaves by a wipe, by a removal that was
\* asked for, or by the announcement of a countdown that existed and was due; in
\* one life of the process the job and the poll announce a countdown once each,
\* also when both have it at the same time and a client cancels it.
Promise == INSTANCE TimerPromise
           WITH life <- crashes, leaving <- Leaving, expiring <- Expiring,
                announced <- Announced
PromiseKept == Promise!Spec

\* complete_timer: "Announce and remove a timer when it expires": the only
\* countdown that the completion of a timer removes from the table is that timer.
CompletionRemovesExpired ==
    [][\A w \in Workers, r \in Countdowns \ rows' :
          DeleteTimer(w) => r.serial = work[w].row.serial]_vars
=============================================================================
