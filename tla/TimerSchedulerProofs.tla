------------------------ MODULE TimerSchedulerProofs ------------------------
(***************************************************************************)
(* Theorems about TimerScheduler for every value of its constants: types,  *)
(* no early announcement, and the implementation of TimerPromise.          *)
(*                                                                         *)
(* A completion announces what it read some steps before, so NoEarlyRing   *)
(* is not inductive: the strengthening says that the row a worker is about *)
(* to announce was a countdown, already due when it was read, and that     *)
(* every row ever read had been created.                                   *)
(*                                                                         *)
(* The promise needs more, RInv: who completes which timer, what is in the *)
(* table after an announcement, and that serials tell rows apart.          *)
(***************************************************************************)
EXTENDS TimerScheduler, TLAPS

\* Every row the program holds is one the table held at some time.
MadeRows ==
    /\ \A r \in rows : r.serial <= made
    /\ \A x \in rung : x.row.serial <= made

\* What a worker does next fits the row it read.
ReadRows ==
    \A w \in Workers :
       /\ work[w].pc = "reschedule" => work[w].row \in Row
       /\ work[w].pc = "ring" => /\ work[w].row \in Row
                                 /\ Due(work[w].row)
                                 /\ work[w].row.serial <= made

\* A client that is about to schedule a job, or delete or rename a row, has a
\* row in hand.
ClientRows ==
    \A c \in Clients :
       op[c].pc \in {"schedule", "unschedule", "delete", "rename"} => op[c].row \in Row

IInv == TypeOK /\ MadeRows /\ ReadRows /\ ClientRows /\ NoEarlyRing

-----------------------------------------------------------------------------
LEMMA NoRowType == NoRow \notin Row
  BY DEF NoRow, Row, Ids

LEMMA CompletionType ==
    ASSUME NEW pc \in WorkerStates, NEW i \in 0..MaxId, NEW r \in Row \cup {NoRow}
    PROVE  /\ Completing(pc, i, r) \in Completion
           /\ Completing(pc, i, r).pc = pc
           /\ Completing(pc, i, r).row = r
  BY DEF Completing, Completion

LEMMA IdleType == Idle \in Completion /\ Idle.pc = "idle"
  BY CompletionType, BoundsAssumption DEF Idle, WorkerStates

LEMMA OperationType ==
    ASSUME NEW pc \in ClientStates, NEW r \in Row \cup {NoRow}, NEW S \in SUBSET Row
    PROVE  /\ Doing(pc, r, S) \in Operation
           /\ Doing(pc, r, S).pc = pc
           /\ Doing(pc, r, S).row = r
  BY DEF Doing, Operation

LEMMA NoOpType == NoOp \in Operation /\ NoOp.pc = "idle"
  BY OperationType DEF NoOp, ClientStates

\* The loop over the selected rows goes on or ends.
LEMMA RestType ==
    ASSUME NEW S \in SUBSET Row
    PROVE  Rest(S) \in Operation /\ Rest(S).pc \in {"idle", "remove"}
  BY OperationType, NoOpType DEF Rest, ClientStates

\* A job for a row falls within the clock's range.
LEMMA ScheduledType ==
    ASSUME TypeOK, NEW r \in Row
    PROVE  Scheduled(r) \subseteq Job
  BY BoundsAssumption DEF TypeOK, Scheduled, Unscheduled, Row, Job, Later, Times, Ids

LEMMA UnscheduledType ==
    ASSUME TypeOK, NEW i
    PROVE  Unscheduled(i) \subseteq Job
  BY DEF TypeOK, Unscheduled

LEMMA InitIInv == Init => IInv
  BY BoundsAssumption, IdleType, NoOpType
     DEF Init, IInv, TypeOK, MadeRows, ReadRows, ClientRows, NoEarlyRing, Times

\* A step that changes neither rows, made, rung, clients nor the clock has only
\* the workers' part of the invariant to preserve.
LEMMA WorkerStep ==
    ASSUME IInv, UNCHANGED <<clock, made, rows, rung, op>>
    PROVE  MadeRows' /\ ClientRows' /\ NoEarlyRing'
  BY DEF IInv, MadeRows, ClientRows, NoEarlyRing, Due

\* A step that leaves the workers' and the clients' rows alone.
LEMMA OtherStep ==
    ASSUME IInv, UNCHANGED <<clock, made, rung, work>>
    PROVE  ReadRows' /\ NoEarlyRing'
  BY DEF IInv, ReadRows, NoEarlyRing, Due

-----------------------------------------------------------------------------
(* complete_timer *)

LEMMA GetTimerStep ==
    ASSUME IInv, NEW w \in Workers, GetTimer(w)
    PROVE  IInv'
<1>1. PICK pc \in {"unschedule", "reschedule", "ring"}, r \in Row \cup {NoRow} :
         /\ work' = [work EXCEPT ![w] = Completing(pc, work[w].id, r)]
         /\ pc # "unschedule" => r \in rows /\ r.kind = "countdown"
         /\ pc = "ring" => Due(r)
  BY DEF GetTimer, IInv, TypeOK, WithId, Due
<1>2. work[w].id \in 0..MaxId
  BY DEF IInv, TypeOK, Completion
<1>3. /\ Completing(pc, work[w].id, r) \in Completion
      /\ Completing(pc, work[w].id, r).pc = pc
      /\ Completing(pc, work[w].id, r).row = r
  BY <1>2, CompletionType DEF WorkerStates
<1>4. TypeOK'
  BY <1>1, <1>3 DEF IInv, TypeOK, GetTimer
<1>5. ReadRows'
  BY <1>1, <1>3 DEF GetTimer, IInv, TypeOK, MadeRows, ReadRows, Due
<1> QED BY <1>4, <1>5, WorkerStep DEF IInv, GetTimer

\* A worker that has finished has no row to act on.
LEMMA WorkerDone ==
    ASSUME IInv, NEW w \in Workers, work' = [work EXCEPT ![w] = Idle],
           UNCHANGED <<clock, made>>
    PROVE  ReadRows' /\ work' \in [Workers -> Completion]
  BY IdleType DEF IInv, TypeOK, ReadRows, Due

LEMMA RescheduleStep ==
    ASSUME IInv, NEW w \in Workers, Reschedule(w)
    PROVE  IInv'
<1>1. work[w].row \in Row
  BY DEF Reschedule, IInv, ReadRows
<1>2. jobs' \subseteq Job
  BY <1>1, ScheduledType DEF Reschedule, IInv
<1> QED BY <1>2, WorkerDone, WorkerStep DEF Reschedule, IInv, TypeOK

LEMMA RingStep ==
    ASSUME IInv, NEW w \in Workers, Ring(w)
    PROVE  IInv'
<1> DEFINE x == [row |-> work[w].row, by |-> w, life |-> crashes,
                 spoken |-> work[w].row.line # said]
<1>1. /\ work[w].row \in Row /\ Due(work[w].row) /\ work[w].row.serial <= made
      /\ rung' = rung \cup {x}
  BY DEF Ring, IInv, ReadRows
<1>2. /\ work'[w].pc = "delete"
      /\ work' \in [Workers -> Completion]
  <2>1. work[w].id \in 0..MaxId
    BY DEF IInv, TypeOK, Completion
  <2> QED BY <1>1, <2>1, CompletionType DEF Ring, IInv, TypeOK, WorkerStates
<1>3. TypeOK'
  <2>1. x \in [row : Row, by : Workers, life : 0..MaxCrashes, spoken : BOOLEAN]
    BY <1>1 DEF IInv, TypeOK
  <2>2. work[w].row.line \in Lines \cup {Silence}
    BY <1>1 DEF Row
  <2> QED BY <1>1, <1>2, <2>1, <2>2 DEF Ring, IInv, TypeOK
<1>4. ReadRows'
  BY <1>2 DEF Ring, IInv, TypeOK, ReadRows, Due
<1>5. MadeRows' /\ NoEarlyRing'
  BY <1>1 DEF Ring, IInv, MadeRows, NoEarlyRing, Due
<1>6. ClientRows'
  BY DEF Ring, IInv, ClientRows
<1> QED BY <1>3, <1>4, <1>5, <1>6 DEF IInv

LEMMA DeleteTimerStep ==
    ASSUME IInv, NEW w \in Workers, DeleteTimer(w)
    PROVE  IInv'
<1>1. work[w].id \in 0..MaxId
  BY DEF IInv, TypeOK, Completion
<1>2. TypeOK'
  BY <1>1, CompletionType DEF DeleteTimer, IInv, TypeOK, WorkerStates
<1>3. ReadRows'
  BY <1>1, CompletionType DEF DeleteTimer, IInv, TypeOK, ReadRows, Due, WorkerStates
<1>4. MadeRows' /\ ClientRows' /\ NoEarlyRing'
  BY DEF DeleteTimer, IInv, MadeRows, ClientRows, NoEarlyRing, Due
<1> QED BY <1>2, <1>3, <1>4 DEF IInv

LEMMA UnscheduleTimerStep ==
    ASSUME IInv, NEW w \in Workers, UnscheduleTimer(w)
    PROVE  IInv'
<1>1. jobs' \subseteq Job
  BY UnscheduledType DEF UnscheduleTimer, IInv
<1> QED BY <1>1, WorkerDone, WorkerStep DEF UnscheduleTimer, IInv, TypeOK

-----------------------------------------------------------------------------
(* The scheduler *)

LEMMA DispatchStep ==
    ASSUME IInv, NEW i \in Ids, Dispatch(i)
    PROVE  IInv'
<1>1. i \in Workers /\ i \in 0..MaxId
  BY BoundsAssumption DEF Ids, Workers
<1>2. TypeOK'
  BY <1>1, CompletionType DEF Dispatch, IInv, TypeOK, WorkerStates
<1>3. ReadRows'
  BY <1>1, CompletionType DEF Dispatch, IInv, TypeOK, ReadRows, Due, WorkerStates
<1> QED BY <1>2, <1>3, WorkerStep DEF Dispatch, IInv

LEMMA PollStep ==
    ASSUME IInv, PollDue \/ PollNext
    PROVE  IInv'
<1>1. CASE PollDue
  BY <1>1, WorkerStep, OtherStep DEF PollDue, IInv, TypeOK
<1>2. CASE PollNext
  <2>1. PICK r \in todo : /\ todo' = todo \ {r}
                          /\ work' = [work EXCEPT ![Poll] = Completing("get", r.id, NoRow)]
    BY <1>2 DEF PollNext, First
  <2>2. r.id \in 0..MaxId /\ Poll \in Workers
    BY BoundsAssumption DEF IInv, TypeOK, Row, Ids, Poll, Workers
  <2>3. TypeOK'
    BY <1>2, <2>1, <2>2, CompletionType DEF PollNext, IInv, TypeOK, WorkerStates
  <2>4. ReadRows'
    BY <1>2, <2>1, <2>2, CompletionType
       DEF PollNext, IInv, TypeOK, ReadRows, Due, WorkerStates
  <2> QED BY <1>2, <2>3, <2>4, WorkerStep DEF PollNext, IInv
<1> QED BY <1>1, <1>2

-----------------------------------------------------------------------------
(* The clients *)

LEMMA AddTimerStep ==
    ASSUME IInv, NEW c \in Clients, AddTimer(c)
    PROVE  IInv'
<1>1. PICK i \in Ids, d \in Delays, l \in Lines :
        LET r == [id |-> i, serial |-> made + 1, kind |-> "countdown",
                  due |-> clock + d, line |-> l]
        IN  /\ clock + d <= MaxClock
            /\ rows' = rows \cup {r}
            /\ op' = [op EXCEPT ![c] = Doing("schedule", r, {})]
  BY DEF AddTimer
<1> DEFINE r == [id |-> i, serial |-> made + 1, kind |-> "countdown",
                 due |-> clock + d, line |-> l]
<1>2. made \in Nat /\ made' = made + 1 /\ made' \in 1..MaxMade
  BY BoundsAssumption DEF AddTimer, IInv, TypeOK
<1>3. r \in Row /\ r.serial <= made'
  BY <1>1, <1>2, BoundsAssumption DEF IInv, TypeOK, Row, Times, Kinds
<1>4. Doing("schedule", r, {}) \in Operation /\ Doing("schedule", r, {}).row \in Row
  BY <1>3, OperationType DEF ClientStates
<1>5. TypeOK'
  BY <1>1, <1>2, <1>3, <1>4 DEF AddTimer, IInv, TypeOK
<1>6. MadeRows'
  <2>1. \A q \in rows : q.serial \in Nat
    BY DEF IInv, TypeOK, Row
  <2>2. \A x \in rung : x.row.serial \in Nat
    BY DEF IInv, TypeOK, Row
  <2> QED BY <1>1, <1>2, <1>3, <2>1, <2>2 DEF AddTimer, IInv, MadeRows
<1>7. ReadRows'
  <2>1. \A w \in Workers : work[w].row \in Row => work[w].row.serial \in Nat
    BY DEF Row
  <2> QED BY <1>2, <2>1 DEF AddTimer, IInv, ReadRows, Due
<1>8. ClientRows'
  BY <1>1, <1>4 DEF AddTimer, IInv, TypeOK, ClientRows
<1>9. NoEarlyRing'
  BY DEF AddTimer, IInv, NoEarlyRing, Due
<1> QED BY <1>5, <1>6, <1>7, <1>8, <1>9 DEF IInv

LEMMA AddStopwatchStep ==
    ASSUME IInv, NEW c \in Clients, AddStopwatch(c)
    PROVE  IInv'
<1>1. PICK i \in Ids :
        rows' = rows \cup {[id |-> i, serial |-> made + 1, kind |-> "stopwatch",
                            due |-> 0, line |-> Silence]}
  BY DEF AddStopwatch
<1> DEFINE r == [id |-> i, serial |-> made + 1, kind |-> "stopwatch",
                 due |-> 0, line |-> Silence]
<1>2. made \in Nat /\ made' = made + 1 /\ made' \in 1..MaxMade
  BY BoundsAssumption DEF AddStopwatch, IInv, TypeOK
<1>3. r \in Row /\ r.serial <= made'
  BY <1>2, BoundsAssumption DEF Row, Times, Kinds
<1>4. TypeOK'
  BY <1>1, <1>2, <1>3 DEF AddStopwatch, IInv, TypeOK
<1>5. MadeRows'
  <2>1. \A q \in rows : q.serial \in Nat
    BY DEF IInv, TypeOK, Row
  <2>2. \A x \in rung : x.row.serial \in Nat
    BY DEF IInv, TypeOK, Row
  <2> QED BY <1>1, <1>2, <1>3, <2>1, <2>2 DEF AddStopwatch, IInv, MadeRows
<1>6. ReadRows'
  <2>1. \A w \in Workers : work[w].row \in Row => work[w].row.serial \in Nat
    BY DEF Row
  <2> QED BY <1>2, <2>1 DEF AddStopwatch, IInv, ReadRows, Due
<1>7. ClientRows' /\ NoEarlyRing'
  BY DEF AddStopwatch, IInv, ClientRows, NoEarlyRing, Due
<1> QED BY <1>4, <1>5, <1>6, <1>7 DEF IInv

LEMMA ScheduleTimerStep ==
    ASSUME IInv, NEW c \in Clients, ScheduleTimer(c)
    PROVE  IInv'
<1>1. op[c].row \in Row
  BY DEF ScheduleTimer, IInv, ClientRows
<1>2. jobs' \subseteq Job
  BY <1>1, ScheduledType DEF ScheduleTimer, IInv, TypeOK
<1>3. TypeOK'
  BY <1>2, NoOpType DEF ScheduleTimer, IInv, TypeOK
<1>4. ClientRows'
  BY NoOpType DEF ScheduleTimer, IInv, TypeOK, ClientRows
<1>5. MadeRows'
  BY DEF ScheduleTimer, IInv, MadeRows
<1> QED BY <1>3, <1>4, <1>5, OtherStep DEF ScheduleTimer, IInv

\* A client that selects rows, or moves on to the next of them, changes only
\* its own state.
LEMMA ClientMoves ==
    ASSUME IInv, NEW c \in Clients, NEW o \in Operation,
           o.pc \in {"unschedule", "delete", "rename"} => o.row \in Row,
           o.pc # "schedule",
           op' = [op EXCEPT ![c] = o],
           UNCHANGED <<clock, made, rows, up, crashes, jobs, work, todo, said, rung>>
    PROVE  IInv'
<1>1. TypeOK'
  BY DEF IInv, TypeOK
<1>2. ClientRows'
  BY DEF IInv, TypeOK, ClientRows
<1>3. MadeRows'
  BY DEF IInv, MadeRows
<1> QED BY <1>1, <1>2, <1>3, OtherStep DEF IInv

LEMMA SelectStep ==
    ASSUME IInv, NEW c \in Clients, Select(c)
    PROVE  IInv'
<1>1. PICK S \in SUBSET Row : op' = [op EXCEPT ![c] = Doing("remove", NoRow, S)]
  <2>1. PICK S \in (SUBSET Countdowns) \cup (SUBSET (rows \ Countdowns)) \cup {rows} :
           op' = [op EXCEPT ![c] = Doing("remove", NoRow, S)]
    BY DEF Select
  <2>2. S \subseteq Countdowns \/ S \subseteq rows \ Countdowns \/ S = rows
    BY <2>1, Zenon
  <2>3. S \subseteq rows
    BY <2>2 DEF Countdowns
  <2>4. S \subseteq Row
    BY <2>3 DEF IInv, TypeOK
  <2> QED BY <2>1, <2>4
<1>2. Doing("remove", NoRow, S) \in Operation /\ Doing("remove", NoRow, S).pc = "remove"
  BY OperationType DEF ClientStates
<1> QED BY <1>1, <1>2, ClientMoves DEF Select

LEMMA RemoveNextStep ==
    ASSUME IInv, NEW c \in Clients, RemoveNext(c)
    PROVE  IInv'
<1> DEFINE next(r) == IF r.kind = "countdown" THEN "unschedule" ELSE "delete"
<1>1. op[c].todo \in SUBSET Row
  BY DEF IInv, TypeOK, Operation
<1>2. PICK r \in op[c].todo :
        \/ op' = [op EXCEPT ![c] = Doing(next(r), r, op[c].todo \ {r})]
        \/ op' = [op EXCEPT ![c] = Rest(op[c].todo \ {r})]
  BY DEF RemoveNext, First
<1>3. r \in Row /\ op[c].todo \ {r} \in SUBSET Row
  BY <1>1, <1>2
<1>4. CASE op' = [op EXCEPT ![c] = Doing(next(r), r, op[c].todo \ {r})]
  <2>1. /\ Doing(next(r), r, op[c].todo \ {r}) \in Operation
        /\ Doing(next(r), r, op[c].todo \ {r}).pc = next(r)
        /\ Doing(next(r), r, op[c].todo \ {r}).row = r
    BY <1>3, OperationType DEF ClientStates
  <2> QED BY <1>3, <1>4, <2>1, ClientMoves DEF RemoveNext
<1>5. CASE op' = [op EXCEPT ![c] = Rest(op[c].todo \ {r})]
  BY <1>3, <1>5, RestType, ClientMoves DEF RemoveNext
<1> QED BY <1>2, <1>4, <1>5

LEMMA RemoveUnscheduleStep ==
    ASSUME IInv, NEW c \in Clients, RemoveUnschedule(c)
    PROVE  IInv'
<1> DEFINE o == Doing("delete", op[c].row, op[c].todo)
<1>1. op[c].row \in Row /\ op[c].todo \in SUBSET Row
  BY DEF RemoveUnschedule, IInv, TypeOK, ClientRows, Operation
<1>2. o \in Operation /\ o.pc = "delete" /\ o.row \in Row
  BY <1>1, OperationType DEF ClientStates
<1>3. jobs' \subseteq Job
  BY UnscheduledType DEF RemoveUnschedule, IInv, TypeOK
<1>4. TypeOK'
  BY <1>2, <1>3 DEF RemoveUnschedule, IInv, TypeOK
<1>5. ClientRows'
  BY <1>2 DEF RemoveUnschedule, IInv, TypeOK, ClientRows
<1>6. MadeRows'
  BY DEF RemoveUnschedule, IInv, MadeRows
<1> QED BY <1>4, <1>5, <1>6, OtherStep DEF RemoveUnschedule, IInv

LEMMA RemoveDeleteStep ==
    ASSUME IInv, NEW c \in Clients, RemoveDelete(c)
    PROVE  IInv'
<1>1. Rest(op[c].todo) \in Operation /\ Rest(op[c].todo).pc \in {"idle", "remove"}
  BY RestType DEF IInv, TypeOK, Operation
<1>2. TypeOK'
  BY <1>1 DEF RemoveDelete, IInv, TypeOK
<1>3. ClientRows'
  BY <1>1 DEF RemoveDelete, IInv, TypeOK, ClientRows
<1>4. MadeRows'
  BY DEF RemoveDelete, IInv, MadeRows
<1> QED BY <1>2, <1>3, <1>4, OtherStep DEF RemoveDelete, IInv

LEMMA SelectRenameStep ==
    ASSUME IInv, NEW c \in Clients, SelectRename(c)
    PROVE  IInv'
<1>1. PICK r \in rows : op' = [op EXCEPT ![c] = Doing("rename", r, {})]
  BY DEF SelectRename
<1>2. r \in Row
  BY <1>1 DEF IInv, TypeOK
<1>3. /\ Doing("rename", r, {}) \in Operation
      /\ Doing("rename", r, {}).pc = "rename"
      /\ Doing("rename", r, {}).row = r
  BY <1>2, OperationType DEF ClientStates
<1> QED BY <1>1, <1>2, <1>3, ClientMoves DEF SelectRename

\* A renamed row is a row with the same serial.
LEMMA RenamedType ==
    ASSUME NEW r \in Row, NEW i, NEW l \in Lines
    PROVE  Renamed(r, i, l) \in Row /\ Renamed(r, i, l).serial = r.serial
  BY DEF Renamed, Row

LEMMA RenameStep ==
    ASSUME IInv, NEW c \in Clients, Rename(c)
    PROVE  IInv'
<1>1. PICK l \in Lines : rows' = {Renamed(r, op[c].row.id, l) : r \in rows}
  BY DEF Rename
<1>2. rows \subseteq Row
  BY DEF IInv, TypeOK
<1>3. TypeOK'
  BY <1>1, <1>2, RenamedType, NoOpType DEF Rename, IInv, TypeOK
<1>4. MadeRows'
  BY <1>1, <1>2, RenamedType DEF Rename, IInv, MadeRows
<1>5. ClientRows'
  BY NoOpType DEF Rename, IInv, TypeOK, ClientRows
<1> QED BY <1>3, <1>4, <1>5, OtherStep DEF Rename, IInv

LEMMA WipeDatabaseStep ==
    ASSUME IInv, NEW c \in Clients, WipeDatabase(c)
    PROVE  IInv'
  BY OtherStep DEF WipeDatabase, IInv, TypeOK, MadeRows, ClientRows

-----------------------------------------------------------------------------
(* The process and the clock *)

LEMMA CrashStep == ASSUME IInv, Crash PROVE IInv'
<1>1. TypeOK'
  <2>1. work' \in [Workers -> Completion]
    BY IdleType DEF Crash
  <2>2. op' \in [Clients -> Operation]
    BY NoOpType DEF Crash, IInv, TypeOK
  <2>3. crashes' \in 0..MaxCrashes
    BY BoundsAssumption DEF Crash, IInv, TypeOK
  <2> QED BY <2>1, <2>2, <2>3 DEF Crash, IInv, TypeOK
<1>2. ReadRows' /\ ClientRows'
  BY IdleType, NoOpType DEF Crash, IInv, ReadRows, ClientRows
<1>3. MadeRows' /\ NoEarlyRing'
  BY DEF Crash, IInv, MadeRows, NoEarlyRing, Due
<1> QED BY <1>1, <1>2, <1>3 DEF IInv

LEMMA RestartStep == ASSUME IInv, Restart PROVE IInv'
<1>1. jobs' \subseteq Job
  BY DEF Restart, IInv, TypeOK, Countdowns, Row, Job, Later, Times, Ids
<1>2. TypeOK'
  BY <1>1 DEF Restart, IInv, TypeOK
<1>3. MadeRows' /\ ClientRows'
  BY DEF Restart, IInv, MadeRows, ClientRows
<1> QED BY <1>2, <1>3, OtherStep DEF Restart, IInv

LEMMA TickStep == ASSUME IInv, Tick PROVE IInv'
<1>1. clock \in Int /\ clock' = clock + 1 /\ clock' \in Times
  BY BoundsAssumption DEF Tick, IInv, TypeOK, Times
<1>2. \A r \in Row : Due(r) => Due(r)'
  BY <1>1 DEF Due, Row, Times
<1>3. \A x \in rung : x.row \in Row
  BY DEF IInv, TypeOK
<1>4. TypeOK'
  BY <1>1 DEF Tick, IInv, TypeOK
<1>5. ReadRows'
  BY <1>2 DEF Tick, IInv, ReadRows
<1>6. NoEarlyRing'
  BY <1>2, <1>3 DEF Tick, IInv, NoEarlyRing
<1>7. MadeRows' /\ ClientRows'
  BY DEF Tick, IInv, MadeRows, ClientRows
<1> QED BY <1>4, <1>5, <1>6, <1>7 DEF IInv

LEMMA AnnounceOtherStep == ASSUME IInv, AnnounceOther PROVE IInv'
<1>1. TypeOK'
  BY DEF AnnounceOther, IInv, TypeOK
<1>2. MadeRows' /\ ClientRows'
  BY DEF AnnounceOther, IInv, MadeRows, ClientRows
<1> QED BY <1>1, <1>2, OtherStep DEF AnnounceOther, IInv

LEMMA StutterStep == ASSUME IInv, UNCHANGED vars PROVE IInv'
<1>1. TypeOK'
  BY DEF vars, IInv, TypeOK
<1>2. MadeRows' /\ ClientRows'
  BY DEF vars, IInv, MadeRows, ClientRows
<1> QED BY <1>1, <1>2, OtherStep DEF vars, IInv

\* The strengthened invariant is inductive: one lemma per action.
LEMMA NextIInv == IInv /\ [Next]_vars => IInv'
<1> SUFFICES ASSUME IInv, [Next]_vars PROVE IInv'
  OBVIOUS
<1>1. ASSUME NEW w \in Workers, CompleteTimer(w) PROVE IInv'
  BY <1>1, GetTimerStep, RescheduleStep, RingStep, DeleteTimerStep, UnscheduleTimerStep
     DEF CompleteTimer
<1>2. ASSUME NEW i \in Ids, Dispatch(i) PROVE IInv'
  BY <1>2, DispatchStep
<1>3. CASE PollDue \/ PollNext
  BY <1>3, PollStep
<1>4. ASSUME NEW c \in Clients, ClientStep(c) PROVE IInv'
  BY <1>4, ScheduleTimerStep, RemoveNextStep, RemoveUnscheduleStep, RemoveDeleteStep,
     RenameStep
     DEF ClientStep
<1>5. ASSUME NEW c \in Clients, ClientRequest(c) PROVE IInv'
  BY <1>5, AddTimerStep, AddStopwatchStep, SelectStep, SelectRenameStep, WipeDatabaseStep
     DEF ClientRequest
<1>6. CASE Crash \/ Restart \/ Tick \/ AnnounceOther
  BY <1>6, CrashStep, RestartStep, TickStep, AnnounceOtherStep
<1>7. CASE UNCHANGED vars
  BY <1>7, StutterStep
<1> QED BY <1>1, <1>2, <1>3, <1>4, <1>5, <1>6, <1>7 DEF Next

LEMMA Invariance == Spec => []IInv
<1>1. Init => IInv
  BY InitIInv
<1>2. IInv /\ [Next]_vars => IInv'
  BY NextIInv
<1> QED BY <1>1, <1>2, PTL DEF Spec

\* Every variable keeps its type, for any number of clients, timers and crashes.
THEOREM TypeCorrect == Spec => []TypeOK
<1>1. IInv => TypeOK
  BY DEF IInv
<1> QED BY <1>1, Invariance, PTL

\* No timer is announced before it is due and no stopwatch is ever announced,
\* whatever jobs earlier rows with the same id left behind.
THEOREM NeverEarly == Spec => []NoEarlyRing
<1>1. IInv => NoEarlyRing
  BY DEF IInv
<1> QED BY <1>1, Invariance, PTL

-----------------------------------------------------------------------------
(* What the refinement needs beyond IInv.  That a countdown is announced    *)
(* once by its job and once by the poll is not a matter of one step: the    *)
(* row of an announced countdown is still in the table until DeleteTimer,   *)
(* and only the worker that announced it is there.  Serials identify rows,  *)
(* so what that worker removes by id is the row it announced, or else the   *)
(* announced row has gone before.                                           *)

Busy == {w \in Workers : work[w].pc \in {"ring", "delete"}}

\* The rows of the table and those that workers announce and delete.
Seen == rows \cup {work[w].row : w \in Busy}

\* A worker that announces or deletes has the row with its id in hand.
BusyRows ==
    \A w \in Busy : /\ work[w].row \in Row
                    /\ work[w].row.serial <= made
                    /\ work[w].row.id = work[w].id

\* The instance of job "timer:i" works on timer i.
OwnIds == \A w \in Workers : w # Poll /\ work[w].pc # "idle" => work[w].id = w

\* A row never gets another id.
SerialsFixIds == \A q, r \in Seen : q.serial = r.serial => q.id = r.id

\* A countdown announced in this life is in the table no longer than until
\* the one who announced it deletes it, ...
RungRows ==
    \A x \in rung, r \in rows :
       x.life = crashes /\ x.row.serial = r.serial
       => work[x.by].pc = "delete" /\ work[x.by].row.serial = r.serial

\* ... so that none of its kind is about to announce it again.
RungOnce ==
    \A x \in rung, w \in Workers :
       x.life = crashes /\ By(x.by) = By(w) /\ work[w].pc = "ring"
       => x.row.serial # work[w].row.serial

Lives == \A x \in rung : x.life <= crashes

\* Who removes nothing has no rows left to remove.
EmptyHanded ==
    \A c \in Clients : op[c].pc \in {"idle", "schedule", "rename"} => op[c].todo = {}

RInv ==
    /\ BusyRows /\ OwnIds /\ SerialsFixIds /\ RungRows /\ RungOnce /\ Lives
    /\ EmptyHanded

LEMMA InitRInv == Init => RInv
<1> SUFFICES ASSUME Init PROVE RInv
  OBVIOUS
<1>1. \A w \in Workers : work[w].pc = "idle"
  BY IdleType DEF Init
<1>2. \A c \in Clients : op[c].todo = {}
  BY DEF Init, NoOp, Doing
<1>3. Busy = {} /\ rows = {} /\ rung = {}
  BY <1>1 DEF Busy, Init
<1> QED BY <1>1, <1>2, <1>3
           DEF RInv, BusyRows, OwnIds, SerialsFixIds, Seen, RungRows, RungOnce, Lives,
               EmptyHanded

\* Only the poll and the job of timer i work on timer i, the job alone as a job.
LEMMA OneEach ==
    ASSUME IInv, RInv, NEW v \in Workers, NEW w \in Workers,
           work[v].pc # "idle", work[w].pc # "idle",
           By(v) = By(w), work[v].id = work[w].id
    PROVE  v = w
  BY DEF RInv, OwnIds, By

\* Two of a kind that announce or delete rows have different rows in hand.
LEMMA OneRowEach ==
    ASSUME IInv, RInv, NEW v \in Busy, NEW w \in Busy,
           By(v) = By(w), work[v].row.serial = work[w].row.serial
    PROVE  v = w
<1>1. work[v].row.id = work[w].row.id
  BY DEF RInv, SerialsFixIds, Seen
<1> QED BY <1>1, OneEach DEF RInv, BusyRows, Busy

\* A step that keeps the workers and what was announced keeps RInv but for
\* EmptyHanded, when the rows keep their ids and serials.
LEMMA RowsStep ==
    ASSUME IInv, RInv, UNCHANGED <<made, work, rung, crashes>>,
           \A q \in rows' : \E p \in rows : p.id = q.id /\ p.serial = q.serial
    PROVE  /\ BusyRows' /\ OwnIds' /\ SerialsFixIds' /\ RungRows' /\ RungOnce' /\ Lives'
<1>1. Busy' = Busy
  BY DEF Busy
<1>2. \A q \in Seen' : \E p \in Seen : p.id = q.id /\ p.serial = q.serial
  BY <1>1 DEF Seen
<1>3. SerialsFixIds'
  BY <1>2 DEF RInv, SerialsFixIds
<1>4. RungRows'
  BY DEF RInv, RungRows
<1>5. BusyRows' /\ OwnIds' /\ RungOnce' /\ Lives'
  BY <1>1 DEF RInv, BusyRows, OwnIds, RungOnce, Lives
<1> QED BY <1>3, <1>4, <1>5

\* A worker that neither deletes nor is going to announce or delete does not matter.
LEMMA WorkStep ==
    ASSUME IInv, RInv, NEW w \in Workers, NEW d,
           work' = [work EXCEPT ![w] = d],
           work[w].pc # "delete", d.pc \notin {"ring", "delete"},
           w # Poll /\ d.pc # "idle" => d.id = w,
           UNCHANGED <<made, rows, rung, crashes, op>>
    PROVE  RInv'
<1>1. \A v \in Workers : work'[v] = IF v = w THEN d ELSE work[v]
  BY DEF IInv, TypeOK
<1>2. Busy' = Busy \ {w} /\ \A v \in Busy' : work'[v] = work[v] /\ v \in Busy
  BY <1>1 DEF Busy
<1>3. Seen' \subseteq Seen
  BY <1>2 DEF Seen
<1>4. BusyRows' /\ OwnIds' /\ SerialsFixIds'
  BY <1>1, <1>2, <1>3 DEF RInv, BusyRows, OwnIds, SerialsFixIds
<1>5. RungRows'
  <2>1. \A x \in rung : x.by \in Workers
    BY DEF IInv, TypeOK
  <2> QED BY <1>1, <2>1 DEF RInv, RungRows
<1>6. RungOnce'
  BY <1>1 DEF RInv, RungOnce
<1>7. Lives' /\ EmptyHanded'
  BY DEF RInv, Lives, EmptyHanded
<1> QED BY <1>4, <1>5, <1>6, <1>7 DEF RInv

-----------------------------------------------------------------------------
(* What the steps of a completion are to the users.                        *)

\* A countdown is looked up, found due, and will be announced.
LEMMA GetTimerRInv ==
    ASSUME IInv, RInv, NEW w \in Workers, GetTimer(w), work'[w].pc = "ring"
    PROVE  RInv' /\ Promise!Expire
<1>1. work[w].pc = "get" /\ UNCHANGED <<clock, made, rows, up, crashes, rung, op>>
  BY DEF GetTimer
<1>2. PICK r \in rows : /\ r.id = work[w].id /\ Due(r)
                        /\ work' = [work EXCEPT ![w] = Completing("ring", work[w].id, r)]
  BY DEF GetTimer, WithId, IInv, TypeOK, Completing
<1> DEFINE d == Completing("ring", work[w].id, r)
<1>3. /\ d.pc = "ring" /\ d.id = work[w].id /\ d.row = r
      /\ \A v \in Workers : work'[v] = IF v = w THEN d ELSE work[v]
  BY <1>2 DEF IInv, TypeOK, Completing
<1>4. r \in Row /\ r.serial <= made
  BY DEF IInv, TypeOK, MadeRows
<1>5. /\ Busy' = Busy \cup {w} /\ w \notin Busy
      /\ \A v \in Busy : work'[v] = work[v]
  BY <1>1, <1>3 DEF Busy
<1>6. Seen' \subseteq Seen
  BY <1>1, <1>3, <1>5 DEF Seen
<1>7. BusyRows' /\ SerialsFixIds'
  BY <1>1, <1>2, <1>3, <1>4, <1>5, <1>6 DEF RInv, BusyRows, SerialsFixIds
<1>8. OwnIds'
  BY <1>1, <1>3 DEF RInv, OwnIds
<1>9. RungRows'
  <2>1. \A x \in rung : x.by \in Workers
    BY DEF IInv, TypeOK
  <2> QED BY <1>1, <1>3, <2>1 DEF RInv, RungRows
<1>10. \A x \in rung : x.life = crashes /\ By(x.by) = By(w) => x.row.serial # r.serial
  <2> SUFFICES ASSUME NEW x \in rung, x.life = crashes, By(x.by) = By(w),
                      x.row.serial = r.serial
               PROVE  FALSE
    OBVIOUS
  <2>1. /\ work[x.by].pc = "delete" /\ work[x.by].row.serial = r.serial
        /\ x.by \in Workers
    BY DEF RInv, RungRows, IInv, TypeOK
  <2>2. x.by \in Busy
    BY <2>1 DEF Busy
  <2>3. work[x.by].row.id = r.id
    BY <2>1, <2>2 DEF RInv, SerialsFixIds, Seen
  <2>4. work[x.by].id = work[w].id
    BY <1>2, <2>2, <2>3 DEF RInv, BusyRows
  <2>5. x.by = w
    BY <1>1, <2>1, <2>4, OneEach
  <2> QED BY <1>1, <2>1, <2>5
<1>11. RungOnce'
  <2> SUFFICES ASSUME NEW x \in rung, NEW v \in Workers, x.life = crashes,
                      By(x.by) = By(v), work'[v].pc = "ring"
               PROVE  x.row.serial # work'[v].row.serial
    BY <1>1 DEF RungOnce
  <2>1. CASE v = w
    BY <1>3, <1>10, <2>1
  <2>2. CASE v # w
    BY <1>3, <2>2 DEF RInv, RungOnce
  <2> QED BY <2>1, <2>2
<1>12. Lives' /\ EmptyHanded'
  BY <1>1 DEF RInv, Lives, EmptyHanded
<1> DEFINE e == [row |-> r, by |-> By(w), told |-> FALSE]
<1>13. Expiring' = Expiring \cup {e}
  <2>1. Expiring = {[row |-> work[v].row, by |-> By(v), told |-> work[v].pc = "delete"] :
                    v \in Busy}
    BY DEF Expiring, Busy
  <2>2. Expiring' = {[row |-> work'[v].row, by |-> By(v), told |-> work'[v].pc = "delete"] :
                     v \in Busy'}
    BY DEF Expiring, Busy
  <2>3. [row |-> work'[w].row, by |-> By(w), told |-> work'[w].pc = "delete"] = e
    BY <1>3
  <2> QED BY <1>5, <2>1, <2>2, <2>3
<1>14. \A f \in Expiring : f.by = By(w) => f.row.id # r.id
  <2> SUFFICES ASSUME NEW v \in Busy, By(v) = By(w), work[v].row.id = r.id
               PROVE  FALSE
    BY DEF Expiring, Busy
  <2>1. work[v].id = work[w].id /\ v \in Workers /\ work[v].pc # "idle"
    BY <1>2 DEF RInv, BusyRows, Busy
  <2>2. v = w
    BY <1>1, <2>1, OneEach
  <2> QED BY <1>5, <2>2
<1>15. UNCHANGED <<Leaving, Announced>>
  BY <1>1 DEF Leaving, Announced
<1>16. Promise!Expire
  <2>1. By(w) \in Promise!By /\ Promise!Due(r)
    BY <1>2 DEF By, Promise!By, Due, Promise!Due
  <2> QED BY <1>1, <1>13, <1>14, <1>15, <2>1 DEF Promise!Expire
<1> QED BY <1>7, <1>8, <1>9, <1>11, <1>12, <1>16 DEF RInv

\* What a worker that announces or deletes contributes to Expiring, ...
Entry(w) == [row |-> work[w].row, by |-> By(w), told |-> work[w].pc = "delete"]

LEMMA ExpiringEntries ==
    Expiring = {Entry(w) : w \in Busy} /\ Expiring' = {Entry(w)' : w \in Busy'}
  BY DEF Expiring, Busy, Entry

\* ... and no other contributes the same.
LEMMA EntryOfOne ==
    ASSUME IInv, RInv, NEW v \in Busy, NEW w \in Busy,
           Entry(v).by = Entry(w).by, Entry(v).row = Entry(w).row
    PROVE  v = w
  BY OneRowEach DEF Entry

\* It is announced, the first time by this worker's kind in this life.
LEMMA RingRInv ==
    ASSUME IInv, RInv, NEW w \in Workers, Ring(w)
    PROVE  RInv' /\ Promise!Announce
<1> DEFINE r == work[w].row
           x == [row |-> r, by |-> w, life |-> crashes, spoken |-> r.line # said]
           d == Completing("delete", work[w].id, r)
<1>1. /\ work[w].pc = "ring" /\ rung' = rung \cup {x}
      /\ UNCHANGED <<clock, made, rows, up, crashes, op>>
      /\ \A v \in Workers : work'[v] = IF v = w THEN d ELSE work[v]
  BY DEF Ring, IInv, TypeOK
<1>2. d.pc = "delete" /\ d.id = work[w].id /\ d.row = r
  BY DEF Completing
<1>3. w \in Busy /\ Busy' = Busy
  BY <1>1, <1>2 DEF Busy
<1>4. Seen' = Seen
  <2>1. \A v \in Busy : work'[v].row = work[v].row
    BY <1>1, <1>2 DEF Busy
  <2> QED BY <1>1, <1>3, <2>1 DEF Seen
<1>5. BusyRows' /\ OwnIds' /\ SerialsFixIds'
  BY <1>1, <1>2, <1>3, <1>4 DEF RInv, BusyRows, OwnIds, SerialsFixIds, Busy
<1>6. RungRows'
  <2> SUFFICES ASSUME NEW y \in rung', NEW q \in rows, y.life = crashes,
                      y.row.serial = q.serial
               PROVE  work'[y.by].pc = "delete" /\ work'[y.by].row.serial = q.serial
    BY <1>1 DEF RungRows
  <2>1. CASE y = x
    BY <1>1, <1>2, <2>1
  <2>2. CASE y \in rung
    <3>1. work[y.by].pc = "delete" /\ work[y.by].row.serial = q.serial /\ y.by \in Workers
      BY <2>2 DEF RInv, RungRows, IInv, TypeOK
    <3> QED BY <1>1, <3>1
  <2> QED BY <1>1, <2>1, <2>2
<1>7. RungOnce'
  <2> SUFFICES ASSUME NEW y \in rung', NEW v \in Workers, y.life = crashes,
                      By(y.by) = By(v), work'[v].pc = "ring"
               PROVE  y.row.serial # work'[v].row.serial
    BY <1>1 DEF RungOnce
  <2>1. v # w /\ work'[v] = work[v] /\ v \in Busy
    BY <1>1, <1>2 DEF Busy
  <2>2. CASE y = x
    BY <1>3, <2>1, <2>2, OneRowEach
  <2>3. CASE y \in rung
    BY <2>1, <2>3 DEF RInv, RungOnce
  <2> QED BY <1>1, <2>2, <2>3
<1>8. Lives'
  <2>1. crashes <= crashes
    BY DEF IInv, TypeOK
  <2> QED BY <1>1, <2>1 DEF RInv, Lives
<1>9. EmptyHanded'
  BY <1>1 DEF RInv, EmptyHanded
<1> DEFINE e == Entry(w)
           f == [row |-> e.row, by |-> e.by, told |-> TRUE]
<1>10. /\ e \in Expiring /\ ~e.told /\ e.row = r /\ e.by = By(w)
       /\ Entry(w)' = f
  <2>1. e = [row |-> r, by |-> By(w), told |-> FALSE]
    BY <1>1 DEF Entry
  <2>2. Entry(w)' = [row |-> r, by |-> By(w), told |-> TRUE]
    BY <1>1, <1>2 DEF Entry
  <2>3. e \in Expiring
    BY <1>3, ExpiringEntries
  <2> QED BY <2>1, <2>2, <2>3
<1>11. Expiring' = (Expiring \ {e}) \cup {f}
  <2>1. \A v \in Busy : v # w => Entry(v)' = Entry(v) /\ Entry(v) # e
    BY <1>1, <1>3, EntryOfOne DEF Entry, Busy
  <2> QED BY <1>3, <1>10, <2>1, ExpiringEntries
<1>12. \A a \in Announced : a.life = crashes /\ a.by = e.by => a.row.serial # e.row.serial
  BY <1>1, <1>10 DEF Announced, RInv, RungOnce
<1>13. Announced' = Announced \cup {[row |-> e.row, by |-> e.by, life |-> crashes]}
  <2> DEFINE said_by(y) == [row |-> y.row, by |-> By(y.by), life |-> y.life]
  <2>1. said_by(x) = [row |-> e.row, by |-> e.by, life |-> crashes]
    BY <1>10
  <2>2. Announced = {said_by(y) : y \in rung}
    BY DEF Announced
  <2>3. Announced' = {said_by(y) : y \in rung \cup {x}}
    BY <1>1 DEF Announced
  <2>4. Announced' = Announced \cup {said_by(x)}
    BY <2>2, <2>3
  <2> QED BY <2>1, <2>4
<1>14. UNCHANGED Leaving
  BY <1>1 DEF Leaving
<1>15. Promise!Announce
  BY <1>1, <1>10, <1>11, <1>12, <1>13, <1>14 DEF Promise!Announce
<1> QED BY <1>5, <1>6, <1>7, <1>8, <1>9, <1>15 DEF RInv

\* It leaves, and with it its entry; a row that got its id since goes in its place.
LEMMA DeleteTimerRInv ==
    ASSUME IInv, RInv, NEW w \in Workers, DeleteTimer(w)
    PROVE  RInv' /\ Promise!Complete
<1> DEFINE d == Completing("unschedule", work[w].id, NoRow)
<1>1. /\ work[w].pc = "delete" /\ rows' = {r \in rows : r.id # work[w].id}
      /\ UNCHANGED <<clock, made, up, crashes, op, rung>>
      /\ \A v \in Workers : work'[v] = IF v = w THEN d ELSE work[v]
  BY DEF DeleteTimer, IInv, TypeOK
<1>2. d.pc = "unschedule" /\ d.id = work[w].id
  BY DEF Completing
<1>3. w \in Busy /\ Busy' = Busy \ {w}
  BY <1>1, <1>2 DEF Busy
<1>4. Seen' \subseteq Seen
  BY <1>1, <1>3 DEF Seen, Busy
<1>5. BusyRows' /\ OwnIds' /\ SerialsFixIds'
  BY <1>1, <1>2, <1>3, <1>4 DEF RInv, BusyRows, OwnIds, SerialsFixIds, Busy
<1>6. RungRows'
  <2> SUFFICES ASSUME NEW x \in rung, NEW r \in rows, r.id # work[w].id,
                      x.life = crashes, x.row.serial = r.serial
               PROVE  work'[x.by].pc = "delete" /\ work'[x.by].row.serial = r.serial
    BY <1>1 DEF RungRows
  <2>1. work[x.by].pc = "delete" /\ work[x.by].row.serial = r.serial /\ x.by \in Workers
    BY DEF RInv, RungRows, IInv, TypeOK
  <2>2. x.by \in Busy /\ work[x.by].row.id = r.id
    BY <2>1 DEF Busy, RInv, SerialsFixIds, Seen
  <2>3. x.by # w
    BY <2>2 DEF RInv, BusyRows
  <2> QED BY <1>1, <2>1, <2>3
<1>7. RungOnce'
  BY <1>1, <1>2 DEF RInv, RungOnce
<1>8. Lives' /\ EmptyHanded'
  BY <1>1 DEF RInv, Lives, EmptyHanded
<1> DEFINE e == Entry(w)
<1>9. /\ e \in Expiring /\ e.told /\ e.row.id = work[w].id
  BY <1>1, <1>3, ExpiringEntries DEF Entry, RInv, BusyRows
<1>10. Expiring' = Expiring \ {e}
  <2>1. \A v \in Busy : v # w => Entry(v)' = Entry(v) /\ Entry(v) # e
    BY <1>1, <1>3, EntryOfOne DEF Entry, Busy
  <2> QED BY <1>3, <2>1, ExpiringEntries
<1>11. UNCHANGED <<Leaving, Announced>>
  BY <1>1 DEF Leaving, Announced
<1>12. rows' = Promise!Without(e.row.id)
  BY <1>1, <1>9 DEF Promise!Without
<1>13. Promise!Complete
  BY <1>1, <1>9, <1>10, <1>11, <1>12 DEF Promise!Complete
<1> QED BY <1>5, <1>6, <1>7, <1>8, <1>13 DEF RInv

\* The other steps of workers, jobs and polls are none to the users.
LEMMA QuietWork ==
    ASSUME IInv, RInv, NEW w \in Workers, NEW d,
           work' = [work EXCEPT ![w] = d],
           work[w].pc \notin {"ring", "delete"}, d.pc \notin {"ring", "delete"},
           w # Poll /\ d.pc # "idle" => d.id = w,
           UNCHANGED <<clock, made, rows, up, crashes, op, rung>>
    PROVE  RInv' /\ UNCHANGED Promise!pvars
<1>1. RInv'
  BY WorkStep
<1>2. \A v \in Workers : work'[v] = IF v = w THEN d ELSE work[v]
  BY DEF IInv, TypeOK
<1>3. Busy' = Busy /\ \A v \in Busy : Entry(v)' = Entry(v)
  BY <1>2 DEF Busy, Entry
<1>4. UNCHANGED <<Expiring, Leaving, Announced>>
  BY <1>3, ExpiringEntries DEF Leaving, Announced
<1> QED BY <1>1, <1>4 DEF Promise!pvars

LEMMA CompleteTimerRInv ==
    ASSUME IInv, RInv, NEW w \in Workers, CompleteTimer(w)
    PROVE  RInv' /\ (Promise!Next \/ UNCHANGED Promise!pvars)
<1>1. CASE GetTimer(w)
  <2>1. PICK pc, r :
          /\ pc \in {"unschedule", "reschedule", "ring"}
          /\ work' = [work EXCEPT ![w] = Completing(pc, work[w].id, r)]
    BY <1>1 DEF GetTimer
  <2> DEFINE d == Completing(pc, work[w].id, r)
  <2>2. d.pc = pc /\ d.id = work[w].id /\ work'[w].pc = pc
    BY <2>1 DEF Completing, IInv, TypeOK
  <2>3. CASE pc = "ring"
    BY <1>1, <2>2, <2>3, GetTimerRInv DEF Promise!Next
  <2>4. CASE pc # "ring"
    <3>1. work[w].pc = "get" /\ UNCHANGED <<clock, made, rows, up, crashes, op, rung>>
      BY <1>1 DEF GetTimer
    <3>2. w # Poll => d.id = w
      BY <2>2, <3>1 DEF RInv, OwnIds
    <3> QED BY <2>1, <2>2, <2>4, <3>1, <3>2, QuietWork
  <2> QED BY <2>3, <2>4
<1>2. CASE Reschedule(w) \/ UnscheduleTimer(w)
  BY <1>2, IdleType, QuietWork DEF Reschedule, UnscheduleTimer
<1>3. CASE Ring(w)
  BY <1>3, RingRInv DEF Promise!Next
<1>4. CASE DeleteTimer(w)
  BY <1>4, DeleteTimerRInv DEF Promise!Next
<1> QED BY <1>1, <1>2, <1>3, <1>4 DEF CompleteTimer

LEMMA StandStill ==
    ASSUME IInv, RInv, UNCHANGED <<clock, made, rows, up, crashes, work, op, rung>>
    PROVE  RInv' /\ UNCHANGED Promise!pvars
<1>1. \A q \in rows' : q \in rows /\ q.id = q.id /\ q.serial = q.serial
  OBVIOUS
<1>2. EmptyHanded'
  BY DEF RInv, EmptyHanded
<1>3. UNCHANGED <<Expiring, Leaving, Announced>>
  BY DEF Expiring, Leaving, Announced
<1> QED BY <1>1, <1>2, <1>3, RowsStep DEF RInv, Promise!pvars

LEMMA SchedulerRInv ==
    ASSUME IInv, RInv, (\E i \in Ids : Dispatch(i)) \/ PollDue \/ PollNext
    PROVE  RInv' /\ UNCHANGED Promise!pvars
<1>1. ASSUME NEW i \in Ids, Dispatch(i) PROVE RInv' /\ UNCHANGED Promise!pvars
  <2>1. i \in Workers
    BY DEF Ids, Workers
  <2> DEFINE d == Completing("get", i, NoRow)
  <2>2. d.pc = "get" /\ d.id = i
    BY DEF Completing
  <2>3. CASE work[i].pc = "idle" /\ work' = [work EXCEPT ![i] = d]
    BY <1>1, <2>1, <2>2, <2>3, QuietWork DEF Dispatch
  <2>4. CASE work' = work
    BY <1>1, <2>4, StandStill DEF Dispatch
  <2> QED BY <1>1, <2>3, <2>4 DEF Dispatch
<1>2. CASE PollDue
  BY <1>2, StandStill DEF PollDue
<1>3. CASE PollNext
  <2>1. PICK r : work' = [work EXCEPT ![Poll] = Completing("get", r.id, NoRow)]
    BY <1>3 DEF PollNext
  <2>2. Poll \in Workers /\ Completing("get", r.id, NoRow).pc = "get"
    BY BoundsAssumption DEF Poll, Workers, Completing
  <2> QED BY <1>3, <2>1, <2>2, QuietWork DEF PollNext
<1> QED BY <1>1, <1>2, <1>3

-----------------------------------------------------------------------------
(* What the requests are to the users.                                     *)

\* A new row: no row seen before has its serial.
LEMMA AddRInv ==
    ASSUME IInv, RInv, NEW c \in Clients, AddTimer(c) \/ AddStopwatch(c)
    PROVE  RInv' /\ Promise!Create
<1>1. PICK i \in Ids, k \in Kinds, d \in Times, l \in Lines \cup {Silence}, S \in {{}} :
        /\ FreshId(i) /\ made < MaxMade
        /\ rows' = rows \cup {[id |-> i, serial |-> made + 1, kind |-> k,
                               due |-> d, line |-> l]}
        /\ \A b \in Clients : op'[b].todo = IF b = c THEN S ELSE op[b].todo
  <2>1. CASE AddTimer(c)
    <3>1. PICK i \in Ids, d \in Delays, l \in Lines :
            /\ FreshId(i) /\ clock + d <= MaxClock /\ made < MaxMade
            /\ rows' = rows \cup {[id |-> i, serial |-> made + 1, kind |-> "countdown",
                                   due |-> clock + d, line |-> l]}
            /\ op' = [op EXCEPT ![c] = Doing("schedule",
                         [id |-> i, serial |-> made + 1, kind |-> "countdown",
                          due |-> clock + d, line |-> l], {})]
      BY <2>1 DEF AddTimer
    <3>2. clock + d \in Times /\ "countdown" \in Kinds
      BY <3>1, BoundsAssumption DEF IInv, TypeOK, Times, Kinds
    <3>3. \A b \in Clients : op'[b].todo = IF b = c THEN {} ELSE op[b].todo
      BY <3>1 DEF IInv, TypeOK, Doing
    <3> QED BY <3>1, <3>2, <3>3
  <2>2. CASE AddStopwatch(c)
    <3>1. PICK i \in Ids :
            /\ FreshId(i) /\ made < MaxMade
            /\ rows' = rows \cup {[id |-> i, serial |-> made + 1, kind |-> "stopwatch",
                                   due |-> 0, line |-> Silence]}
      BY <2>2 DEF AddStopwatch
    <3>2. 0 \in Times /\ "stopwatch" \in Kinds
      BY BoundsAssumption DEF Times, Kinds
    <3>3. op' = op /\ op[c].todo = {}
      BY <2>2 DEF AddStopwatch, RInv, EmptyHanded
    <3> QED BY <3>1, <3>2, <3>3
  <2> QED BY <2>1, <2>2
<1> DEFINE r == [id |-> i, serial |-> made + 1, kind |-> k, due |-> d, line |-> l]
<1>2. /\ made \in Nat /\ made' = made + 1
      /\ UNCHANGED <<clock, up, crashes, work, rung>>
  BY DEF AddTimer, AddStopwatch, IInv, TypeOK
<1>3. op[c].todo = {}
  BY DEF AddTimer, AddStopwatch, RInv, EmptyHanded
<1>4. Busy' = Busy
  BY <1>2 DEF Busy
<1>5. Seen' = Seen \cup {r}
  BY <1>1, <1>2, <1>4 DEF Seen
<1>6. \A q \in Seen : q.serial # r.serial
  <2>1. \A q \in Seen : q \in Row /\ q.serial <= made
    BY DEF Seen, RInv, BusyRows, IInv, TypeOK, MadeRows
  <2>2. \A q \in Row : q.serial \in Nat
    BY DEF Row
  <2> QED BY <1>2, <2>1, <2>2
<1>7. SerialsFixIds'
  BY <1>5, <1>6 DEF RInv, SerialsFixIds
<1>8. BusyRows'
  <2>1. \A w \in Busy : work[w].row.serial \in Nat
    BY DEF RInv, BusyRows, Row
  <2> QED BY <1>2, <1>4, <2>1 DEF RInv, BusyRows
<1>9. RungRows'
  <2>1. \A x \in rung : x.row.serial # r.serial
    <3>1. \A x \in rung : x.row.serial \in Nat /\ x.row.serial <= made
      BY DEF IInv, TypeOK, MadeRows, Row
    <3> QED BY <1>2, <3>1
  <2> QED BY <1>1, <1>2, <2>1 DEF RInv, RungRows
<1>10. OwnIds' /\ RungOnce' /\ Lives'
  BY <1>2 DEF RInv, OwnIds, RungOnce, Lives
<1>11. EmptyHanded'
  BY <1>1, <1>3 DEF AddTimer, AddStopwatch, RInv, EmptyHanded, IInv, TypeOK
<1>12. UNCHANGED <<Expiring, Announced>>
  BY <1>2 DEF Expiring, Announced
<1>13. UNCHANGED Leaving
  <2>1. \A b \in Clients : Held(op'[b]) = Held(op[b])
    <3>1. \A b \in Clients \ {c} : op'[b] = op[b]
      BY DEF AddTimer, AddStopwatch, IInv, TypeOK
    <3>2. Held(op[c]) = {}
      BY <1>3 DEF AddTimer, AddStopwatch, Held
    <3>3. Held(op'[c]) = {}
      BY <1>1, <1>3 DEF AddTimer, AddStopwatch, Held, Doing, IInv, TypeOK
    <3> QED BY <3>1, <3>2, <3>3
  <2> QED BY <2>1 DEF Leaving
<1>14. \A q \in rows : q.id # i
  <2>1. \A q \in rows : q.id < i /\ q.id \in Int
    BY <1>1 DEF FreshId, IInv, TypeOK, Row, Ids
  <2> QED BY <2>1 DEF Ids
<1>15. Promise!Create
  BY <1>1, <1>2, <1>12, <1>13, <1>14 DEF Promise!Create, Ids, Kinds, Times
<1> QED BY <1>7, <1>8, <1>9, <1>10, <1>11, <1>15 DEF RInv

\* The rows that clients other than c are removing.
Others(c) == UNION {Held(op[b]) : b \in Clients \ {c}}

\* A client that selects rows or moves on only changes what is being removed.
LEMMA ClientOnly ==
    ASSUME IInv, RInv, NEW c \in Clients, NEW o,
           op' = [op EXCEPT ![c] = o],
           o.pc \in {"idle", "schedule", "rename"} => o.todo = {},
           UNCHANGED <<made, work, rung, crashes>>,
           \A q \in rows' : \E p \in rows : p.id = q.id /\ p.serial = q.serial
    PROVE  /\ RInv'
           /\ UNCHANGED <<Expiring, Announced>>
           /\ Leaving = Others(c) \cup Held(op[c])
           /\ Leaving' = Others(c) \cup Held(o)
<1>1. \A b \in Clients : op'[b] = IF b = c THEN o ELSE op[b]
  BY DEF IInv, TypeOK
<1>2. EmptyHanded'
  BY <1>1 DEF RInv, EmptyHanded
<1>3. RInv'
  BY <1>2, RowsStep DEF RInv
<1>4. UNCHANGED <<Expiring, Announced>>
  BY DEF Expiring, Announced
<1>5. Leaving = Others(c) \cup Held(op[c])
  BY DEF Leaving, Others
<1>6. Leaving' = Others(c) \cup Held(o)
  <2>1. Leaving' = UNION {Held(IF b = c THEN o ELSE op[b]) : b \in Clients}
    BY <1>1 DEF Leaving, Held
  <2> QED BY <2>1 DEF Others
<1> QED BY <1>3, <1>4, <1>5, <1>6

LEMMA ClientAlone ==
    ASSUME IInv, RInv, NEW c \in Clients, NEW o,
           op' = [op EXCEPT ![c] = o],
           o.pc \in {"idle", "schedule", "rename"} => o.todo = {},
           UNCHANGED <<made, rows, work, rung, crashes>>
    PROVE  /\ RInv'
           /\ UNCHANGED <<Expiring, Announced>>
           /\ Leaving = Others(c) \cup Held(op[c])
           /\ Leaving' = Others(c) \cup Held(o)
<1>1. \A q \in rows' : \E p \in rows : p.id = q.id /\ p.serial = q.serial
  OBVIOUS
<1> QED BY <1>1, ClientOnly

\* Selecting asks for the removal of rows of the table, ...
LEMMA SelectRInv ==
    ASSUME IInv, RInv, NEW c \in Clients, Select(c)
    PROVE  RInv' /\ Promise!Ask
<1>1. PICK S \in SUBSET rows : op' = [op EXCEPT ![c] = Doing("remove", NoRow, S)]
  <2>1. PICK S \in (SUBSET Countdowns) \cup (SUBSET (rows \ Countdowns)) \cup {rows} :
           op' = [op EXCEPT ![c] = Doing("remove", NoRow, S)]
    BY DEF Select
  <2>2. S \subseteq Countdowns \/ S \subseteq rows \ Countdowns \/ S = rows
    BY <2>1, Zenon
  <2>3. S \subseteq rows
    BY <2>2 DEF Countdowns
  <2> QED BY <2>1, <2>3
<1> DEFINE o == Doing("remove", NoRow, S)
<1>2. o.pc = "remove" /\ Held(o) = S
  BY DEF Held, Doing
<1>3. Held(op[c]) = {}
  BY DEF Select, RInv, EmptyHanded, Held
<1>4. UNCHANGED <<clock, made, rows, up, crashes, work, rung>>
  BY DEF Select
<1>5. RInv' /\ Leaving' = Leaving \cup S /\ UNCHANGED <<Expiring, Announced>>
  BY <1>1, <1>2, <1>3, <1>4, ClientAlone
<1>6. Promise!Ask
  BY <1>4, <1>5 DEF Promise!Ask
<1> QED BY <1>5, <1>6

\* ... skipping one passes it over, unless another client removes it as well, ...
LEMMA RemoveNextRInv ==
    ASSUME IInv, RInv, NEW c \in Clients, RemoveNext(c)
    PROVE  RInv' /\ (Promise!PassOver \/ UNCHANGED Promise!pvars)
<1> DEFINE next(r) == IF r.kind = "countdown" THEN "unschedule" ELSE "delete"
<1>1. UNCHANGED <<clock, made, rows, up, crashes, work, rung>>
  BY DEF RemoveNext
<1>2. PICK r \in op[c].todo :
        \/ op' = [op EXCEPT ![c] = Doing(next(r), r, op[c].todo \ {r})]
        \/ /\ op' = [op EXCEPT ![c] = Rest(op[c].todo \ {r})]
           /\ \A q \in rows : q.id = r.id => q.kind # r.kind
  BY DEF RemoveNext, First, WithId
<1>3. Held(op[c]) = op[c].todo
  BY DEF RemoveNext, Held
<1>4. CASE op' = [op EXCEPT ![c] = Doing(next(r), r, op[c].todo \ {r})]
  <2> DEFINE o == Doing(next(r), r, op[c].todo \ {r})
  <2>1. o.pc \in {"unschedule", "delete"} /\ Held(o) = Held(op[c])
    BY <1>2, <1>3 DEF Held, Doing
  <2>2. op' = [op EXCEPT ![c] = o]
    BY <1>4
  <2> HIDE DEF o
  <2>3. RInv' /\ UNCHANGED <<Leaving, Expiring, Announced>>
    BY <1>1, <2>1, <2>2, ClientAlone
  <2> QED BY <1>1, <2>3 DEF Promise!pvars
<1>5. CASE /\ op' = [op EXCEPT ![c] = Rest(op[c].todo \ {r})]
           /\ \A q \in rows : q.id = r.id => q.kind # r.kind
  <2> DEFINE o == Rest(op[c].todo \ {r})
  <2>1. Held(o) = op[c].todo \ {r} /\ (o.pc \in {"idle", "schedule", "rename"} => o.todo = {})
    BY DEF Rest, Held, NoOp, Doing
  <2> DEFINE R == Others(c)
  <2>2. /\ Leaving = R \cup op[c].todo /\ Leaving' = R \cup (op[c].todo \ {r})
        /\ UNCHANGED <<Expiring, Announced>>
    BY <1>1, <1>3, <1>5, <2>1, ClientAlone
  <2>3. RInv'
    BY <1>1, <1>5, <2>1, ClientAlone
  <2> HIDE DEF R
  <2>4. CASE r \in R
    <3>1. UNCHANGED Leaving
      BY <1>2, <2>2, <2>4
    <3> QED BY <1>1, <2>2, <2>3, <3>1 DEF Promise!pvars
  <2>5. CASE r \notin R
    <3>1. r \in Leaving /\ Leaving' = Leaving \ {r}
      BY <1>2, <2>2, <2>5
    <3>2. Promise!PassOver
      BY <1>1, <1>5, <2>2, <3>1 DEF Promise!PassOver
    <3> QED BY <2>3, <3>2
  <2> QED BY <2>4, <2>5
<1> QED BY <1>2, <1>4, <1>5

\* ... and deleting one by its id removes it, or the row in its place.
LEMMA RemoveDeleteRInv ==
    ASSUME IInv, RInv, NEW c \in Clients, RemoveDelete(c)
    PROVE  RInv' /\ Promise!Remove
<1> DEFINE o == Rest(op[c].todo)
           r == op[c].row
<1>1. /\ rows' = Promise!Without(r.id)
      /\ op' = [op EXCEPT ![c] = o]
      /\ UNCHANGED <<clock, made, up, crashes, work, rung>>
  BY DEF RemoveDelete, Promise!Without
<1>2. Held(op[c]) = op[c].todo \cup {r}
  BY DEF RemoveDelete, Held
<1>3. Held(o) = op[c].todo /\ (o.pc \in {"idle", "schedule", "rename"} => o.todo = {})
  BY DEF Rest, Held, NoOp, Doing
<1>4. \A q \in rows' : \E p \in rows : p.id = q.id /\ p.serial = q.serial
  BY <1>1 DEF Promise!Without
<1> DEFINE R == Others(c)
<1> HIDE DEF o, r
<1>5. /\ Leaving = R \cup (op[c].todo \cup {r}) /\ Leaving' = R \cup op[c].todo
      /\ UNCHANGED <<Expiring, Announced>>
  BY <1>1, <1>2, <1>3, <1>4, ClientOnly
<1>6. RInv'
  BY <1>1, <1>3, <1>4, ClientOnly
<1>7. r \in Leaving /\ (Leaving' = Leaving \/ Leaving' = Leaving \ {r})
  BY <1>5
<1>8. Promise!Remove
  BY <1>1, <1>5, <1>7 DEF Promise!Remove
<1> QED BY <1>6, <1>8

LEMMA RenameRInv ==
    ASSUME IInv, RInv, NEW c \in Clients, Rename(c)
    PROVE  RInv' /\ Promise!Rename
<1>1. PICK l \in Lines : rows' = {Renamed(r, op[c].row.id, l) : r \in rows}
  BY DEF Rename
<1>2. op[c].row.id \in 1..MaxId
  BY DEF Rename, IInv, ClientRows, Row, Ids
<1>3. \A q \in rows' : \E p \in rows : p.id = q.id /\ p.serial = q.serial
  <2>1. \A r \in Row : Renamed(r, op[c].row.id, l).id = r.id
                       /\ Renamed(r, op[c].row.id, l).serial = r.serial
    BY DEF Renamed, Row
  <2> QED BY <1>1, <2>1 DEF IInv, TypeOK
<1>4. Held(op[c]) = {} /\ Held(NoOp) = {} /\ NoOp.todo = {}
  BY DEF Rename, RInv, EmptyHanded, Held, NoOp, Doing
<1>5. /\ op' = [op EXCEPT ![c] = NoOp]
      /\ UNCHANGED <<clock, made, up, crashes, work, rung>>
  BY DEF Rename
<1>6. RInv' /\ UNCHANGED <<Leaving, Expiring, Announced>>
  BY <1>3, <1>4, <1>5, ClientOnly
<1>7. Promise!Rename
  BY <1>1, <1>2, <1>5, <1>6 DEF Renamed, Promise!Rename
<1> QED BY <1>6, <1>7

\* The other steps of clients are none to the users.
LEMMA QuietClient ==
    ASSUME IInv, RInv, NEW c \in Clients,
           ScheduleTimer(c) \/ RemoveUnschedule(c) \/ SelectRename(c)
    PROVE  RInv' /\ UNCHANGED Promise!pvars
<1>1. UNCHANGED <<clock, made, rows, up, crashes, work, rung>>
  BY DEF ScheduleTimer, RemoveUnschedule, SelectRename
<1>2. PICK o : /\ op' = [op EXCEPT ![c] = o] /\ Held(o) = Held(op[c])
               /\ o.pc \in {"idle", "schedule", "rename"} => o.todo = {}
  <2>1. CASE ScheduleTimer(c)
    <3>1. op[c].todo = {} /\ Held(op[c]) = {} /\ Held(NoOp) = {} /\ NoOp.todo = {}
      BY <2>1 DEF ScheduleTimer, RInv, EmptyHanded, Held, NoOp, Doing
    <3> QED BY <2>1, <3>1 DEF ScheduleTimer
  <2>2. CASE RemoveUnschedule(c)
    <3> DEFINE o == Doing("delete", op[c].row, op[c].todo)
    <3>1. o.pc = "delete" /\ Held(o) = Held(op[c])
      BY <2>2 DEF RemoveUnschedule, Held, Doing
    <3> QED BY <2>2, <3>1 DEF RemoveUnschedule
  <2>3. CASE SelectRename(c)
    <3>1. PICK r : op' = [op EXCEPT ![c] = Doing("rename", r, {})]
      BY <2>3 DEF SelectRename
    <3>2. Held(Doing("rename", r, {})) = {} /\ Doing("rename", r, {}).todo = {}
      BY DEF Held, Doing
    <3>3. Held(op[c]) = {}
      BY <2>3 DEF SelectRename, RInv, EmptyHanded, Held
    <3> QED BY <3>1, <3>2, <3>3
  <2> QED BY <2>1, <2>2, <2>3
<1>3. RInv' /\ UNCHANGED <<Leaving, Expiring, Announced>>
  BY <1>1, <1>2, ClientAlone
<1> QED BY <1>1, <1>3 DEF Promise!pvars

LEMMA WipeRInv ==
    ASSUME IInv, RInv, NEW c \in Clients, WipeDatabase(c)
    PROVE  RInv' /\ Promise!Wipe
<1>1. rows' = {} /\ UNCHANGED <<clock, made, up, crashes, work, op, rung>>
  BY DEF WipeDatabase
<1>2. EmptyHanded' /\ UNCHANGED <<Expiring, Leaving, Announced>>
  BY <1>1 DEF RInv, EmptyHanded, Expiring, Leaving, Announced
<1> QED BY <1>1, <1>2, RowsStep DEF RInv, Promise!Wipe

LEMMA ClientRInv ==
    ASSUME IInv, RInv, NEW c \in Clients, ClientStep(c) \/ ClientRequest(c)
    PROVE  RInv' /\ (Promise!Next \/ UNCHANGED Promise!pvars)
  BY AddRInv, SelectRInv, RemoveNextRInv, RemoveDeleteRInv, RenameRInv, QuietClient, WipeRInv
     DEF ClientStep, ClientRequest, Promise!Next

-----------------------------------------------------------------------------
(* What crashes, restarts and the clock are to the users.                  *)

LEMMA CrashRInv ==
    ASSUME IInv, RInv, Crash
    PROVE  RInv' /\ Promise!Crash
<1>1. /\ up /\ ~up' /\ crashes' = crashes + 1
      /\ UNCHANGED <<clock, made, rows, rung>>
      /\ \A w \in Workers : work'[w].pc = "idle"
  BY IdleType DEF Crash
<1>2. \A c \in Clients : op'[c] = IF OwnsJobs(c) THEN NoOp ELSE op[c]
  BY DEF Crash
<1>3. Busy' = {} /\ Seen' \subseteq Seen
  BY <1>1 DEF Busy, Seen
<1>4. BusyRows' /\ OwnIds' /\ SerialsFixIds'
  BY <1>1, <1>3 DEF RInv, BusyRows, OwnIds, SerialsFixIds
<1>5. \A x \in rung : x.life < crashes'
  <2>1. \A x \in rung : x.life \in Nat /\ x.life <= crashes
    BY DEF RInv, Lives, IInv, TypeOK
  <2>2. crashes \in Nat
    BY DEF IInv, TypeOK
  <2> QED BY <1>1, <2>1, <2>2
<1>6. RungRows' /\ RungOnce' /\ Lives'
  <2>1. \A x \in rung : x.life \in Int /\ crashes' \in Int
    BY <1>1 DEF IInv, TypeOK
  <2>2. \A x \in rung : x.life # crashes' /\ x.life <= crashes'
    BY <1>5, <2>1
  <2> QED BY <1>1, <2>2 DEF RungRows, RungOnce, Lives
<1>7. EmptyHanded'
  BY <1>2 DEF RInv, EmptyHanded, NoOp, Doing
<1>8. Expiring' = {} /\ UNCHANGED Announced
  BY <1>1, <1>3, ExpiringEntries DEF Announced
<1>9. Leaving' \in SUBSET Leaving
  <2>1. \A c \in Clients : Held(op'[c]) \subseteq Held(op[c])
    BY <1>2 DEF Held, NoOp, Doing
  <2>2. Leaving' = UNION {Held(op'[c]) : c \in Clients}
    BY DEF Leaving, Held
  <2> QED BY <2>1, <2>2 DEF Leaving
<1>10. Promise!Crash
  BY <1>1, <1>8, <1>9 DEF Promise!Crash, Crash
<1> QED BY <1>4, <1>6, <1>7, <1>10 DEF RInv

LEMMA RestartRInv ==
    ASSUME IInv, RInv, Restart
    PROVE  RInv' /\ Promise!Restart
<1>1. UNCHANGED <<clock, made, rows, crashes, work, op, rung>> /\ ~up /\ up'
  BY DEF Restart
<1>2. EmptyHanded' /\ UNCHANGED <<Expiring, Leaving, Announced>>
  BY <1>1 DEF RInv, EmptyHanded, Expiring, Leaving, Announced
<1> QED BY <1>1, <1>2, RowsStep DEF RInv, Promise!Restart, Restart

LEMMA TickRInv ==
    ASSUME IInv, RInv, Tick
    PROVE  RInv' /\ Promise!Tick
<1>1. UNCHANGED <<made, rows, up, crashes, work, op, rung>>
  BY DEF Tick
<1>2. EmptyHanded' /\ UNCHANGED <<Expiring, Leaving, Announced>>
  BY <1>1 DEF RInv, EmptyHanded, Expiring, Leaving, Announced
<1> QED BY <1>1, <1>2, RowsStep DEF RInv, Promise!Tick, Tick

\* RInv is inductive, and each step is a step of the promise or none.
LEMMA NextPromise ==
    IInv /\ RInv /\ [Next]_vars => RInv' /\ [Promise!Next]_(Promise!pvars)
<1> SUFFICES ASSUME IInv, RInv, [Next]_vars
             PROVE  RInv' /\ (Promise!Next \/ UNCHANGED Promise!pvars)
  OBVIOUS
<1>1. CASE \E w \in Workers : CompleteTimer(w)
  BY <1>1, CompleteTimerRInv
<1>2. CASE (\E i \in Ids : Dispatch(i)) \/ PollDue \/ PollNext
  BY <1>2, SchedulerRInv
<1>3. CASE \E c \in Clients : ClientStep(c) \/ ClientRequest(c)
  BY <1>3, ClientRInv
<1>4. CASE Crash \/ Restart \/ Tick
  BY <1>4, CrashRInv, RestartRInv, TickRInv DEF Promise!Next
<1>5. CASE AnnounceOther \/ UNCHANGED vars
  BY <1>5, StandStill DEF AnnounceOther, vars
<1> QED BY <1>1, <1>2, <1>3, <1>4, <1>5 DEF Next

LEMMA InitPromise == Init => Promise!Init
<1> SUFFICES ASSUME Init PROVE Promise!Init
  OBVIOUS
<1>1. Expiring = {}
  BY IdleType DEF Init, Expiring
<1>2. Leaving = {}
  BY DEF Init, Leaving, Held, NoOp, Doing
<1> QED BY <1>1, <1>2 DEF Init, Announced, Promise!Init

\* The threads, jobs and polls of the detailed specification, crashes and restarts
\* included, implement what the timers promise: no row is lost, and none is
\* announced twice by the same kind of worker in one life of the process.
THEOREM ImplementsPromise == Spec => PromiseKept
<1>1. Init => RInv /\ Promise!Init
  BY InitRInv, InitPromise
<1>2. IInv /\ RInv /\ [Next]_vars => RInv' /\ [Promise!Next]_(Promise!pvars)
  BY NextPromise
<1> QED BY <1>1, <1>2, Invariance, PTL DEF Spec, PromiseKept, Promise!Spec
=============================================================================
