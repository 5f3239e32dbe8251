----------------------- MODULE MeetingRemindersProofs -----------------------
(***************************************************************************)
(* Theorems about MeetingReminders for every set of meetings, leads and    *)
(* clients: types, what was announced was due by the stored time, hence    *)
(* not early in a calendar that is not west of Greenwich, and there the    *)
(* implementation of ReminderPromise.                                      *)
(*                                                                         *)
(* fire_reminder reads a row, announces it and marks by id; the            *)
(* strengthening says how the row it holds relates to the id it works on   *)
(* and to the clock.  The promise needs more, RInv: who announces which    *)
(* reminder, and that numbered settings stay apart.                        *)
(***************************************************************************)
EXTENDS MeetingReminders, TLAPS

\* The calendar's times are written with an offset of zero or east of it.
OffsetsNotNegative == \A m \in Meetings : Offset[m] >= 0

\* Every row the program holds was set, under the id of its meeting's first PUT.
SetRows ==
    /\ \A r \in rows : r.id <= r.arm /\ r.arm <= puts
    /\ \A x \in rung : x.row.arm <= puts

\* What a worker does next fits the row it read, and the id it works on.
ReadRows ==
    \A w \in Workers :
       /\ work[w].pc \in {"reschedule", "announce", "mark"} =>
             work[w].row \in Row /\ work[w].row.id = work[w].id
       /\ work[w].pc = "announce" => Due(work[w].row) /\ work[w].row.arm <= puts

\* A request between its two steps works on the id of a row.
ClientIds == \A c \in Clients : op[c].pc = "schedule" => op[c].id \in Ids

\* What was announced was due by the time the table gives back.
RungDue == \A x \in rung : RemindAt(x.row) <= clock

IInv == TypeOK /\ SetRows /\ ReadRows /\ ClientIds /\ RungDue

-----------------------------------------------------------------------------
(* Types                                                                   *)

WorkerStates == {"idle", "get", "reschedule", "announce", "mark", "unschedule"}
Execution == [pc : WorkerStates, id : 0..MaxPuts, row : Row \cup {NoRow}]
Request == [pc : {"idle", "schedule", "unschedule"}, id : 0..MaxPuts, at : Int]
Job == [id : Ids, at : Int]

LEMMA FiringType ==
    ASSUME NEW pc \in WorkerStates, NEW i \in 0..MaxPuts, NEW r \in Row \cup {NoRow}
    PROVE  /\ Firing(pc, i, r) \in Execution
           /\ Firing(pc, i, r).pc = pc
           /\ Firing(pc, i, r).id = i
           /\ Firing(pc, i, r).row = r
  BY DEF Firing, Execution

LEMMA IdleType == Idle \in Execution /\ Idle.pc = "idle"
  BY FiringType, ReminderAssumption DEF Idle, WorkerStates

LEMMA DoingType ==
    ASSUME NEW pc \in {"idle", "schedule", "unschedule"}, NEW i \in 0..MaxPuts, NEW t \in Int
    PROVE  /\ Doing(pc, i, t) \in Request
           /\ Doing(pc, i, t).pc = pc
           /\ Doing(pc, i, t).id = i
  BY DEF Doing, Request

LEMMA NoOpType == NoOp \in Request /\ NoOp.pc = "idle"
  BY DoingType, ReminderAssumption DEF NoOp

\* The times of a row are numbers.
LEMMA TimesType ==
    ASSUME NEW r \in Row
    PROVE  Wanted(r) \in Int /\ RemindAt(r) \in Int
<1>1. r.meeting \in Meetings /\ r.lead \in Leads
  BY DEF Row
<1>2. Start[r.meeting] \in Int /\ Offset[r.meeting] \in Int
  BY <1>1, ReminderAssumption
<1>3. r.lead \in Nat
  <2>1. Leads \subseteq Nat
    BY ReminderAssumption
  <2> QED BY <1>1, <2>1
<1> QED BY <1>2, <1>3 DEF Wanted, RemindAt

\* TypeOK, with its sets named.
LEMMA Types ==
    TypeOK <=>
      /\ clock \in 0..MaxClock /\ puts \in 0..MaxPuts
      /\ rows \subseteq Row
      /\ \A r, q \in rows : r.id = q.id \/ r.meeting = q.meeting => r = q
      /\ up \in BOOLEAN /\ crashes \in 0..MaxCrashes
      /\ jobs \subseteq Job
      /\ \A j, k \in jobs : j.id = k.id => j = k
      /\ work \in [Workers -> Execution]
      /\ op \in [Clients -> Request]
      /\ todo \subseteq Row
      /\ rung \subseteq [row : Row, by : Workers, life : 0..MaxCrashes]
  BY DEF TypeOK, WorkerStates, Execution, Request, Job

\* A job scheduled replaces the one with its id.
LEMMA ScheduledType ==
    ASSUME TypeOK, NEW i \in Ids, NEW t \in Int
    PROVE  /\ Scheduled(i, t) \subseteq Job
           /\ \A j, k \in Scheduled(i, t) : j.id = k.id => j = k
  BY ReminderAssumption, Types DEF Scheduled, Unscheduled, Job, Later

LEMMA UnscheduledType ==
    ASSUME TypeOK, NEW i
    PROVE  /\ Unscheduled(i) \subseteq Job
           /\ \A j, k \in Unscheduled(i) : j.id = k.id => j = k
  BY Types DEF Unscheduled

LEMMA InitIInv == Init => IInv
<1> SUFFICES ASSUME Init PROVE IInv
  OBVIOUS
<1>1. TypeOK
  BY ReminderAssumption, IdleType, NoOpType, Types DEF Init
<1>2. ReadRows
  BY IdleType DEF Init, ReadRows
<1>3. SetRows /\ ClientIds /\ RungDue
  BY NoOpType DEF Init, SetRows, ClientIds, RungDue
<1> QED BY <1>1, <1>2, <1>3 DEF IInv

-----------------------------------------------------------------------------
(* fire_reminder                                                           *)

\* A step that leaves the rows, what was announced and the clients alone.
LEMMA WorkerStep ==
    ASSUME IInv, UNCHANGED <<clock, puts, rows, rung, op>>
    PROVE  SetRows' /\ ClientIds' /\ RungDue'
  BY DEF IInv, SetRows, ClientIds, RungDue, RemindAt, Wanted

\* A step that leaves the workers and what was announced alone.
LEMMA OtherStep ==
    ASSUME IInv, UNCHANGED <<clock, puts, rung, work>>
    PROVE  ReadRows' /\ RungDue'
  BY DEF IInv, ReadRows, RungDue, Due, RemindAt, Wanted

\* A worker that holds no row.
LEMMA WorkerMoves ==
    ASSUME IInv, NEW w \in Workers, NEW x \in Execution,
           x.pc \in {"idle", "get", "unschedule"}, work' = [work EXCEPT ![w] = x],
           UNCHANGED <<clock, puts, rung>>
    PROVE  ReadRows' /\ work' \in [Workers -> Execution]
<1>1. work \in [Workers -> Execution]
  BY Types DEF IInv
<1> QED BY <1>1 DEF IInv, ReadRows, Due, RemindAt, Wanted

\* A worker begins, or is left with the job to unschedule.
LEMMA WorkerTurns ==
    ASSUME IInv, NEW w \in Workers, NEW pc \in {"get", "unschedule"}, NEW i \in 0..MaxPuts,
           work' = [work EXCEPT ![w] = Firing(pc, i, NoRow)],
           UNCHANGED <<clock, puts, rung>>
    PROVE  ReadRows' /\ work' \in [Workers -> Execution]
<1>1. Firing(pc, i, NoRow) \in Execution /\ Firing(pc, i, NoRow).pc = pc
  BY FiringType DEF WorkerStates
<1> QED BY <1>1, WorkerMoves

LEMMA GetReminderStep ==
    ASSUME IInv, NEW w \in Workers, GetReminder(w)
    PROVE  IInv'
<1> DEFINE i == work[w].id
<1>1. work \in [Workers -> Execution] /\ i \in 0..MaxPuts /\ rows \subseteq Row
  BY Types DEF IInv, Execution
<1>2. UNCHANGED <<clock, puts, rows, up, crashes, jobs, todo, op, rung>>
  BY DEF GetReminder
<1>3. work' \in [Workers -> Execution] /\ ReadRows'
  <2>1. CASE work' = [work EXCEPT ![w] = Firing("unschedule", i, NoRow)]
    BY <1>1, <1>2, <2>1, WorkerTurns
  <2>2. ASSUME NEW r \in rows, r.id = i, NEW pc \in {"announce", "reschedule"},
               pc = "announce" => Due(r),
               work' = [work EXCEPT ![w] = Firing(pc, i, r)]
        PROVE  work' \in [Workers -> Execution] /\ ReadRows'
    <3>1. /\ Firing(pc, i, r) \in Execution /\ Firing(pc, i, r).pc = pc
          /\ Firing(pc, i, r).id = i /\ Firing(pc, i, r).row = r
      BY <1>1, FiringType DEF WorkerStates
    <3>2. work' \in [Workers -> Execution]
      BY <1>1, <2>2, <3>1
    <3>3. r \in Row /\ r.arm <= puts
      BY <1>1 DEF IInv, SetRows
    <3> QED BY <1>1, <1>2, <2>2, <3>1, <3>2, <3>3 DEF IInv, ReadRows, Due, RemindAt, Wanted
  <2> QED BY <2>1, <2>2 DEF GetReminder, WithId
<1>4. TypeOK'
  BY <1>2, <1>3, Types DEF IInv, TypeOK, Execution, WorkerStates
<1> QED BY <1>2, <1>3, <1>4, WorkerStep DEF IInv

LEMMA RescheduleStep ==
    ASSUME IInv, NEW w \in Workers, Reschedule(w)
    PROVE  IInv'
<1>1. work[w].row \in Row /\ work[w].id = work[w].row.id
  BY DEF Reschedule, IInv, ReadRows
<1>2. work[w].id \in Ids /\ RemindAt(work[w].row) \in Int
  BY <1>1, TimesType DEF Row
<1>3. jobs' \subseteq Job /\ \A j, k \in jobs' : j.id = k.id => j = k
  BY <1>2, ScheduledType DEF Reschedule, IInv
<1>4. ReadRows' /\ work' \in [Workers -> Execution]
  BY IdleType, WorkerMoves DEF Reschedule
<1>5. TypeOK'
  BY <1>3, <1>4 DEF IInv, TypeOK, Reschedule, Execution, WorkerStates, Job
<1> QED BY <1>4, <1>5, WorkerStep DEF IInv, Reschedule

LEMMA AnnounceStep ==
    ASSUME IInv, NEW w \in Workers, Announce(w)
    PROVE  IInv'
<1> DEFINE r == work[w].row
           x == Firing("mark", work[w].id, r)
<1>1. /\ r \in Row /\ r.id = work[w].id /\ Due(r) /\ r.arm <= puts
      /\ work \in [Workers -> Execution]
  BY Types DEF Announce, IInv, ReadRows
<1>2. /\ rung' = rung \cup {[row |-> r, by |-> w, life |-> crashes]}
      /\ work' = [work EXCEPT ![w] = x]
      /\ UNCHANGED <<clock, puts, rows, up, crashes, jobs, todo, op>>
  BY DEF Announce
<1>3. x \in Execution /\ x.pc = "mark" /\ x.id = r.id /\ x.row = r
  BY <1>1, FiringType DEF WorkerStates, Execution
<1>4. work' \in [Workers -> Execution]
  BY <1>1, <1>2, <1>3
<1>5. TypeOK'
  BY <1>1, <1>2, <1>4 DEF IInv, TypeOK, Execution, WorkerStates
<1>6. ReadRows'
  BY <1>1, <1>2, <1>3 DEF IInv, ReadRows, Due, RemindAt, Wanted
<1>7. SetRows' /\ ClientIds'
  BY <1>1, <1>2 DEF IInv, SetRows, ClientIds
<1>8. RungDue'
  BY <1>1, <1>2 DEF IInv, RungDue, Due, RemindAt, Wanted
<1> QED BY <1>5, <1>6, <1>7, <1>8 DEF IInv

\* Marking changes nothing but fired_at.
LEMMA MarkedType ==
    ASSUME NEW r \in Row, NEW i,
           NEW q, q = [r EXCEPT !.fired = @ \/ r.id = i]
    PROVE  q \in Row /\ q.id = r.id /\ q.arm = r.arm /\ q.meeting = r.meeting
<1>1. (r.fired \/ r.id = i) \in BOOLEAN
  OBVIOUS
<1> QED BY <1>1 DEF Row

LEMMA MarkFiredStep ==
    ASSUME IInv, NEW w \in Workers, MarkFired(w)
    PROVE  IInv'
<1> DEFINE i == work[w].id
<1>1. rows \subseteq Row /\ work \in [Workers -> Execution] /\ i \in 0..MaxPuts
  BY Types DEF IInv, Execution
<1>2. /\ rows' = {[r EXCEPT !.fired = @ \/ r.id = i] : r \in rows}
      /\ work' = [work EXCEPT ![w] = Firing("unschedule", i, NoRow)]
      /\ UNCHANGED <<clock, puts, up, crashes, jobs, todo, op, rung>>
  BY DEF MarkFired
<1> DEFINE Marks(q, r) == /\ q = [r EXCEPT !.fired = @ \/ r.id = i]
                          /\ q.id = r.id /\ q.arm = r.arm /\ q.meeting = r.meeting
<1>3. ASSUME NEW q \in rows'
      PROVE  q \in Row /\ \E r \in rows : Marks(q, r)
  <2>1. PICK r \in rows : q = [r EXCEPT !.fired = @ \/ r.id = i]
    BY <1>2
  <2>2. r \in Row
    BY <1>1
  <2>3. q \in Row /\ Marks(q, r)
    BY <2>1, <2>2, MarkedType
  <2> QED BY <2>3
<1>4. \A p, q \in rows' : p.id = q.id \/ p.meeting = q.meeting => p = q
  BY <1>3 DEF IInv, TypeOK
<1>5. ReadRows' /\ work' \in [Workers -> Execution]
  BY <1>1, <1>2, WorkerTurns
<1>6. TypeOK'
  BY <1>2, <1>3, <1>4, <1>5 DEF IInv, TypeOK, Execution, WorkerStates
<1>7. SetRows'
  BY <1>2, <1>3 DEF IInv, SetRows
<1>8. ClientIds' /\ RungDue'
  BY <1>2 DEF IInv, ClientIds, RungDue, RemindAt, Wanted
<1> QED BY <1>5, <1>6, <1>7, <1>8 DEF IInv

LEMMA UnscheduleStep ==
    ASSUME IInv, NEW w \in Workers, Unschedule(w)
    PROVE  IInv'
<1>1. jobs' \subseteq Job /\ \A j, k \in jobs' : j.id = k.id => j = k
  BY UnscheduledType DEF Unschedule, IInv
<1>2. ReadRows' /\ work' \in [Workers -> Execution]
  BY IdleType, WorkerMoves DEF Unschedule
<1>3. TypeOK'
  BY <1>1, <1>2 DEF IInv, TypeOK, Unschedule, Execution, WorkerStates, Job
<1> QED BY <1>2, <1>3, WorkerStep DEF IInv, Unschedule

-----------------------------------------------------------------------------
(* The scheduler                                                           *)

LEMMA DispatchStep ==
    ASSUME IInv, NEW i \in Ids, Dispatch(i)
    PROVE  IInv'
<1>1. i \in Workers /\ i \in 0..MaxPuts
  BY ReminderAssumption DEF Ids, Workers
<1>2. /\ jobs' \subseteq jobs
      /\ work' = work \/ work' = [work EXCEPT ![i] = Firing("get", i, NoRow)]
      /\ UNCHANGED <<clock, puts, rows, up, crashes, todo, op, rung>>
  BY DEF Dispatch
<1>3. ReadRows' /\ work' \in [Workers -> Execution]
  <2>1. CASE work' = work
    BY <1>2, <2>1, OtherStep, Types DEF IInv
  <2>2. CASE work' = [work EXCEPT ![i] = Firing("get", i, NoRow)]
    BY <1>1, <1>2, <2>2, WorkerTurns
  <2> QED BY <1>2, <2>1, <2>2
<1>4. TypeOK'
  BY <1>2, <1>3 DEF IInv, TypeOK, Execution, WorkerStates
<1> QED BY <1>2, <1>3, <1>4, WorkerStep DEF IInv

LEMMA PollDueStep == IInv /\ PollDue => IInv'
<1> SUFFICES ASSUME IInv, PollDue PROVE IInv'
  OBVIOUS
<1>1. TypeOK'
  BY DEF PollDue, DueRows, IInv, TypeOK
<1> QED BY <1>1, WorkerStep, OtherStep DEF PollDue, IInv

LEMMA PollNextStep == IInv /\ PollNext => IInv'
<1> SUFFICES ASSUME IInv, PollNext PROVE IInv'
  OBVIOUS
<1>1. PICK r \in todo : /\ todo' = todo \ {r}
                        /\ work' = [work EXCEPT ![Poll] = Firing("get", r.id, NoRow)]
  BY DEF PollNext
<1>2. r.id \in 0..MaxPuts /\ Poll \in Workers
  BY ReminderAssumption DEF IInv, TypeOK, Row, Ids, Poll, Workers
<1>3. UNCHANGED <<clock, puts, rows, up, crashes, jobs, op, rung>>
  BY DEF PollNext
<1>4. ReadRows' /\ work' \in [Workers -> Execution]
  BY <1>1, <1>2, <1>3, WorkerTurns
<1>5. TypeOK'
  BY <1>1, <1>3, <1>4 DEF IInv, TypeOK, Execution, WorkerStates
<1> QED BY <1>3, <1>4, <1>5, WorkerStep DEF IInv

-----------------------------------------------------------------------------
(* The API                                                                 *)

\* The row a PUT writes: it takes the place of the meeting's row, or a new id.
PutRow(i, m, l) == [id |-> i, arm |-> puts + 1, meeting |-> m, lead |-> l, fired |-> FALSE]

LEMMA PutWrites ==
    ASSUME IInv, NEW c \in Clients, Put(c)
    PROVE  \E m \in Meetings, l \in Leads, i \in Ids :
              /\ Start[m] > clock
              /\ IF Of(m) = {} THEN i = puts + 1 ELSE \A r \in Of(m) : r.id = i
              /\ \A r \in rows \ Of(m) : r.id # i
              /\ i <= puts + 1
              /\ PutRow(i, m, l) \in Row
              /\ rows' = (rows \ Of(m)) \cup {PutRow(i, m, l)}
              /\ op' = [op EXCEPT ![c] = Doing("schedule", i, Wanted(PutRow(i, m, l)))]
<1>1. PICK m \in Meetings, l \in Leads :
        /\ Start[m] > clock
        /\ \E i \in IF Of(m) = {} THEN {puts + 1} ELSE {r.id : r \in Of(m)} :
             /\ rows' = (rows \ Of(m)) \cup {PutRow(i, m, l)}
             /\ op' = [op EXCEPT ![c] = Doing("schedule", i, Wanted(PutRow(i, m, l)))]
  BY DEF Put, PutRow
<1>2. PICK i \in IF Of(m) = {} THEN {puts + 1} ELSE {r.id : r \in Of(m)} :
        /\ rows' = (rows \ Of(m)) \cup {PutRow(i, m, l)}
        /\ op' = [op EXCEPT ![c] = Doing("schedule", i, Wanted(PutRow(i, m, l)))]
  BY <1>1
<1>3. puts \in Nat /\ puts + 1 \in Ids
  BY ReminderAssumption DEF Put, IInv, TypeOK, Ids
<1>4. \A r \in rows : r \in Row /\ r.id \in Ids /\ r.arm \in Ids /\ r.id <= r.arm /\ r.arm <= puts
  BY DEF IInv, TypeOK, SetRows, Row
<1>5. /\ IF Of(m) = {} THEN i = puts + 1 ELSE \A r \in Of(m) : r.id = i
      /\ \A r \in rows \ Of(m) : r.id # i
      /\ i \in Ids /\ i <= puts + 1
  <2>1. CASE Of(m) = {}
    BY <1>2, <1>3, <1>4, <2>1 DEF Ids
  <2>2. CASE Of(m) # {}
    <3>1. PICK r \in Of(m) : i = r.id
      BY <1>2, <2>2
    <3>2. r \in rows /\ \A q \in rows : q.id = r.id \/ q.meeting = r.meeting => q = r
      BY <3>1 DEF Of, IInv, TypeOK
    <3> QED BY <1>3, <1>4, <2>2, <3>1, <3>2 DEF Of, Ids
  <2> QED BY <2>1, <2>2
<1>6. PutRow(i, m, l) \in Row
  BY <1>3, <1>5 DEF PutRow, Row
<1> QED BY <1>1, <1>2, <1>5, <1>6

LEMMA PutStep ==
    ASSUME IInv, NEW c \in Clients, Put(c)
    PROVE  IInv'
<1>1. PICK m \in Meetings, l \in Leads, i \in Ids :
        /\ \A r \in rows \ Of(m) : r.id # i
        /\ i <= puts + 1
        /\ PutRow(i, m, l) \in Row
        /\ rows' = (rows \ Of(m)) \cup {PutRow(i, m, l)}
        /\ op' = [op EXCEPT ![c] = Doing("schedule", i, Wanted(PutRow(i, m, l)))]
  BY PutWrites
<1> DEFINE r == PutRow(i, m, l)
           o == Doing("schedule", i, Wanted(r))
<1>2. r.id = i /\ r.arm = puts + 1 /\ r.meeting = m
  BY DEF PutRow
<1>3. /\ puts \in Nat /\ puts' = puts + 1 /\ puts' \in 0..MaxPuts
      /\ UNCHANGED <<clock, up, crashes, jobs, work, todo, rung>>
  BY ReminderAssumption DEF Put, IInv, TypeOK
<1>4. o \in Request /\ o.id = i /\ o.pc = "schedule"
  BY <1>1, TimesType, DoingType DEF Ids
<1>5. op' \in [Clients -> Request]
  BY <1>1, <1>4, Types DEF IInv
<1> HIDE DEF r, o
<1>6. TypeOK'
  <2>1. rows' \subseteq Row
    BY <1>1 DEF IInv, TypeOK, r
  <2>2. \A p, q \in rows' : p.id = q.id \/ p.meeting = q.meeting => p = q
    BY <1>1, <1>2 DEF IInv, TypeOK, Of, r
  <2> QED BY <1>3, <1>5, <2>1, <2>2 DEF IInv, TypeOK, Request
<1>7. SetRows'
  <2>1. /\ \A q \in rows : q.arm \in Nat
        /\ \A x \in rung : x.row.arm \in Nat
    BY DEF IInv, TypeOK, Row, Ids
  <2>2. \A q \in rows' : q.id <= q.arm /\ q.arm <= puts'
    BY <1>1, <1>2, <1>3, <2>1 DEF IInv, SetRows, r
  <2> QED BY <1>3, <2>1, <2>2 DEF IInv, SetRows
<1>8. ReadRows'
  <2>1. \A w \in Workers : work[w].row \in Row => work[w].row.arm \in Nat
    BY DEF Row, Ids
  <2> QED BY <1>3, <2>1 DEF IInv, ReadRows, Due, RemindAt, Wanted
<1>9. ClientIds'
  BY <1>1, <1>4, Types DEF IInv, ClientIds, o, r
<1>10. RungDue'
  BY <1>3 DEF IInv, RungDue, RemindAt, Wanted
<1> QED BY <1>6, <1>7, <1>8, <1>9, <1>10 DEF IInv

LEMMA PutSchedulesStep ==
    ASSUME IInv, NEW c \in Clients, PutSchedules(c)
    PROVE  IInv'
<1>1. op[c].id \in Ids /\ op[c].at \in Int /\ op \in [Clients -> Request]
  BY Types DEF PutSchedules, IInv, ClientIds, Request
<1>2. jobs' \subseteq Job /\ \A j, k \in jobs' : j.id = k.id => j = k
  BY <1>1, ScheduledType DEF PutSchedules, IInv
<1>3. op' = [op EXCEPT ![c] = NoOp] /\ op' \in [Clients -> Request]
  BY <1>1, NoOpType DEF PutSchedules
<1>4. TypeOK'
  BY <1>2, <1>3 DEF IInv, TypeOK, PutSchedules, Request, Job
<1>5. ClientIds'
  BY <1>1, <1>3, NoOpType DEF IInv, ClientIds
<1>6. SetRows'
  BY DEF PutSchedules, IInv, SetRows
<1> QED BY <1>4, <1>5, <1>6, OtherStep DEF PutSchedules, IInv

\* Rows that leave the table.
LEMMA RowsLeave ==
    ASSUME IInv, rows' \subseteq rows, UNCHANGED <<puts, rung>>
    PROVE  /\ SetRows' /\ rows' \subseteq Row
           /\ \A r, q \in rows' : r.id = q.id \/ r.meeting = q.meeting => r = q
  BY DEF IInv, TypeOK, SetRows

LEMMA ListStep ==
    ASSUME IInv, NEW c \in Clients, List(c)
    PROVE  IInv'
<1>1. rows' \subseteq rows /\ UNCHANGED <<clock, puts, up, crashes, jobs, work, todo, op, rung>>
  BY DEF List
<1>2. TypeOK'
  BY <1>1, RowsLeave DEF IInv, TypeOK
<1>3. ClientIds'
  BY <1>1 DEF IInv, ClientIds
<1> QED BY <1>1, <1>2, <1>3, RowsLeave, OtherStep DEF IInv

LEMMA DeleteStep ==
    ASSUME IInv, NEW c \in Clients, Delete(c)
    PROVE  IInv'
<1>1. PICK r \in rows : /\ rows' = rows \ {r}
                        /\ op' = [op EXCEPT ![c] = Doing("unschedule", r.id, 0)]
  BY DEF Delete
<1>2. UNCHANGED <<clock, puts, up, crashes, jobs, work, todo, rung>>
  BY DEF Delete
<1>3. r.id \in 0..MaxPuts /\ op \in [Clients -> Request]
  BY Types DEF IInv, TypeOK, Row, Ids
<1>4. op' \in [Clients -> Request] /\ op'[c].pc = "unschedule"
  BY <1>1, <1>3, DoingType
<1>5. TypeOK'
  BY <1>1, <1>2, <1>4, RowsLeave DEF IInv, TypeOK, Request
<1>6. ClientIds'
  BY <1>1, <1>3, <1>4 DEF IInv, ClientIds
<1> QED BY <1>1, <1>2, <1>5, <1>6, RowsLeave, OtherStep DEF IInv

LEMMA DeleteUnschedulesStep ==
    ASSUME IInv, NEW c \in Clients, DeleteUnschedules(c)
    PROVE  IInv'
<1>1. jobs' \subseteq Job /\ \A j, k \in jobs' : j.id = k.id => j = k
  BY UnscheduledType DEF DeleteUnschedules, IInv
<1>2. op \in [Clients -> Request] /\ op' = [op EXCEPT ![c] = NoOp]
  BY Types DEF DeleteUnschedules, IInv
<1>3. op' \in [Clients -> Request]
  BY <1>2, NoOpType
<1>4. TypeOK'
  BY <1>1, <1>3 DEF IInv, TypeOK, DeleteUnschedules, Request, Job
<1>5. ClientIds'
  BY <1>2, NoOpType DEF IInv, ClientIds
<1>6. SetRows'
  BY DEF DeleteUnschedules, IInv, SetRows
<1> QED BY <1>4, <1>5, <1>6, OtherStep DEF DeleteUnschedules, IInv

-----------------------------------------------------------------------------
(* The process and the clock                                               *)

LEMMA CrashStep == IInv /\ Crash => IInv'
<1> SUFFICES ASSUME IInv, Crash PROVE IInv'
  OBVIOUS
<1>1. work' \in [Workers -> Execution] /\ ReadRows'
  BY IdleType DEF Crash, ReadRows
<1>2. op' \in [Clients -> Request] /\ ClientIds'
  BY NoOpType DEF Crash, ClientIds
<1>3. crashes' \in 0..MaxCrashes
  BY ReminderAssumption DEF Crash, IInv, TypeOK
<1>4. TypeOK'
  BY <1>1, <1>2, <1>3 DEF Crash, IInv, TypeOK, Execution, WorkerStates, Request
<1>5. SetRows' /\ RungDue'
  BY DEF Crash, IInv, SetRows, RungDue, RemindAt, Wanted
<1> QED BY <1>1, <1>2, <1>4, <1>5 DEF IInv

LEMMA RestartStep == IInv /\ Restart => IInv'
<1> SUFFICES ASSUME IInv, Restart PROVE IInv'
  OBVIOUS
<1>1. \A j \in jobs' : \E r \in rows : j = [id |-> r.id, at |-> RemindAt(r)]
  BY DEF Restart
<1>2. rows \subseteq Row /\ \A r, q \in rows : r.id = q.id => r = q
  BY DEF IInv, TypeOK
<1>3. jobs' \subseteq Job
  BY <1>1, <1>2, TimesType DEF Job, Row
<1>4. \A j, k \in jobs' : j.id = k.id => j = k
  BY <1>1, <1>2
<1>5. TypeOK'
  BY <1>3, <1>4 DEF Restart, IInv, TypeOK, Job
<1>6. SetRows' /\ ClientIds'
  BY DEF Restart, IInv, SetRows, ClientIds
<1> QED BY <1>5, <1>6, OtherStep DEF Restart, IInv

LEMMA TickStep == IInv /\ Tick => IInv'
<1> SUFFICES ASSUME IInv, Tick PROVE IInv'
  OBVIOUS
<1>1. clock \in Nat /\ clock' = clock + 1 /\ clock' \in 0..MaxClock
  BY ReminderAssumption DEF Tick, IInv, TypeOK
<1>2. \A r \in Row : /\ RemindAt(r)' = RemindAt(r)
                     /\ RemindAt(r) <= clock => RemindAt(r) <= clock'
  BY <1>1, TimesType DEF RemindAt, Wanted
<1>3. TypeOK'
  BY <1>1 DEF Tick, IInv, TypeOK
<1>4. ReadRows'
  BY <1>2 DEF Tick, IInv, ReadRows, Due
<1>5. RungDue'
  BY <1>2 DEF Tick, IInv, TypeOK, RungDue
<1>6. SetRows' /\ ClientIds'
  BY DEF Tick, IInv, SetRows, ClientIds
<1> QED BY <1>3, <1>4, <1>5, <1>6 DEF IInv

LEMMA StutterStep == IInv /\ UNCHANGED vars => IInv'
<1> SUFFICES ASSUME IInv, UNCHANGED vars PROVE IInv'
  OBVIOUS
<1>1. TypeOK'
  BY DEF vars, IInv, TypeOK
<1> QED BY <1>1, WorkerStep, OtherStep DEF vars, IInv

\* The strengthened invariant is inductive: one lemma per action.
LEMMA NextIInv == IInv /\ [Next]_vars => IInv'
<1> SUFFICES ASSUME IInv, [Next]_vars PROVE IInv'
  OBVIOUS
<1>1. ASSUME NEW w \in Workers, FireReminder(w) PROVE IInv'
  BY <1>1, GetReminderStep, RescheduleStep, AnnounceStep, MarkFiredStep, UnscheduleStep
     DEF FireReminder
<1>2. ASSUME NEW i \in Ids, Dispatch(i) PROVE IInv'
  BY <1>2, DispatchStep
<1>3. CASE PollDue \/ PollNext
  BY <1>3, PollDueStep, PollNextStep
<1>4. ASSUME NEW c \in Clients, ClientStep(c) \/ ClientRequest(c) PROVE IInv'
  BY <1>4, PutSchedulesStep, DeleteUnschedulesStep, PutStep, ListStep, DeleteStep
     DEF ClientStep, ClientRequest
<1>5. CASE Crash \/ Restart \/ Tick
  BY <1>5, CrashStep, RestartStep, TickStep
<1>6. CASE UNCHANGED vars
  BY <1>6, StutterStep
<1> QED BY <1>1, <1>2, <1>3, <1>4, <1>5, <1>6 DEF Next

LEMMA Invariance == Spec => []IInv
  BY InitIInv, NextIInv, PTL DEF Spec

\* Every variable keeps its type, ids and meetings stay unique in the table, and
\* no id gets two jobs, for any number of meetings, clients, PUTs and crashes.
THEOREM TypeCorrect == Spec => []TypeOK
<1>1. IInv => TypeOK
  BY DEF IInv
<1> QED BY <1>1, Invariance, PTL

\* Whatever the offsets, no reminder is announced before the time that the table
\* gives back for it: what can make one early is that time alone.
THEOREM NeverBeforeStoredTime == Spec => []RungDue
<1>1. IInv => RungDue
  BY DEF IInv
<1> QED BY <1>1, Invariance, PTL

LEMMA StoredIsNotEarly ==
    ASSUME OffsetsNotNegative, NEW r \in Row
    PROVE  RemindAt(r) <= clock /\ clock \in Int => Wanted(r) <= clock
<1>1. r.meeting \in Meetings /\ Offset[r.meeting] \in Int /\ Offset[r.meeting] >= 0
  BY ReminderAssumption DEF OffsetsNotNegative, Row
<1> QED BY <1>1, TimesType DEF RemindAt

\* No reminder is announced before its lead time in a calendar whose offsets are
\* not negative; the run of a western one shows that this is needed.
THEOREM NeverEarly == OffsetsNotNegative => (Spec => []NoEarlyReminder)
<1> SUFFICES ASSUME OffsetsNotNegative PROVE Spec => []NoEarlyReminder
  OBVIOUS
<1>1. IInv => NoEarlyReminder
  BY StoredIsNotEarly DEF IInv, TypeOK, RungDue, NoEarlyReminder
<1> QED BY <1>1, Invariance, PTL

-----------------------------------------------------------------------------
(* What the refinement needs beyond IInv: a setting announced in this life  *)
(* of the process is still unmarked only until MarkFired, and only the      *)
(* worker that announced it is there.  PUTs are numbered, so a setting that *)
(* replaced it meanwhile is another one, under the same id.                 *)

Busy == {w \in Workers : work[w].pc \in {"announce", "mark"}}

\* The rows of the table and those that workers announce and mark.
Seen == rows \cup {work[w].row : w \in Busy}

\* A worker that announces or marks has a row with its id in hand.
BusyRows ==
    \A w \in Busy : /\ work[w].row \in Row
                    /\ work[w].row.arm <= puts
                    /\ work[w].row.id = work[w].id

\* The instance of job "meeting_reminder:i" works on reminder i.
OwnIds == \A w \in Workers : w # Poll /\ work[w].pc # "idle" => work[w].id = w

\* A setting belongs to one reminder.
ArmsFixIds == \A q, r \in Seen : q.arm = r.arm => q.id = r.id

\* A setting announced in this life is marked, or about to be, ...
RungRows ==
    \A x \in rung, r \in rows :
       x.life = crashes /\ x.row.arm = r.arm
       => r.fired \/ (work[x.by].pc = "mark" /\ work[x.by].row.arm = r.arm)

\* ... so that none of its kind is about to announce it again.
RungOnce ==
    \A x \in rung, w \in Workers :
       x.life = crashes /\ By(x.by) = By(w) /\ work[w].pc = "announce"
       => x.row.arm # work[w].row.arm

Lives == \A x \in rung : x.life <= crashes

RInv == BusyRows /\ OwnIds /\ ArmsFixIds /\ RungRows /\ RungOnce /\ Lives

LEMMA InitRInv == Init => RInv
<1> SUFFICES ASSUME Init PROVE RInv
  OBVIOUS
<1>1. \A w \in Workers : work[w].pc = "idle"
  BY IdleType DEF Init
<1>2. Busy = {} /\ rows = {} /\ rung = {}
  BY <1>1 DEF Busy, Init
<1> QED BY <1>1, <1>2 DEF RInv, BusyRows, OwnIds, ArmsFixIds, Seen, RungRows, RungOnce, Lives

\* The variables, as far as the steps below need them typed.
LEMMA Shape ==
    ASSUME IInv
    PROVE  /\ work \in [Workers -> Execution]
           /\ rows \subseteq Row
           /\ \A x \in rung : x.row \in Row /\ x.by \in Workers /\ x.life \in Nat
           /\ crashes \in Nat /\ puts \in Nat /\ clock \in Int
  BY Types DEF IInv, TypeOK

\* Only the poll and the job of reminder i work on reminder i, the job alone as a job.
LEMMA OneEach ==
    ASSUME IInv, RInv, NEW v \in Workers, NEW w \in Workers,
           work[v].pc # "idle", work[w].pc # "idle",
           By(v) = By(w), work[v].id = work[w].id
    PROVE  v = w
  BY DEF RInv, OwnIds, By

\* Two of a kind that announce or mark have different settings in hand.
LEMMA OneRowEach ==
    ASSUME IInv, RInv, NEW v \in Busy, NEW w \in Busy,
           By(v) = By(w), work[v].row.arm = work[w].row.arm
    PROVE  v = w
<1>1. work[v].row.id = work[w].row.id
  BY DEF RInv, ArmsFixIds, Seen
<1> QED BY <1>1, OneEach DEF RInv, BusyRows, Busy

\* What a worker that announces or marks contributes to Held, ...
Entry(w) == [row |-> work[w].row, by |-> By(w), told |-> work[w].pc = "mark"]

LEMMA HeldEntries ==
    Held = {Entry(w) : w \in Busy} /\ Held' = {Entry(w)' : w \in Busy'}
  BY DEF Held, Busy, Entry

\* ... and no other contributes the same.
LEMMA EntryOfOne ==
    ASSUME IInv, RInv, NEW v \in Busy, NEW w \in Busy,
           Entry(v).by = Entry(w).by, Entry(v).row = Entry(w).row
    PROVE  v = w
  BY OneRowEach DEF Entry

\* A step that keeps the workers and what was announced keeps RInv, when rows leave
\* the table and at most one, numbered anew, comes to it.
Adds(r) == \A q \in rows' : q \in rows \/ (q = r /\ r.arm = puts + 1)

LEMMA RowsStep ==
    ASSUME IInv, RInv, NEW new, Adds(new),
           puts' \in Int, puts <= puts', UNCHANGED <<work, rung, crashes>>
    PROVE  RInv' /\ UNCHANGED <<Held, Announced>>
<1>1. Busy' = Busy
  BY DEF Busy
<1>2. \A q \in Seen : q.arm \in Nat /\ q.arm <= puts
  BY Shape DEF Seen, RInv, BusyRows, IInv, SetRows, Row, Ids
<1> DEFINE N == {q \in rows' : q = new /\ new.arm = puts + 1}
<1>3. Seen' \subseteq Seen \cup N /\ rows' \subseteq rows \cup N
  BY <1>1 DEF Seen, Adds
<1>4. \A q \in Seen, r \in N : q.arm # r.arm
  BY <1>2, Shape
<1>5. ArmsFixIds'
  BY <1>3, <1>4 DEF RInv, ArmsFixIds
<1>6. BusyRows'
  <2>1. \A w \in Busy : work[w].row.arm \in Nat
    BY <1>2 DEF Seen
  <2> QED BY <1>1, <2>1, Shape DEF RInv, BusyRows
<1>7. RungRows'
  <2>1. \A x \in rung, r \in N : x.row.arm # r.arm
    <3>1. \A x \in rung : x.row.arm \in Nat /\ x.row.arm <= puts
      BY Shape DEF IInv, SetRows, Row, Ids
    <3> QED BY <3>1, Shape
  <2> QED BY <1>3, <2>1 DEF RInv, RungRows
<1>8. OwnIds' /\ RungOnce' /\ Lives'
  BY DEF RInv, OwnIds, RungOnce, Lives
<1>9. UNCHANGED <<Held, Announced>>
  BY DEF Held, Announced
<1> QED BY <1>5, <1>6, <1>7, <1>8, <1>9 DEF RInv

LEMMA RowsStay ==
    ASSUME IInv, RInv, rows' \subseteq rows, UNCHANGED <<puts, work, rung, crashes>>
    PROVE  RInv' /\ UNCHANGED <<Held, Announced>>
<1>1. Adds(NoRow)
  BY DEF Adds
<1>2. puts' \in Int /\ puts <= puts'
  BY Shape
<1> QED BY <1>1, <1>2, RowsStep

\* A worker that neither marks nor is going to announce or mark does not matter.
LEMMA WorkStep ==
    ASSUME IInv, RInv, NEW w \in Workers, NEW d,
           work' = [work EXCEPT ![w] = d],
           work[w].pc \notin {"announce", "mark"}, d.pc \notin {"announce", "mark"},
           w # Poll /\ d.pc # "idle" => d.id = w,
           UNCHANGED <<clock, puts, rows, up, crashes, rung>>
    PROVE  RInv' /\ UNCHANGED Promise!pvars
<1>1. \A v \in Workers : work'[v] = IF v = w THEN d ELSE work[v]
  BY Shape
<1>2. Busy' = Busy /\ \A v \in Busy : work'[v] = work[v]
  BY <1>1 DEF Busy
<1>3. Seen' = Seen
  BY <1>2 DEF Seen
<1>4. BusyRows' /\ OwnIds' /\ ArmsFixIds'
  BY <1>1, <1>2, <1>3 DEF RInv, BusyRows, OwnIds, ArmsFixIds
<1>5. RungRows'
  BY <1>1, Shape DEF RInv, RungRows
<1>6. RungOnce' /\ Lives'
  BY <1>1 DEF RInv, RungOnce, Lives
<1>7. \A v \in Busy : Entry(v)' = Entry(v)
  BY <1>2 DEF Entry
<1>8. UNCHANGED <<Held, Announced>>
  BY <1>2, <1>7, HeldEntries DEF Announced
<1> QED BY <1>4, <1>5, <1>6, <1>8 DEF RInv, Promise!pvars

-----------------------------------------------------------------------------
(* What the steps of fire_reminder are to the users.                       *)

LEMMA LookUpRInv ==
    ASSUME OffsetsNotNegative, IInv, RInv, NEW w \in Workers, GetReminder(w),
           work'[w].pc = "announce"
    PROVE  RInv' /\ Promise!LookUp
<1>1. work[w].pc = "get" /\ UNCHANGED <<clock, puts, rows, up, crashes, rung>>
  BY DEF GetReminder
<1>2. PICK r \in rows : /\ r.id = work[w].id /\ ~r.fired /\ Due(r)
                        /\ work' = [work EXCEPT ![w] = Firing("announce", work[w].id, r)]
  <2>1. PICK r \in WithId(work[w].id) :
          /\ ~r.fired
          /\ work' = [work EXCEPT ![w] =
                Firing(IF Due(r) THEN "announce" ELSE "reschedule", work[w].id, r)]
    BY Shape DEF GetReminder, Firing
  <2>2. Due(r)
    BY <2>1, Shape DEF Firing
  <2> QED BY <2>1, <2>2 DEF WithId
<1> DEFINE d == Firing("announce", work[w].id, r)
<1>3. /\ d.pc = "announce" /\ d.id = work[w].id /\ d.row = r
      /\ \A v \in Workers : work'[v] = IF v = w THEN d ELSE work[v]
  BY <1>2, Shape DEF Firing
<1>4. r \in Row /\ r.arm <= puts
  BY Shape DEF IInv, SetRows
<1>5. /\ Busy' = Busy \cup {w} /\ w \notin Busy
      /\ \A v \in Busy : work'[v] = work[v]
  BY <1>1, <1>3 DEF Busy
<1>6. Seen' \subseteq Seen
  BY <1>1, <1>3, <1>5 DEF Seen
<1>7. BusyRows' /\ ArmsFixIds'
  BY <1>1, <1>2, <1>3, <1>4, <1>5, <1>6 DEF RInv, BusyRows, ArmsFixIds
<1>8. OwnIds'
  BY <1>1, <1>3 DEF RInv, OwnIds
<1>9. RungRows'
  BY <1>1, <1>3, Shape DEF RInv, RungRows
<1>10. \A x \in rung : x.life = crashes /\ By(x.by) = By(w) => x.row.arm # r.arm
  <2> SUFFICES ASSUME NEW x \in rung, x.life = crashes, By(x.by) = By(w),
                      x.row.arm = r.arm
               PROVE  FALSE
    OBVIOUS
  <2>1. work[x.by].pc = "mark" /\ work[x.by].row.arm = r.arm /\ x.by \in Workers
    BY <1>2, Shape DEF RInv, RungRows
  <2>2. x.by \in Busy
    BY <2>1 DEF Busy
  <2>3. work[x.by].row.id = r.id
    BY <2>1, <2>2 DEF RInv, ArmsFixIds, Seen
  <2>4. work[x.by].id = work[w].id
    BY <1>2, <2>2, <2>3 DEF RInv, BusyRows
  <2>5. x.by = w
    BY <1>1, <2>1, <2>4, OneEach
  <2> QED BY <1>1, <2>1, <2>5
<1>11. RungOnce'
  <2> SUFFICES ASSUME NEW x \in rung, NEW v \in Workers, x.life = crashes,
                      By(x.by) = By(v), work'[v].pc = "announce"
               PROVE  x.row.arm # work'[v].row.arm
    BY <1>1 DEF RungOnce
  <2>1. CASE v = w
    BY <1>3, <1>10, <2>1
  <2>2. CASE v # w
    BY <1>3, <2>2 DEF RInv, RungOnce
  <2> QED BY <2>1, <2>2
<1>12. Lives'
  BY <1>1 DEF RInv, Lives
<1> DEFINE e == [row |-> r, by |-> By(w), told |-> FALSE]
<1>13. Held' = Held \cup {e}
  <2>1. Entry(w)' = e /\ \A v \in Busy : Entry(v)' = Entry(v)
    BY <1>3, <1>5 DEF Entry
  <2> QED BY <1>5, <2>1, HeldEntries
<1>14. \A f \in Held : f.by = By(w) => f.row.id # r.id
  <2> SUFFICES ASSUME NEW v \in Busy, By(v) = By(w), work[v].row.id = r.id
               PROVE  FALSE
    BY DEF Held, Busy
  <2>1. work[v].id = work[w].id /\ v \in Workers /\ work[v].pc # "idle"
    BY <1>2 DEF RInv, BusyRows, Busy
  <2>2. v = w
    BY <1>1, <2>1, OneEach
  <2> QED BY <1>5, <2>2
<1>15. UNCHANGED Announced
  BY <1>1 DEF Announced
<1>16. Promise!Begun(r)
  BY <1>2, <1>4, Shape, StoredIsNotEarly DEF Due, Wanted, Promise!Begun
<1>17. Promise!LookUp
  <2>1. By(w) \in Promise!By
    BY DEF By, Promise!By
  <2> QED BY <1>1, <1>2, <1>13, <1>14, <1>15, <1>16, <2>1 DEF Promise!LookUp
<1> QED BY <1>7, <1>8, <1>9, <1>11, <1>12, <1>17 DEF RInv

LEMMA AnnounceRInv ==
    ASSUME IInv, RInv, NEW w \in Workers, Announce(w)
    PROVE  RInv' /\ Promise!Announce
<1> DEFINE r == work[w].row
           x == [row |-> r, by |-> w, life |-> crashes]
           d == Firing("mark", work[w].id, r)
<1>1. /\ work[w].pc = "announce" /\ rung' = rung \cup {x}
      /\ UNCHANGED <<clock, puts, rows, up, crashes>>
      /\ \A v \in Workers : work'[v] = IF v = w THEN d ELSE work[v]
  BY Shape DEF Announce
<1>2. d.pc = "mark" /\ d.id = work[w].id /\ d.row = r
  BY DEF Firing
<1>3. w \in Busy /\ Busy' = Busy
  BY <1>1, <1>2 DEF Busy
<1>4. Seen' = Seen
  <2>1. \A v \in Busy : work'[v].row = work[v].row
    BY <1>1, <1>2 DEF Busy
  <2> QED BY <1>1, <1>3, <2>1 DEF Seen
<1>5. BusyRows' /\ OwnIds' /\ ArmsFixIds'
  BY <1>1, <1>2, <1>3, <1>4 DEF RInv, BusyRows, OwnIds, ArmsFixIds, Busy
<1>6. RungRows'
  <2> SUFFICES ASSUME NEW y \in rung', NEW q \in rows, y.life = crashes,
                      y.row.arm = q.arm, ~q.fired
               PROVE  work'[y.by].pc = "mark" /\ work'[y.by].row.arm = q.arm
    BY <1>1 DEF RungRows
  <2>1. CASE y = x
    BY <1>1, <1>2, <2>1
  <2>2. CASE y \in rung
    <3>1. work[y.by].pc = "mark" /\ work[y.by].row.arm = q.arm /\ y.by \in Workers
      BY <2>2, Shape DEF RInv, RungRows
    <3> QED BY <1>1, <3>1
  <2> QED BY <1>1, <2>1, <2>2
<1>7. RungOnce'
  <2> SUFFICES ASSUME NEW y \in rung', NEW v \in Workers, y.life = crashes,
                      By(y.by) = By(v), work'[v].pc = "announce"
               PROVE  y.row.arm # work'[v].row.arm
    BY <1>1 DEF RungOnce
  <2>1. v # w /\ work'[v] = work[v] /\ v \in Busy
    BY <1>1, <1>2 DEF Busy
  <2>2. CASE y = x
    BY <1>3, <2>1, <2>2, OneRowEach
  <2>3. CASE y \in rung
    BY <2>1, <2>3 DEF RInv, RungOnce
  <2> QED BY <1>1, <2>2, <2>3
<1>8. Lives'
  BY <1>1, Shape DEF RInv, Lives
<1> DEFINE e == Entry(w)
           f == [row |-> e.row, by |-> e.by, told |-> TRUE]
<1>9. /\ e \in Held /\ ~e.told /\ e.row = r /\ e.by = By(w)
      /\ Entry(w)' = f
  <2>1. e = [row |-> r, by |-> By(w), told |-> FALSE]
    BY <1>1 DEF Entry
  <2>2. Entry(w)' = [row |-> r, by |-> By(w), told |-> TRUE]
    BY <1>1, <1>2 DEF Entry
  <2>3. e \in Held
    BY <1>3, HeldEntries
  <2> QED BY <2>1, <2>2, <2>3
<1>10. Held' = (Held \ {e}) \cup {f}
  <2>1. \A v \in Busy : v # w => Entry(v)' = Entry(v) /\ Entry(v) # e
    BY <1>1, <1>3, EntryOfOne DEF Entry, Busy
  <2> QED BY <1>3, <1>9, <2>1, HeldEntries
<1>11. \A a \in Announced : a.life = crashes /\ a.by = e.by => a.row.arm # e.row.arm
  BY <1>1, <1>9 DEF Announced, RInv, RungOnce
<1>12. Announced' = Announced \cup {[row |-> e.row, by |-> e.by, life |-> crashes]}
  <2> DEFINE said_by(y) == [row |-> y.row, by |-> By(y.by), life |-> y.life]
  <2>1. said_by(x) = [row |-> e.row, by |-> e.by, life |-> crashes]
    BY <1>9
  <2>2. Announced = {said_by(y) : y \in rung}
    BY DEF Announced
  <2>3. Announced' = {said_by(y) : y \in rung \cup {x}}
    BY <1>1 DEF Announced
  <2>4. Announced' = Announced \cup {said_by(x)}
    BY <2>2, <2>3
  <2> QED BY <2>1, <2>4
<1>13. Promise!Announce
  BY <1>1, <1>9, <1>10, <1>11, <1>12 DEF Promise!Announce
<1> QED BY <1>5, <1>6, <1>7, <1>8, <1>13 DEF RInv

\* What is marked has the id of what was announced, whatever was set since.
LEMMA MarkedFired ==
    ASSUME NEW r \in Row, NEW i
    PROVE  [r EXCEPT !.fired = @ \/ r.id = i].fired = (r.fired \/ r.id = i)
  BY DEF Row

LEMMA MarkFiredRInv ==
    ASSUME IInv, RInv, NEW w \in Workers, MarkFired(w)
    PROVE  RInv' /\ Promise!Mark
<1> DEFINE i == work[w].id
           d == Firing("unschedule", i, NoRow)
           Marked(r) == [r EXCEPT !.fired = @ \/ r.id = i]
<1>1. /\ work[w].pc = "mark" /\ rows' = {Marked(r) : r \in rows}
      /\ UNCHANGED <<clock, puts, up, crashes, rung>>
      /\ \A v \in Workers : work'[v] = IF v = w THEN d ELSE work[v]
  BY Shape DEF MarkFired
<1>2. d.pc = "unschedule" /\ d.id = i
  BY DEF Firing
<1>3. w \in Busy /\ Busy' = Busy \ {w} /\ \A v \in Busy' : work'[v] = work[v]
  BY <1>1, <1>2 DEF Busy
<1>4. \A q \in rows' : \E r \in rows : /\ q.id = r.id /\ q.arm = r.arm
                                       /\ q.fired = (r.fired \/ r.id = i)
  <2>1. \A r \in Row : /\ Marked(r).id = r.id /\ Marked(r).arm = r.arm
                       /\ Marked(r).fired = (r.fired \/ r.id = i)
    BY MarkedType, MarkedFired
  <2>2. rows' = {Marked(r) : r \in rows} /\ \A r \in rows : r \in Row
    BY <1>1, Shape
  <2> HIDE DEF Marked
  <2>3. ASSUME NEW r \in rows
        PROVE  \E p \in rows : /\ Marked(r).id = p.id /\ Marked(r).arm = p.arm
                               /\ Marked(r).fired = (p.fired \/ p.id = i)
    <3>1. r \in Row
      BY <2>2
    <3> QED BY <2>1, <3>1, Zenon
  <2> TAKE q \in rows'
  <2>4. PICK r \in rows : q = Marked(r)
    BY <2>2
  <2>5. PICK p \in rows : /\ Marked(r).id = p.id /\ Marked(r).arm = p.arm
                          /\ Marked(r).fired = (p.fired \/ p.id = i)
    BY <2>3, Zenon
  <2> WITNESS p \in rows
  <2> QED BY <2>4, <2>5, Zenon
<1>5. \A q \in Seen' : \E r \in Seen : q.id = r.id /\ q.arm = r.arm
  BY <1>3, <1>4 DEF Seen
<1>6. BusyRows' /\ OwnIds' /\ ArmsFixIds'
  BY <1>1, <1>2, <1>3, <1>5 DEF RInv, BusyRows, OwnIds, ArmsFixIds, Busy
<1>7. RungRows'
  <2> SUFFICES ASSUME NEW x \in rung, NEW q \in rows', x.life = crashes,
                      x.row.arm = q.arm, ~q.fired
               PROVE  work'[x.by].pc = "mark" /\ work'[x.by].row.arm = q.arm
    BY <1>1 DEF RungRows
  <2>1. PICK r \in rows : q.id = r.id /\ q.arm = r.arm /\ ~r.fired /\ r.id # i
    BY <1>4
  <2>2. work[x.by].pc = "mark" /\ work[x.by].row.arm = r.arm /\ x.by \in Workers
    BY <2>1, Shape DEF RInv, RungRows
  <2>3. x.by \in Busy /\ work[x.by].row.id = r.id
    BY <2>1, <2>2 DEF Busy, RInv, ArmsFixIds, Seen
  <2>4. x.by # w
    BY <2>1, <2>3 DEF RInv, BusyRows
  <2> QED BY <1>1, <2>1, <2>2, <2>4
<1>8. RungOnce' /\ Lives'
  BY <1>1, <1>2 DEF RInv, RungOnce, Lives
<1> DEFINE e == Entry(w)
<1>9. e \in Held /\ e.told /\ e.row.id = i
  BY <1>1, <1>3, HeldEntries DEF Entry, RInv, BusyRows
<1>10. Held' = Held \ {e}
  <2>1. \A v \in Busy : v # w => Entry(v)' = Entry(v) /\ Entry(v) # e
    BY <1>1, <1>3, EntryOfOne DEF Entry, Busy
  <2> QED BY <1>3, <2>1, HeldEntries
<1>11. UNCHANGED Announced
  BY <1>1 DEF Announced
<1>12. Promise!Mark
  <2>1. rows' = {[r EXCEPT !.fired = @ \/ r.id = e.row.id] : r \in rows}
    BY <1>1, <1>9
  <2> HIDE DEF e
  <2> QED BY <1>1, <1>9, <1>10, <1>11, <2>1 DEF Promise!Mark
<1> QED BY <1>6, <1>7, <1>8, <1>12 DEF RInv

LEMMA FireReminderRInv ==
    ASSUME OffsetsNotNegative, IInv, RInv, NEW w \in Workers, FireReminder(w)
    PROVE  RInv' /\ (Promise!Next \/ UNCHANGED Promise!pvars)
<1>1. CASE GetReminder(w)
  <2>1. PICK pc, r :
          /\ pc \in {"unschedule", "reschedule", "announce"}
          /\ work' = [work EXCEPT ![w] = Firing(pc, work[w].id, r)]
    BY <1>1 DEF GetReminder
  <2> DEFINE d == Firing(pc, work[w].id, r)
  <2>2. d.pc = pc /\ d.id = work[w].id /\ work'[w].pc = pc
    BY <2>1, Shape DEF Firing
  <2>3. CASE pc = "announce"
    BY <1>1, <2>2, <2>3, LookUpRInv DEF Promise!Next
  <2>4. CASE pc # "announce"
    <3>1. work[w].pc = "get" /\ UNCHANGED <<clock, puts, rows, up, crashes, rung>>
      BY <1>1 DEF GetReminder
    <3>2. w # Poll => d.id = w
      BY <2>2, <3>1 DEF RInv, OwnIds
    <3> QED BY <2>1, <2>2, <2>4, <3>1, <3>2, WorkStep
  <2> QED BY <2>3, <2>4
<1>2. CASE Reschedule(w) \/ Unschedule(w)
  BY <1>2, IdleType, WorkStep DEF Reschedule, Unschedule
<1>3. CASE Announce(w)
  BY <1>3, AnnounceRInv DEF Promise!Next
<1>4. CASE MarkFired(w)
  BY <1>4, MarkFiredRInv DEF Promise!Next
<1> QED BY <1>1, <1>2, <1>3, <1>4 DEF FireReminder

LEMMA StandStill ==
    ASSUME IInv, RInv, UNCHANGED <<clock, puts, rows, up, crashes, work, rung>>
    PROVE  RInv' /\ UNCHANGED Promise!pvars
  BY RowsStay DEF Promise!pvars

LEMMA SchedulerRInv ==
    ASSUME IInv, RInv, (\E i \in Ids : Dispatch(i)) \/ PollDue \/ PollNext
    PROVE  RInv' /\ UNCHANGED Promise!pvars
<1>1. ASSUME NEW i \in Ids, Dispatch(i) PROVE RInv' /\ UNCHANGED Promise!pvars
  <2>1. i \in Workers
    BY DEF Ids, Workers
  <2> DEFINE d == Firing("get", i, NoRow)
  <2>2. d.pc = "get" /\ d.id = i
    BY DEF Firing
  <2>3. CASE work[i].pc = "idle" /\ work' = [work EXCEPT ![i] = d]
    BY <1>1, <2>1, <2>2, <2>3, WorkStep DEF Dispatch
  <2>4. CASE work' = work
    BY <1>1, <2>4, StandStill DEF Dispatch
  <2> QED BY <1>1, <2>3, <2>4 DEF Dispatch
<1>2. CASE PollDue
  BY <1>2, StandStill DEF PollDue
<1>3. CASE PollNext
  <2>1. PICK r : work' = [work EXCEPT ![Poll] = Firing("get", r.id, NoRow)]
    BY <1>3 DEF PollNext
  <2>2. Poll \in Workers /\ Firing("get", r.id, NoRow).pc = "get"
    BY ReminderAssumption DEF Poll, Workers, Firing
  <2> QED BY <1>3, <2>1, <2>2, WorkStep DEF PollNext
<1> QED BY <1>1, <1>2, <1>3

-----------------------------------------------------------------------------
(* What the requests are to the users.                                     *)

\* The row of a meeting is replaced under its id, or a free id is taken.
LEMMA PutRInv ==
    ASSUME IInv, RInv, NEW c \in Clients, Put(c)
    PROVE  RInv' /\ Promise!Set
<1>1. PICK m \in Meetings, l \in Leads, i \in Ids :
        /\ Start[m] > clock
        /\ IF Of(m) = {} THEN i = puts + 1 ELSE \A r \in Of(m) : r.id = i
        /\ \A r \in rows \ Of(m) : r.id # i
        /\ rows' = (rows \ Of(m)) \cup {PutRow(i, m, l)}
  BY PutWrites
<1>2. /\ puts < MaxPuts /\ puts' = puts + 1
      /\ UNCHANGED <<clock, up, crashes, work, rung>>
  BY DEF Put
<1>3. RInv' /\ UNCHANGED <<Held, Announced>>
  <2>1. Adds(PutRow(i, m, l))
    BY <1>1 DEF Adds, PutRow
  <2>2. puts' \in Int /\ puts <= puts'
    BY <1>2, Shape
  <2> QED BY <1>2, <2>1, <2>2, RowsStep
<1>4. Of(m) = {r \in rows : r.meeting = m}
  BY DEF Of
<1>5. IF Of(m) = {} THEN \A r \in rows : r.id # i ELSE \A r \in Of(m) : r.id = i
  BY <1>1
<1>6. Promise!Set
  BY <1>1, <1>2, <1>3, <1>4, <1>5 DEF Promise!Set, Ids, PutRow
<1> QED BY <1>3, <1>6

\* Rows that leave: a deleted one, or those whose meeting has begun.
LEMMA RemovalRInv ==
    ASSUME OffsetsNotNegative, IInv, RInv, NEW c \in Clients, Delete(c) \/ List(c)
    PROVE  RInv' /\ (Promise!Delete \/ Promise!Prune)
<1>1. rows' \subseteq rows /\ UNCHANGED <<clock, puts, up, crashes, work, rung>>
  BY DEF Delete, List
<1>2. RInv' /\ UNCHANGED <<Held, Announced>>
  BY <1>1, RowsStay
<1>3. CASE Delete(c)
  BY <1>1, <1>2, <1>3 DEF Delete, Promise!Delete
<1>4. CASE List(c)
  <2> DEFINE S == {r \in rows : ~(StoredStart(r) > clock)}
  <2>1. rows' = rows \ S
    BY <1>4 DEF List
  <2>2. \A r \in S : Start[r.meeting] <= clock
    <3> SUFFICES ASSUME NEW r \in S PROVE Start[r.meeting] <= clock
      OBVIOUS
    <3>1. r.meeting \in Meetings
      BY Shape DEF Row
    <3>2. /\ Start[r.meeting] \in Int /\ Offset[r.meeting] \in Int
          /\ Offset[r.meeting] >= 0
      BY <3>1, ReminderAssumption DEF OffsetsNotNegative
    <3> QED BY <3>2, Shape DEF StoredStart
  <2>3. S \in SUBSET {r \in rows : Start[r.meeting] <= clock}
    BY <2>2
  <2> QED BY <1>1, <1>2, <2>1, <2>3 DEF Promise!Prune
<1> QED BY <1>2, <1>3, <1>4

LEMMA ClientRInv ==
    ASSUME OffsetsNotNegative, IInv, RInv, NEW c \in Clients, ClientStep(c) \/ ClientRequest(c)
    PROVE  RInv' /\ (Promise!Next \/ UNCHANGED Promise!pvars)
<1>1. CASE PutSchedules(c) \/ DeleteUnschedules(c)
  BY <1>1, StandStill DEF PutSchedules, DeleteUnschedules
<1> QED BY <1>1, PutRInv, RemovalRInv DEF ClientStep, ClientRequest, Promise!Next

-----------------------------------------------------------------------------
(* What crashes, restarts and the clock are to the users.                  *)

LEMMA CrashRInv ==
    ASSUME IInv, RInv, Crash
    PROVE  RInv' /\ Promise!Crash
<1>1. /\ up /\ ~up' /\ crashes' = crashes + 1
      /\ UNCHANGED <<clock, puts, rows, rung>>
      /\ \A w \in Workers : work'[w].pc = "idle"
  BY IdleType DEF Crash
<1>2. Busy' = {} /\ Seen' \subseteq Seen
  BY <1>1 DEF Busy, Seen
<1>3. BusyRows' /\ OwnIds' /\ ArmsFixIds'
  BY <1>1, <1>2 DEF RInv, BusyRows, OwnIds, ArmsFixIds
<1>4. \A x \in rung : x.life # crashes' /\ x.life <= crashes'
  BY <1>1, Shape DEF RInv, Lives
<1>5. RungRows' /\ RungOnce' /\ Lives'
  BY <1>1, <1>4 DEF RungRows, RungOnce, Lives
<1>6. Held' = {} /\ UNCHANGED Announced
  BY <1>1, <1>2, HeldEntries DEF Announced
<1> QED BY <1>1, <1>3, <1>5, <1>6 DEF RInv, Promise!Crash, Crash

LEMMA RestartRInv ==
    ASSUME IInv, RInv, Restart \/ Tick
    PROVE  RInv' /\ (Promise!Restart \/ Promise!Tick)
<1>1. UNCHANGED <<puts, rows, crashes, work, rung>>
  BY DEF Restart, Tick
<1>2. RInv' /\ UNCHANGED <<Held, Announced>>
  BY <1>1, RowsStay
<1> QED BY <1>2 DEF Restart, Tick, Promise!Restart, Promise!Tick

\* RInv is inductive, and each step is a step of the promise or none.
LEMMA NextPromise ==
    ASSUME OffsetsNotNegative
    PROVE  IInv /\ RInv /\ [Next]_vars => RInv' /\ [Promise!Next]_(Promise!pvars)
<1> SUFFICES ASSUME IInv, RInv, [Next]_vars
             PROVE  RInv' /\ (Promise!Next \/ UNCHANGED Promise!pvars)
  OBVIOUS
<1>1. CASE \E w \in Workers : FireReminder(w)
  BY <1>1, FireReminderRInv
<1>2. CASE (\E i \in Ids : Dispatch(i)) \/ PollDue \/ PollNext
  BY <1>2, SchedulerRInv
<1>3. CASE \E c \in Clients : ClientStep(c) \/ ClientRequest(c)
  BY <1>3, ClientRInv
<1>4. CASE Crash \/ Restart \/ Tick
  BY <1>4, CrashRInv, RestartRInv DEF Promise!Next
<1>5. CASE UNCHANGED vars
  BY <1>5, StandStill DEF vars
<1> QED BY <1>1, <1>2, <1>3, <1>4, <1>5 DEF Next

LEMMA InitPromise == Init => Promise!Init
<1> SUFFICES ASSUME Init PROVE Promise!Init
  OBVIOUS
<1>1. Held = {}
  BY IdleType DEF Init, Held
<1> QED BY <1>1 DEF Init, Announced, Promise!Init

\* Where offsets are not negative the threads, jobs and polls implement what the
\* reminders promise, whatever overlaps or crashes.
THEOREM ImplementsPromise == OffsetsNotNegative => (Spec => ReminderKept)
<1> SUFFICES ASSUME OffsetsNotNegative PROVE Spec => ReminderKept
  OBVIOUS
<1>1. Init => RInv /\ Promise!Init
  BY InitRInv, InitPromise
<1>2. IInv /\ RInv /\ [Next]_vars => RInv' /\ [Promise!Next]_(Promise!pvars)
  BY NextPromise
<1> QED BY <1>1, <1>2, Invariance, PTL DEF Spec, ReminderKept, Promise!Spec
=============================================================================
