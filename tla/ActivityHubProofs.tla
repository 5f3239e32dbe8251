-------------------------- MODULE ActivityHubProofs --------------------------
(***************************************************************************)
(* The hub and its event streams, whatever the number of threads, clients  *)
(* and events kept: the types, that the hub does not stay busy, and that a *)
(* stream implements HubPromise.  The last rests on where a stream is in   *)
(* the events (InStep): what it has not sent follows what it has, but for  *)
(* events the deque had dropped when it looked.                            *)
(***************************************************************************)
EXTENDS ActivityHub, SequenceTheorems, WellFoundedInduction, TLAPS

\* The deque drops nothing before it is full.
Full == Len(events) = MaxEvents \/ Len(events) = nextId - 1

\* A request that said working and has not finished.
Holds == state = "working" /\ Last(events).kind = "state" =>
            \E r \in Requests : thread[r].pc \in {"busy", "log and go on"}

\* Where a stream is: at the last event its client received, and its batch goes
\* on from there, or from the oldest event there was.
InStep(c) ==
    LET s == stream[c]
    IN  /\ client[c].last < nextId
        /\ s.on => s.last = client[c].last
        /\ s.on /\ s.batch # <<>> =>
              /\ s.batch[1].id > s.last
              /\ s.batch[1].id = s.last + 1 \/ s.batch[1].id + MaxEvents <= nextId
        /\ \A i \in DOMAIN s.batch : /\ s.batch[i].id = s.batch[1].id + i - 1
                                     /\ s.batch[i].id < nextId

IInv == TypeOK /\ Full /\ Holds /\ \A c \in Streams : InStep(c)
-----------------------------------------------------------------------------
(* The deque                                                               *)

LEMMA PushFull ==
    ASSUME NEW X, NEW s \in Seq(X), NEW e \in X, Len(s) = MaxEvents, s # <<>>
    PROVE  /\ Push(s, e) \in Seq(X) /\ Len(Push(s, e)) = Len(s) /\ Push(s, e)[Len(s)] = e
           /\ \A i \in 1..(Len(s) - 1) : Push(s, e)[i] = s[i + 1]
<1> DEFINE t == Tail(s)
<1>1. t \in Seq(X) /\ Len(t) = Len(s) - 1 /\ \A i \in 1..Len(t) : t[i] = s[i + 1]
  BY HeadTailProperties
<1>2. Push(s, e) = Append(t, e)
  BY DEF Push
<1> HIDE DEF t
<1>3. /\ Append(t, e) \in Seq(X) /\ Len(Append(t, e)) = Len(t) + 1
      /\ \A i \in 1..Len(t) : Append(t, e)[i] = t[i]
      /\ Append(t, e)[Len(t) + 1] = e
  BY <1>1, AppendProperties
<1>4. Len(s) \in Nat /\ (Len(s) - 1) + 1 = Len(s)
  BY LenProperties
<1> QED BY <1>1, <1>2, <1>3, <1>4

LEMMA PushRoom ==
    ASSUME NEW X, NEW s \in Seq(X), NEW e \in X, Len(s) # MaxEvents
    PROVE  /\ Push(s, e) \in Seq(X) /\ Len(Push(s, e)) = Len(s) + 1
           /\ Push(s, e)[Len(s) + 1] = e
           /\ \A i \in 1..Len(s) : Push(s, e)[i] = s[i]
  BY AppendProperties DEF Push

\* What a record leaves: the ids stay consecutive and the newest event tells
\* the state.
LEMMA Recorded ==
    ASSUME TypeOK, Full, NEW kind \in {"state", "log"}, NEW s \in States, Record(kind, s)
    PROVE  /\ state' = s /\ nextId' = nextId + 1 /\ nextId' \in 2..(MaxRecords + 1)
           /\ events' \in Seq(Event) /\ Len(events') \in 1..MaxEvents
           /\ \A i \in DOMAIN events' : events'[i].id = nextId' - 1 - Len(events') + i
           /\ Last(events').state = s /\ Last(events').kind = kind
           /\ Full'
<1> DEFINE e == [id |-> nextId, kind |-> kind, state |-> s]
           p == events'
           n == Len(events)
<1>1. /\ nextId \in 2..(MaxRecords + 1) /\ nextId <= MaxRecords /\ MaxRecords \in Nat
      /\ events \in Seq(Event) /\ n \in 1..MaxEvents /\ MaxEvents \in Nat
      /\ p = Push(events, e) /\ nextId' = nextId + 1 /\ state' = s
      /\ n = MaxEvents \/ n = nextId - 1
  BY HubAssumption DEF TypeOK, Record, Full
<1>2. \A i \in 1..n : events[i].id = nextId - 1 - n + i
  BY LenProperties DEF TypeOK
<1>3. e \in Event /\ e.id = nextId /\ e.kind = kind /\ e.state = s
  BY <1>1 DEF Event
<1>4. events # <<>>
  BY <1>1
<1> HIDE DEF e
<1>5. CASE n = MaxEvents
  <2>1. /\ p \in Seq(Event) /\ Len(p) = n /\ p[n] = e
        /\ \A i \in 1..(n - 1) : p[i] = events[i + 1]
    <3>1. events \in Seq(Event) /\ e \in Event /\ Len(events) = MaxEvents /\ events # <<>>
      BY <1>1, <1>3, <1>4, <1>5
    <3>2. /\ Push(events, e) \in Seq(Event) /\ Len(Push(events, e)) = Len(events)
          /\ Push(events, e)[Len(events)] = e
          /\ \A i \in 1..(Len(events) - 1) : Push(events, e)[i] = events[i + 1]
      BY ONLY <3>1, PushFull
    <3> QED BY <1>1, <3>2
  <2>2. DOMAIN p = 1..n
    BY <2>1, LenProperties
  <2>3. Last(p) = e
    BY <2>1 DEF Last
  <2> HIDE DEF n, p
  <2>4. ASSUME NEW i \in 1..n PROVE p[i].id = nextId' - 1 - n + i
    <3>1. CASE i = n
      <4>1. p[i].id = nextId
        BY <1>3, <2>1, <3>1
      <4> QED BY <1>1, <3>1, <4>1
    <3>2. CASE i \in 1..(n - 1)
      <4>1. i + 1 \in 1..n
        BY <1>1, <3>2
      <4>2. p[i].id = nextId - 1 - n + (i + 1)
        BY <1>2, <2>1, <3>2, <4>1
      <4> QED BY <1>1, <3>2, <4>2
    <3> QED BY <1>1, <3>1, <3>2
  <2>5. Full'
    BY <1>5, <2>1 DEF Full, p
  <2>6. nextId' \in 2..(MaxRecords + 1)
    BY <1>1
  <2> QED BY <1>1, <1>3, <2>1, <2>2, <2>3, <2>4, <2>5, <2>6 DEF p
<1>6. CASE n # MaxEvents
  <2>1. /\ p \in Seq(Event) /\ Len(p) = n + 1 /\ p[n + 1] = e
        /\ \A i \in 1..n : p[i] = events[i]
    <3>1. events \in Seq(Event) /\ e \in Event /\ Len(events) # MaxEvents
      BY <1>1, <1>3, <1>6
    <3>2. /\ Push(events, e) \in Seq(Event) /\ Len(Push(events, e)) = Len(events) + 1
          /\ Push(events, e)[Len(events) + 1] = e
          /\ \A i \in 1..Len(events) : Push(events, e)[i] = events[i]
      BY ONLY <3>1, PushRoom
    <3> QED BY <1>1, <3>2
  <2>2. DOMAIN p = 1..(n + 1)
    BY <2>1, LenProperties
  <2>3. Last(p) = e
    BY <2>1 DEF Last
  <2> HIDE DEF n, p
  <2>4. ASSUME NEW i \in 1..(n + 1) PROVE p[i].id = nextId' - 1 - (n + 1) + i
    <3>1. CASE i = n + 1
      <4>1. p[i].id = nextId
        BY <1>3, <2>1, <3>1
      <4> QED BY <1>1, <3>1, <4>1
    <3>2. CASE i \in 1..n
      <4>1. p[i].id = nextId - 1 - n + i
        BY <1>2, <2>1, <3>2
      <4> QED BY <1>1, <3>2, <4>1
    <3> QED BY <1>1, <3>1, <3>2
  <2>5. Len(p) = nextId' - 1 /\ n + 1 \in 1..MaxEvents
    BY <1>1, <1>6, <2>1
  <2>6. Full'
    BY <2>5 DEF Full, p
  <2>7. nextId' \in 2..(MaxRecords + 1)
    BY <1>1
  <2> QED BY <1>1, <1>3, <2>1, <2>2, <2>3, <2>4, <2>5, <2>6, <2>7 DEF p
<1> QED BY <1>5, <1>6

-----------------------------------------------------------------------------
(* The events after an id                                                  *)

\* The least of a set of natural numbers, as FiniteSetsExt chooses it.
LEMMA MinIsLeast ==
    ASSUME NEW S, S \subseteq Nat, S # {}
    PROVE  Min(S) \in S /\ \A x \in S : Min(S) <= x
<1>1. \E n \in S : \A x \in S : ~(<<x, n>> \in OpToRel(<, Nat))
  BY WFMin, NatLessThanWellFounded
<1>2. \A x, n \in Nat : ~(<<x, n>> \in OpToRel(<, Nat)) => n <= x
  BY DEF OpToRel
<1>3. \E n \in S : \A x \in S : n <= x
  BY <1>1, <1>2
<1> QED BY <1>3 DEF Min

LEMMA AfterIs ==
    ASSUME TypeOK, Full, NEW last \in Nat, After(last) # <<>>
    PROVE  LET b == After(last)
           IN  /\ b \in Seq(Event) /\ b[1].id > last
               /\ b[1].id = last + 1 \/ b[1].id + MaxEvents <= nextId
               /\ \A i \in DOMAIN b : b[i].id = b[1].id + i - 1 /\ b[i].id < nextId
<1> DEFINE b == After(last)
           I == {i \in 1..Len(events) : events[i].id > last}
           k == Min(I)
           n == Len(events)
<1>1. /\ nextId \in 2..(MaxRecords + 1) /\ MaxRecords \in Nat
      /\ events \in Seq(Event) /\ n \in 1..MaxEvents /\ MaxEvents \in Nat
      /\ DOMAIN events = 1..n /\ n \in Nat
      /\ \A i \in 1..n : events[i].id = nextId - 1 - n + i /\ events[i] \in Event
  BY HubAssumption, LenProperties, ElementOfSeq DEF TypeOK
<1>2. I # {} /\ b = SubSeq(events, k, n)
  BY DEF After, SelectInSeq
<1>3. k \in I /\ \A x \in I : k <= x
  <2>1. I \subseteq Nat
    OBVIOUS
  <2> HIDE DEF I
  <2> QED BY <1>2, <2>1, MinIsLeast
<1>4. /\ k \in 1..n /\ events[k].id > last
      /\ \A j \in 1..(k - 1) : ~(events[j].id > last)
  <2>1. k \in 1..n /\ events[k].id > last /\ \A x \in 1..n : events[x].id > last => k <= x
    <3> HIDE DEF k
    <3> QED BY <1>3
  <2> HIDE DEF k, n
  <2>2. \A j \in 1..(k - 1) : j \in 1..n /\ ~(k <= j)
    BY <1>1, <2>1
  <2> QED BY <2>1, <2>2
<1> HIDE DEF k, b, I, n
<1>5. /\ b \in Seq(Event) /\ Len(b) = n - k + 1
      /\ \A i \in 1..(n - k + 1) : b[i] = events[k + i - 1]
  <2>1. \A i \in k..n : events[i] \in Event
    BY <1>1, <1>4
  <2>2. k \in Int /\ n \in Int /\ k <= n
    BY <1>1, <1>4
  <2> QED BY <1>2, <2>1, <2>2, SubSeqProperties
<1>6. DOMAIN b = 1..(n - k + 1)
  BY <1>5, LenProperties
<1>7. \A i \in 1..(n - k + 1) : b[i].id = nextId - 1 - n + (k + i - 1)
  <2> SUFFICES ASSUME NEW i \in 1..(n - k + 1) PROVE b[i].id = nextId - 1 - n + (k + i - 1)
    OBVIOUS
  <2>1. k + i - 1 \in 1..n
    BY <1>1, <1>4
  <2> QED BY <1>1, <1>5, <2>1
<1>8. b[1].id = nextId - 1 - n + k /\ b[1].id > last
  <2>1. 1 \in 1..(n - k + 1)
    BY <1>1, <1>4
  <2>2. b[1] = events[k]
    BY <1>1, <1>4, <1>5, <2>1
  <2> QED BY <1>1, <1>4, <2>2
<1>9. b[1].id = last + 1 \/ b[1].id + MaxEvents <= nextId
  <2>1. CASE k = 1
    <3>1. n = MaxEvents \/ n = nextId - 1
      BY DEF Full, n
    <3>2. n = nextId - 1 => b[1].id = 1
      BY <1>1, <1>8, <2>1
    <3> QED BY <1>1, <1>8, <2>1, <3>1, <3>2
  <2>2. CASE k # 1
    <3>1. k - 1 \in 1..(k - 1) /\ k - 1 \in 1..n
      BY <1>1, <1>4, <2>2
    <3>2. ~(events[k - 1].id > last) /\ events[k - 1].id = nextId - 1 - n + (k - 1)
      BY <1>1, <1>4, <3>1
    <3> QED BY <1>1, <1>4, <1>8, <3>2
  <2> QED BY <2>1, <2>2
<1>10. \A i \in 1..(n - k + 1) : b[i].id = b[1].id + i - 1 /\ b[i].id < nextId
  BY <1>1, <1>4, <1>7, <1>8
<1> QED BY <1>5, <1>6, <1>8, <1>9, <1>10 DEF b
-----------------------------------------------------------------------------
(* The invariant                                                           *)

Thread == [pc : {"idle", "busy", "answered", "log", "log and go on"}, saw : States]

LEMMA ThreadsAre ==
    /\ \A s \in States : /\ At("log", s) \in Thread /\ At("log and go on", s) \in Thread
                         /\ At("busy", s) \in Thread /\ At("answered", s) \in Thread
    /\ Idle \in Thread /\ "standby" \in States /\ "working" \in States /\ "error" \in States
    /\ \A pc, s : At(pc, s).pc = pc
  BY DEF At, Idle, Thread, States

LEMMA InitHolds == Init => IInv
<1> SUFFICES ASSUME Init PROVE IInv
  OBVIOUS
<1> DEFINE b == [id |-> 1, kind |-> "state", state |-> "standby"]
<1>1. 1 \in 1..MaxRecords /\ MaxRecords \in Nat /\ MaxEvents \in Nat /\ 1 \in 1..MaxEvents
  BY HubAssumption
<1>2. b \in Event /\ b.id = 1 /\ b.state = "standby" /\ b.kind = "state"
  BY <1>1, ThreadsAre DEF Event
<1>3. events = <<b>> /\ state = "standby" /\ nextId = 2
  BY DEF Init, Booted
<1> HIDE DEF b
<1>4. events \in Seq(Event) /\ Len(events) = 1 /\ DOMAIN events = 1..1 /\ events[1] = b
  BY <1>2, <1>3
<1>5. Last(events) = b
  BY <1>4 DEF Last
<1>6. thread \in [Threads -> Thread]
  BY ThreadsAre DEF Init
<1>7. Off \in [on : BOOLEAN, last : 0..MaxRecords, batch : Seq(Event)]
  BY <1>1 DEF Off
<1>8. NewClient \in [last : 0..MaxRecords, shows : States]
  <2>1. 0 \in 0..MaxRecords
    BY ONLY <1>1
  <2> QED BY <2>1, ThreadsAre DEF NewClient
<1>9. TypeOK
  <2>1. \A i \in DOMAIN events : events[i].id = nextId - 1 - Len(events) + i
    BY <1>2, <1>3, <1>4
  <2>2. nextId \in 2..(MaxRecords + 1) /\ Len(events) \in 1..MaxEvents
    BY <1>1, <1>3, <1>4
  <2> QED BY <1>2, <1>3, <1>4, <1>5, <1>6, <1>7, <1>8, <2>1, <2>2, ThreadsAre DEF TypeOK, Init, Thread
<1>10. Full /\ Holds
  BY <1>3, <1>4 DEF Full, Holds
<1>11. \A c \in Streams : InStep(c)
  <2> SUFFICES ASSUME NEW c \in Streams PROVE InStep(c)
    OBVIOUS
  <2>1. stream[c] = Off /\ client[c] = NewClient
    BY DEF Init
  <2>2. ~Off.on /\ Off.batch = <<>> /\ DOMAIN Off.batch = {} /\ NewClient.last = 0
    BY DEF Off, NewClient
  <2> QED BY <1>3, <2>1, <2>2 DEF InStep
<1> QED BY <1>9, <1>10, <1>11 DEF IInv

\* While the hub records, the streams stay where they are.
LEMMA StreamsWait ==
    ASSUME IInv, UNCHANGED readers, nextId' \in {nextId, nextId + 1}
    PROVE  \A c \in Streams : InStep(c)'
<1> SUFFICES ASSUME NEW c \in Streams PROVE InStep(c)'
  OBVIOUS
<1>1. nextId \in Int /\ MaxEvents \in Nat /\ nextId <= nextId'
  <2>1. nextId \in 2..(MaxRecords + 1) /\ MaxRecords \in Nat /\ MaxEvents \in Nat
    BY HubAssumption DEF IInv, TypeOK
  <2> QED BY ONLY <2>1, nextId' \in {nextId, nextId + 1}
<1>2. stream' = stream /\ client' = client
  BY DEF readers
<1>3. InStep(c)
  BY DEF IInv
<1>4. stream[c].batch \in Seq(Event) /\ client[c].last \in Int
  <2>1. /\ stream \in [Streams -> [on : BOOLEAN, last : 0..MaxRecords, batch : Seq(Event)]]
        /\ client \in [Streams -> [last : 0..MaxRecords, shows : States]]
    BY DEF IInv, TypeOK
  <2>2. /\ stream[c] \in [on : BOOLEAN, last : 0..MaxRecords, batch : Seq(Event)]
        /\ client[c] \in [last : 0..MaxRecords, shows : States]
    BY ONLY <2>1, c \in Streams
  <2> QED BY <2>2, HubAssumption
<1>5. \A i \in DOMAIN stream[c].batch : stream[c].batch[i].id \in Int
  <2>1. \A i \in DOMAIN stream[c].batch : stream[c].batch[i] \in Event
    BY <1>4, LenProperties, ElementOfSeq
  <2> QED BY <2>1, HubAssumption DEF Event
<1>6. stream[c].batch # <<>> => 1 \in DOMAIN stream[c].batch
  BY <1>4
<1> QED BY <1>1, <1>2, <1>3, <1>4, <1>5, <1>6 DEF InStep

LEMMA RecordKeeps ==
    ASSUME IInv, NEW kind \in {"state", "log"}, NEW s \in States, Record(kind, s),
           thread' \in [Threads -> Thread], UNCHANGED readers,
           s = "working" /\ kind = "state" =>
              \E r \in Requests : thread'[r].pc \in {"busy", "log and go on"}
    PROVE  IInv'
<1>1. /\ state' = s /\ nextId' = nextId + 1 /\ nextId' \in 2..(MaxRecords + 1)
      /\ events' \in Seq(Event) /\ Len(events') \in 1..MaxEvents
      /\ \A i \in DOMAIN events' : events'[i].id = nextId' - 1 - Len(events') + i
      /\ Last(events').state = s /\ Last(events').kind = kind
      /\ Full'
  BY Recorded DEF IInv
<1>2. \A c \in Streams : InStep(c)'
  BY <1>1, StreamsWait
<1>3. TypeOK'
  BY <1>1 DEF IInv, TypeOK, Thread, readers
<1>4. Holds'
  BY <1>1 DEF Holds
<1> QED BY <1>1, <1>2, <1>3, <1>4 DEF IInv

LEMMA GotoType ==
    ASSUME IInv, NEW t \in Threads, NEW at \in Thread, Goto(t, at)
    PROVE  thread' \in [Threads -> Thread] /\ thread'[t] = at
  BY DEF IInv, TypeOK, Thread, Goto

LEMMA ThreadsKeep ==
    ASSUME IInv,
           \/ \E r \in Requests : Work(r) \/ ReportFailure(r) \/ Finish(r)
           \/ \E t \in Threads : LogReads(t) \/ LogRecords(t)
           \/ Report
    PROVE  IInv'
<1>1. thread \in [Threads -> Thread]
  BY DEF IInv, TypeOK, Thread
<1>2. ASSUME NEW r \in Requests, Work(r) PROVE IInv'
  <2>1. r \in Threads /\ At("busy", "standby") \in Thread
    BY ThreadsAre DEF Threads
  <2>2. thread' \in [Threads -> Thread] /\ thread'[r] = At("busy", "standby")
    BY <1>2, <2>1, GotoType DEF Work
  <2>3. thread'[r].pc = "busy"
    BY <2>2, ThreadsAre
  <2> QED BY <1>2, <2>2, <2>3, ThreadsAre, RecordKeeps DEF Work
<1>3. ASSUME NEW r \in Requests, ReportFailure(r) PROVE IInv'
  <2>1. thread' \in [Threads -> Thread]
    BY <1>1, <1>3 DEF ReportFailure
  <2> QED BY <1>3, <2>1, ThreadsAre, RecordKeeps DEF ReportFailure
<1>4. ASSUME NEW r \in Requests, Finish(r) PROVE IInv'
  <2>1. r \in Threads /\ (IF r \in VoiceRequests THEN At("answered", "standby") ELSE Idle) \in Thread
    BY ThreadsAre DEF Threads
  <2>2. thread' \in [Threads -> Thread]
    BY <1>4, <2>1, GotoType DEF Finish
  <2> QED BY <1>4, <2>2, ThreadsAre, RecordKeeps DEF Finish
<1>5. ASSUME NEW t \in Threads, LogReads(t) PROVE IInv'
  <2>1. state \in States
    BY DEF IInv, TypeOK
  <2>2. PICK at \in {At("log", state), At("log and go on", state)} :
           /\ Goto(t, at)
           /\ at = At("log", state) => thread[t].pc \in {"idle", "answered"}
    <3>1. At("log", state) # At("log and go on", state)
      <4>1. At("log", state).pc = "log" /\ At("log and go on", state).pc = "log and go on"
        BY ThreadsAre
      <4> QED BY <4>1
    <3>2. CASE thread[t].pc = "idle" /\ Goto(t, At("log", state))
      BY <3>2
    <3>3. CASE thread[t].pc = "busy" /\ Goto(t, At("log and go on", state))
      BY <3>1, <3>3
    <3>4. CASE thread[t].pc = "answered" /\ Goto(t, At("log", state))
      BY <3>4
    <3> QED BY <1>5, <3>2, <3>3, <3>4 DEF LogReads
  <2>3. at \in Thread
    BY <2>1, <2>2, ThreadsAre
  <2>4. thread' \in [Threads -> Thread] /\ thread' = [thread EXCEPT ![t] = at]
    BY <2>2, <2>3, GotoType DEF Goto
  <2>5. UNCHANGED <<hub, readers>>
    BY <1>5 DEF LogReads
  <2>6. ASSUME NEW r \in Requests, thread[r].pc \in {"busy", "log and go on"}
        PROVE  thread'[r].pc \in {"busy", "log and go on"}
    <3>1. r \in Threads
      BY DEF Threads
    <3>2. CASE r # t
      BY <1>1, <2>4, <2>6, <3>1, <3>2
    <3>3. CASE r = t
      <4>1. at = At("log and go on", state)
        BY <2>2, <2>6, <3>3
      <4> QED BY <1>1, <2>4, <3>1, <3>3, <4>1, ThreadsAre
    <3> QED BY <3>2, <3>3
  <2>7. Holds'
    BY <2>5, <2>6 DEF IInv, Holds, hub
  <2>8. TypeOK' /\ Full'
    BY <2>4, <2>5 DEF IInv, TypeOK, Thread, Full, hub, readers
  <2>9. \A c \in Streams : InStep(c)'
    BY <2>5, StreamsWait DEF hub
  <2> QED BY <2>7, <2>8, <2>9 DEF IInv
<1>6. ASSUME NEW t \in Threads, LogRecords(t) PROVE IInv'
  <2>1. thread[t].saw \in States
    BY <1>1 DEF Thread
  <2>2. (IF thread[t].pc = "log" THEN Idle ELSE At("busy", "standby")) \in Thread
    BY ThreadsAre
  <2>3. thread' \in [Threads -> Thread]
    BY <1>6, <2>2, GotoType DEF LogRecords
  <2> QED BY <1>6, <2>1, <2>3, RecordKeeps DEF LogRecords
<1>7. CASE Report
  <2>1. PICK s \in {"error", "standby"} : Record("state", s)
    BY <1>7 DEF Report
  <2>2. thread' \in [Threads -> Thread] /\ UNCHANGED readers
    BY <1>1, <1>7 DEF Report
  <2> QED BY <2>1, <2>2, ThreadsAre, RecordKeeps
<1> QED BY <1>2, <1>3, <1>4, <1>5, <1>6, <1>7

\* A stream that moves leaves the hub and the other streams alone.
LEMMA StreamKeeps ==
    ASSUME IInv, NEW c \in Streams, UNCHANGED <<hub, thread>>,
           NEW s \in [on : BOOLEAN, last : 0..MaxRecords, batch : Seq(Event)],
           NEW k \in [last : 0..MaxRecords, shows : States],
           stream' = [stream EXCEPT ![c] = s], client' = [client EXCEPT ![c] = k],
           k.last < nextId, s.on => s.last = k.last,
           s.on /\ s.batch # <<>> =>
              /\ s.batch[1].id > s.last
              /\ s.batch[1].id = s.last + 1 \/ s.batch[1].id + MaxEvents <= nextId,
           \A i \in DOMAIN s.batch : /\ s.batch[i].id = s.batch[1].id + i - 1
                                     /\ s.batch[i].id < nextId
    PROVE  IInv'
<1>1. /\ state' = state /\ events' = events /\ nextId' = nextId /\ thread' = thread
  BY DEF hub
<1>2. /\ stream' \in [Streams -> [on : BOOLEAN, last : 0..MaxRecords, batch : Seq(Event)]]
      /\ client' \in [Streams -> [last : 0..MaxRecords, shows : States]]
      /\ stream'[c] = s /\ client'[c] = k
      /\ \A d \in Streams \ {c} : stream'[d] = stream[d] /\ client'[d] = client[d]
  BY DEF IInv, TypeOK
<1>3. TypeOK' /\ Full' /\ Holds'
  BY <1>1, <1>2 DEF IInv, TypeOK, Full, Holds
<1>4. InStep(c)'
  BY <1>1, <1>2 DEF InStep
<1>5. \A d \in Streams \ {c} : InStep(d)'
  BY <1>1, <1>2 DEF IInv, InStep
<1> QED BY <1>3, <1>4, <1>5 DEF IInv
\* A batch that is sent goes on with what follows.
LEMMA SendKeeps ==
    ASSUME IInv, NEW c \in Streams, Send(c)
    PROVE  /\ IInv'
           /\ client'[c].last > client[c].last /\ client'[c].last < nextId
           /\ \/ client'[c].last = client[c].last + 1
              \/ client'[c].last + MaxEvents <= nextId
<1> DEFINE old == stream[c]
           b == old.batch
           e == Head(b)
           s == Sending(e.id, Tail(b))
           k == [last |-> e.id, shows |-> e.state]
<1>1. /\ old \in [on : BOOLEAN, last : 0..MaxRecords, batch : Seq(Event)]
      /\ client[c] \in [last : 0..MaxRecords, shows : States]
      /\ MaxRecords \in Nat /\ MaxEvents \in Nat /\ nextId \in Int
  <2>1. /\ stream \in [Streams -> [on : BOOLEAN, last : 0..MaxRecords, batch : Seq(Event)]]
        /\ client \in [Streams -> [last : 0..MaxRecords, shows : States]]
        /\ nextId \in 2..(MaxRecords + 1)
    BY DEF IInv, TypeOK
  <2>2. MaxRecords \in Nat /\ MaxEvents \in Nat
    BY HubAssumption
  <2>3. nextId \in Int
    BY <2>1, <2>2
  <2> QED BY <2>1, <2>2, <2>3
<1>2. old.on /\ b # <<>> /\ b \in Seq(Event) /\ old.last \in Int
  BY <1>1 DEF Send
<1>3. /\ old.last = client[c].last
      /\ b[1].id > old.last
      /\ b[1].id = old.last + 1 \/ b[1].id + MaxEvents <= nextId
      /\ \A i \in DOMAIN b : b[i].id = b[1].id + i - 1 /\ b[i].id < nextId
  BY <1>2 DEF IInv, InStep
<1>4. /\ e = b[1] /\ e \in Event /\ 1 \in 1..Len(b) /\ Len(b) \in Nat /\ DOMAIN b = 1..Len(b)
      /\ Tail(b) \in Seq(Event) /\ Len(Tail(b)) = Len(b) - 1
      /\ \A i \in 1..Len(Tail(b)) : Tail(b)[i] = b[i + 1]
  <2> HIDE DEF b
  <2>1. e = b[1] /\ Len(b) \in Nat /\ DOMAIN b = 1..Len(b) /\ 1 \in 1..Len(b)
    BY <1>2, LenProperties
  <2>2. e \in Event
    BY <1>2, <2>1, ElementOfSeq
  <2> QED BY <1>2, <2>1, <2>2, HeadTailProperties
<1>5. e.id \in 1..MaxRecords /\ e.state \in States /\ e.id \in Int
  BY <1>1, <1>4 DEF Event
<1>6. stream' = [stream EXCEPT ![c] = s] /\ client' = [client EXCEPT ![c] = k]
  <2>1. e.id > old.last
    BY <1>3, <1>4
  <2> QED BY <2>1 DEF Send
<1>7. UNCHANGED <<hub, thread>>
  BY DEF Send
<1>8. s.on /\ s.last = e.id /\ s.batch = Tail(b) /\ k.last = e.id
  BY DEF Sending
<1>9. s \in [on : BOOLEAN, last : 0..MaxRecords, batch : Seq(Event)]
  <2>1. e.id \in 0..MaxRecords
    BY <1>1, <1>5
  <2> HIDE DEF e, b
  <2> QED BY <1>4, <2>1 DEF Sending
<1>10. k \in [last : 0..MaxRecords, shows : States]
  <2>1. e.id \in 0..MaxRecords
    BY <1>1, <1>5
  <2> HIDE DEF e, b
  <2> QED BY <1>5, <2>1
<1>11. e.id < nextId /\ e.id > client[c].last
       /\ (e.id = client[c].last + 1 \/ e.id + MaxEvents <= nextId)
  BY <1>3, <1>4
<1> HIDE DEF b, e, s, k, old
<1>12. \A i \in 1..Len(Tail(b)) : /\ Tail(b)[i].id = e.id + i
                                  /\ Tail(b)[i].id < nextId
  <2> SUFFICES ASSUME NEW i \in 1..Len(Tail(b))
               PROVE  Tail(b)[i].id = e.id + i /\ Tail(b)[i].id < nextId
    OBVIOUS
  <2>1. i + 1 \in DOMAIN b
    BY <1>4
  <2>2. b[i + 1].id = b[1].id + (i + 1) - 1 /\ b[i + 1].id < nextId
    BY <1>3, <2>1
  <2> QED BY <1>4, <1>5, <2>2
<1>13. DOMAIN s.batch = 1..Len(Tail(b))
  BY <1>4, <1>8, LenProperties
<1>14. \A i \in DOMAIN s.batch : /\ s.batch[i].id = s.batch[1].id + i - 1
                                 /\ s.batch[i].id < nextId
  <2> SUFFICES ASSUME NEW i \in 1..Len(Tail(b))
               PROVE  /\ Tail(b)[i].id = Tail(b)[1].id + i - 1
                      /\ Tail(b)[i].id < nextId
    BY <1>8, <1>13
  <2>1. 1 \in 1..Len(Tail(b))
    BY <1>4
  <2>2. Tail(b)[1].id = e.id + 1 /\ Tail(b)[i].id = e.id + i
    BY <1>12, <2>1
  <2> QED BY <1>5, <1>12, <2>2
<1>15. s.batch # <<>> => s.batch[1].id > s.last /\ s.batch[1].id = s.last + 1
  <2> SUFFICES ASSUME Tail(b) # <<>> PROVE Tail(b)[1].id > e.id /\ Tail(b)[1].id = e.id + 1
    BY <1>8
  <2>1. 1 \in 1..Len(Tail(b))
    BY <1>4, LenProperties
  <2> QED BY <1>5, <1>12, <2>1
<1>16. IInv'
  <2>1. k.last < nextId /\ (s.on => s.last = k.last)
    BY <1>8, <1>11
  <2>2. s.on /\ s.batch # <<>> =>
              /\ s.batch[1].id > s.last
              /\ s.batch[1].id = s.last + 1 \/ s.batch[1].id + MaxEvents <= nextId
    BY <1>15
  <2> QED BY <1>6, <1>7, <1>9, <1>10, <1>14, <2>1, <2>2, StreamKeeps
<1>17. client'[c].last = e.id
  <2>1. client \in [Streams -> [last : 0..MaxRecords, shows : States]]
    BY DEF IInv, TypeOK
  <2>2. client'[c] = k
    BY <1>6, <2>1
  <2> QED BY <1>8, <2>2
<1> QED BY <1>11, <1>16, <1>17

\* A poll takes a batch that goes on from the stream's last event.
LEMMA PollKeeps ==
    ASSUME IInv, NEW c \in Streams, Poll(c)
    PROVE  IInv'
<1> DEFINE old == stream[c]
           b == After(old.last)
           s == Sending(old.last, b)
<1>1. /\ old \in [on : BOOLEAN, last : 0..MaxRecords, batch : Seq(Event)]
      /\ client \in [Streams -> [last : 0..MaxRecords, shows : States]]
  BY DEF IInv, TypeOK
<1>2. old.on /\ old.last \in 0..MaxRecords /\ old.last \in Nat
      /\ old.last = client[c].last /\ client[c].last < nextId
  <2>1. old.on
    BY DEF Poll
  <2>2. old.last \in Nat
    BY <1>1, HubAssumption
  <2> QED BY <1>1, <2>1, <2>2 DEF IInv, InStep
<1>3. /\ b \in Seq(Event) /\ b[1].id > old.last
      /\ b[1].id = old.last + 1 \/ b[1].id + MaxEvents <= nextId
      /\ \A i \in DOMAIN b : b[i].id = b[1].id + i - 1 /\ b[i].id < nextId
  <2>1. b # <<>>
    BY DEF Poll
  <2> HIDE DEF old
  <2> QED BY <1>2, <2>1, AfterIs DEF IInv
<1>4. stream' = [stream EXCEPT ![c] = s] /\ client' = [client EXCEPT ![c] = client[c]]
  BY <1>1 DEF Poll
<1>5. UNCHANGED <<hub, thread>>
  BY DEF Poll
<1> HIDE DEF b, old
<1>6. s.on /\ s.last = old.last /\ s.batch = b
  BY DEF Sending
<1>7. s \in [on : BOOLEAN, last : 0..MaxRecords, batch : Seq(Event)]
  BY <1>2, <1>3 DEF Sending
<1> HIDE DEF s
<1>8. client[c] \in [last : 0..MaxRecords, shows : States]
  BY <1>1
<1> QED BY <1>2, <1>3, <1>4, <1>5, <1>6, <1>7, <1>8, StreamKeeps

\* A stream that opens goes on from what its client has; one that breaks
\* forgets its batch.
LEMMA ConnectKeeps ==
    ASSUME IInv, NEW c \in Streams, Connect(c) \/ Disconnect(c)
    PROVE  IInv'
<1>1. client \in [Streams -> [last : 0..MaxRecords, shows : States]]
  BY DEF IInv, TypeOK
<1>2. client[c].last \in 0..MaxRecords /\ client[c].last < nextId
  BY <1>1 DEF IInv, InStep
<1>3. 0 \in 0..MaxRecords /\ <<>> \in Seq(Event) /\ DOMAIN <<>> = {}
  BY HubAssumption
<1>4. /\ client' = [client EXCEPT ![c] = client[c]] /\ UNCHANGED <<hub, thread>>
      /\ client[c] \in [last : 0..MaxRecords, shows : States]
  BY <1>1 DEF Connect, Disconnect
<1>5. ASSUME NEW s \in {Sending(client[c].last, <<>>), Off}, stream' = [stream EXCEPT ![c] = s]
      PROVE  IInv'
  <2>1. s \in [on : BOOLEAN, last : 0..MaxRecords, batch : Seq(Event)]
    <3>1. Sending(client[c].last, <<>>) \in [on : BOOLEAN, last : 0..MaxRecords, batch : Seq(Event)]
      BY <1>2, <1>3 DEF Sending
    <3>2. Off \in [on : BOOLEAN, last : 0..MaxRecords, batch : Seq(Event)]
      BY <1>3 DEF Off
    <3> QED BY <3>1, <3>2
  <2>2. s.batch = <<>> /\ (s.on => s.last = client[c].last)
    BY DEF Sending, Off
  <2>3. DOMAIN s.batch = {}
    BY <1>3, <2>2
  <2> HIDE DEF Sending, Off
  <2> QED BY <1>2, <1>4, <1>5, <2>1, <2>2, <2>3, StreamKeeps
<1> QED BY <1>5 DEF Connect, Disconnect

LEMMA NextKeeps == IInv /\ [Next]_vars => IInv'
<1> SUFFICES ASSUME IInv, [Next]_vars PROVE IInv'
  OBVIOUS
<1>1. CASE UNCHANGED vars
  <2>1. UNCHANGED <<state, events, nextId, thread, stream, client>>
    BY <1>1 DEF vars, hub, readers
  <2>2. TypeOK' /\ Full' /\ Holds'
    BY <2>1 DEF IInv, TypeOK, Full, Holds
  <2>3. \A c \in Streams : InStep(c)'
    BY <2>1 DEF IInv, InStep
  <2> QED BY <2>2, <2>3 DEF IInv
<1>2. ASSUME NEW c \in Streams, Connect(c) \/ Disconnect(c) \/ Poll(c) \/ Send(c)
      PROVE  IInv'
  BY <1>2, ConnectKeeps, PollKeeps, SendKeeps
<1> QED BY <1>1, <1>2, ThreadsKeep DEF Next

LEMMA Invariance == Spec => []IInv
  BY InitHolds, NextKeeps, PTL DEF Spec

\* The hub's lock keeps its state: every value stays of its type, the deque
\* never grows beyond max_events, its ids are consecutive up to the newest one,
\* and the state the hub tells is the one that event carries.
THEOREM HubTypeCorrect == Spec => []TypeOK
<1>1. IInv => TypeOK
  BY DEF IInv
<1> QED BY <1>1, Invariance, PTL

\* However requests, failures, jobs and logs overlap, a hub whose threads have
\* all finished says working only when the newest event is a log's: Holds says
\* which request a recorded working belongs to, and that it is not done.
THEOREM DoesNotStayBusy == Spec => []IdleUnlessLogged
<1>1. IInv => IdleUnlessLogged
  <2> SUFFICES ASSUME IInv, \A t \in Threads : thread[t].pc = "idle", state = "working",
                      Last(events).kind # "log"
               PROVE  FALSE
    BY DEF IdleUnlessLogged
  <2>1. Last(events).kind = "state"
    <3>1. events \in Seq(Event) /\ Len(events) \in Nat /\ Len(events) >= 1
      <4>1. events \in Seq(Event) /\ Len(events) \in 1..MaxEvents /\ MaxEvents \in Nat
        BY HubAssumption DEF IInv, TypeOK
      <4> QED BY ONLY <4>1
    <3>2. Last(events) \in Event
      <4>1. Len(events) \in 1..Len(events)
        BY <3>1
      <4> QED BY <3>1, <4>1, ElementOfSeq DEF Last
    <3> QED BY <3>2 DEF Event
  <2>2. PICK r \in Requests : thread[r].pc \in {"busy", "log and go on"}
    BY <2>1 DEF IInv, Holds
  <2>3. r \in Threads
    BY DEF Threads
  <2> QED BY <2>2, <2>3
<1> QED BY <1>1, Invariance, PTL

-----------------------------------------------------------------------------
(* The promise                                                             *)

LEMMA StepPromise == IInv /\ [Next]_vars => [Promise!Next]_(Promise!pvars)
<1> SUFFICES ASSUME IInv, [Next]_vars
             PROVE  Promise!Next \/ UNCHANGED Promise!pvars
  OBVIOUS
<1> DEFINE got == [c \in Streams |-> client[c].last]
<1>1. nextId \in Int /\ client \in [Streams -> [last : 0..MaxRecords, shows : States]]
      /\ MaxEvents \in Nat /\ MaxRecords \in Nat
  <2>1. nextId \in 2..(MaxRecords + 1) /\ MaxRecords \in Nat /\ MaxEvents \in Nat
    BY HubAssumption DEF IInv, TypeOK
  <2>2. nextId \in Int
    BY ONLY <2>1
  <2> QED BY <2>1, <2>2 DEF IInv, TypeOK
<1>2. CASE nextId' = nextId /\ client' = client
  BY <1>2 DEF Promise!pvars
<1>3. CASE nextId' = nextId + 1 /\ client' = client
  <2>1. nextId' - 1 = nextId - 1 + 1
    BY <1>1, <1>3
  <2> QED BY <1>3, <2>1 DEF Promise!Next, Promise!Record
<1>4. ASSUME NEW c \in Streams, Send(c) PROVE Promise!Next
  <2> DEFINE e == client'[c].last
  <2>1. /\ e > got[c] /\ e < nextId /\ (e = got[c] + 1 \/ e + MaxEvents <= nextId)
    BY <1>4, SendKeeps
  <2>2. nextId' = nextId
    BY <1>4 DEF Send, hub
  <2>3. PICK k : client' = [client EXCEPT ![c] = k]
    BY <1>4 DEF Send
  <2>4. \A d \in Streams : client'[d] = IF d = c THEN k ELSE client[d]
    BY <1>1, <2>3
  <2>5. got' = [got EXCEPT ![c] = e]
    BY <2>4
  <2>6. e \in Int /\ got[c] \in Int
    <3>1. client' \in [Streams -> [last : 0..MaxRecords, shows : States]]
      BY <1>4, SendKeeps DEF IInv, TypeOK
    <3> QED BY <1>1, <3>1
  <2> HIDE DEF e, got
  <2>7. e \in (got[c] + 1)..(nextId - 1)
    BY <1>1, <2>1, <2>6
  <2>8. \A missed \in (got[c] + 1)..(e - 1) : missed <= (nextId - 1) - MaxEvents
    BY <1>1, <2>1, <2>6
  <2> QED BY <2>2, <2>5, <2>7, <2>8 DEF Promise!Next, Promise!Receive, got
<1>5. ASSUME NEW kind, NEW s, Record(kind, s), UNCHANGED readers
      PROVE  Promise!Next \/ UNCHANGED Promise!pvars
  BY <1>3, <1>5 DEF Record, readers
<1>6. ASSUME NEW r \in Requests, Work(r) \/ ReportFailure(r) \/ Finish(r)
      PROVE  Promise!Next \/ UNCHANGED Promise!pvars
  BY <1>5, <1>6 DEF Work, ReportFailure, Finish
<1>7. ASSUME NEW t \in Threads, LogReads(t) \/ LogRecords(t)
      PROVE  Promise!Next \/ UNCHANGED Promise!pvars
  <2>1. CASE LogReads(t)
    BY <1>2, <2>1 DEF LogReads, hub, readers
  <2>2. CASE LogRecords(t)
    BY <1>5, <2>2 DEF LogRecords
  <2> QED BY <1>7, <2>1, <2>2
<1>8. CASE Report
  BY <1>5, <1>8 DEF Report
<1>9. ASSUME NEW c \in Streams, Connect(c) \/ Disconnect(c) \/ Poll(c)
      PROVE  Promise!Next \/ UNCHANGED Promise!pvars
  BY <1>2, <1>9 DEF Connect, Disconnect, Poll, hub
<1>10. CASE UNCHANGED vars
  BY <1>2, <1>10 DEF vars, hub, readers
<1> QED BY <1>4, <1>6, <1>7, <1>8, <1>9, <1>10 DEF Next

LEMMA InitPromise == Init => Promise!Init
<1> SUFFICES ASSUME Init PROVE Promise!Init
  OBVIOUS
<1>1. nextId - 1 = 1
  BY DEF Init
<1>2. [c \in Streams |-> client[c].last] = [c \in Streams |-> 0]
  BY DEF Init, NewClient
<1> QED BY <1>1, <1>2 DEF Promise!Init

\* Polls of a bounded deque, batches sent one by one, breaks and reconnections
\* implement what the hub promises a client: the events in order, none twice,
\* and none left out that the deque still held.
THEOREM ImplementsPromise == Spec => StreamKept
<1>1. IInv /\ [Next]_vars => [Promise!Next]_(Promise!pvars)
  BY StepPromise
<1> QED BY <1>1, InitPromise, Invariance, PTL DEF Spec, StreamKept, Promise!Spec
=============================================================================
