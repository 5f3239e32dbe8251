----------------------------- MODULE ActivityHub -----------------------------
(***************************************************************************)
(* What Nano is doing, for its clients: the activity hub that requests and *)
(* scheduler jobs report to, and the event streams it is read through.     *)
(*                                                                         *)
(* _record runs under the hub's lock and is one action.  log reads the     *)
(* state before it takes the lock, so it is two.  An event is abstracted   *)
(* to its id, kind and state; a stream sends the events of a snapshot one  *)
(* by one and the client may go away between any two.                      *)
(*                                                                         *)
(* Task timers are left out: nothing but the tests starts one.             *)
(***************************************************************************)
EXTENDS Integers, Sequences, SequencesExt

CONSTANTS
    Requests,       \* threads that answer the user
    VoiceRequests,  \* those that log the reply after the orchestrator returned
    Reporters,      \* jobs and routes that report an error, or standby
    Loggers,        \* jobs and routes that log or announce
    Streams,        \* clients of GET /api/events
    MaxEvents,      \* max_events, the length of the deque
    MaxRecords      \* bound: events recorded

ASSUME HubAssumption ==
    /\ VoiceRequests \subseteq Requests
    /\ MaxEvents \in Nat \ {0} /\ MaxRecords \in Nat \ {0}

VARIABLES
    state,      \* _state
    events,     \* _events
    nextId,     \* _next_id
    thread,     \* what each thread is doing
    stream,     \* the generators behind the event streams
    client      \* what each stream's client has received

hub == <<state, events, nextId>>
readers == <<stream, client>>
vars == <<hub, thread, readers>>

-----------------------------------------------------------------------------
States == {"standby", "working", "error"}
Threads == Requests \cup Loggers
Event == [id : 1..MaxRecords, kind : {"state", "log"}, state : States]

\* Mutant of Push: a full deque refuses the event.
PushDropsNewest(s, e) == IF Len(s) = MaxEvents THEN s ELSE Append(s, e)

\* deque(maxlen=...).append
Push(s, e) == IF Len(s) = MaxEvents THEN Append(Tail(s), e) ELSE Append(s, e)

\* ActivityHub._record
Record(kind, s) ==
    /\ nextId <= MaxRecords
    /\ nextId' = nextId + 1
    /\ events' = Push(events, [id |-> nextId, kind |-> kind, state |-> s])
    /\ state' = s

\* A thread at pc, which in log has read the state saw.
At(pc, saw) == [pc |-> pc, saw |-> saw]
Idle == At("idle", "standby")
Goto(t, at) == thread' = [thread EXCEPT ![t] = at]

\* A stream that is off, or whose generator has last_id and events to send.
Off == [on |-> FALSE, last |-> 0, batch |-> <<>>]
Sending(last, batch) == [on |-> TRUE, last |-> last, batch |-> batch]
NewClient == [last |-> 0, shows |-> "standby"]

Booted == <<[id |-> 1, kind |-> "state", state |-> "standby"]>>

Init ==
    /\ state = "standby" /\ events = Booted /\ nextId = 2
    /\ thread = [t \in Threads |-> Idle]
    /\ stream = [c \in Streams |-> Off]
    /\ client = [c \in Streams |-> NewClient]

-----------------------------------------------------------------------------
(* A request: it reports its work and what it does, and ends with standby, *)
(* in finalize_response's finally or by release_to_idle.                   *)

Work(r) ==
    /\ thread[r].pc \in {"idle", "busy"}
    /\ Record("state", "working")
    /\ Goto(r, At("busy", "standby"))
    /\ UNCHANGED readers

\* _record_verification_failure of the tool runner.
ReportFailure(r) ==
    /\ thread[r].pc = "busy"
    /\ Record("state", "error")
    /\ UNCHANGED <<thread, readers>>

\* Mutant of Finish: the request returns without a standby, as on an exception
\* that nothing catches.
FinishRaises(r) ==
    /\ thread[r].pc = "busy"
    /\ Goto(r, Idle)
    /\ UNCHANGED <<hub, readers>>

Finish(r) ==
    /\ thread[r].pc = "busy"
    /\ Record("state", "standby")
    /\ Goto(r, IF r \in VoiceRequests THEN At("answered", "standby") ELSE Idle)
    /\ UNCHANGED readers

-----------------------------------------------------------------------------
(* ActivityHub.log, also by announce_voice for the browser's playback.     *)

\* The state is read without the lock ...
LogReads(t) ==
    /\ \/ t \in Loggers /\ thread[t].pc = "idle" /\ Goto(t, At("log", state))
       \/ thread[t].pc = "busy" /\ Goto(t, At("log and go on", state))
       \/ thread[t].pc = "answered" /\ Goto(t, At("log", state))
    /\ UNCHANGED <<hub, readers>>

\* ... and recorded with it.
LogRecords(t) ==
    /\ thread[t].pc \in {"log", "log and go on"}
    /\ Record("log", thread[t].saw)
    /\ Goto(t, IF thread[t].pc = "log" THEN Idle ELSE At("busy", "standby"))
    /\ UNCHANGED readers

-----------------------------------------------------------------------------
\* A health check that failed reports an error; the wake answer, an offered
\* update and the proactive routes report standby.
Report ==
    /\ Reporters # {}
    /\ \E s \in {"error", "standby"} : Record("state", s)
    /\ UNCHANGED <<thread, readers>>

-----------------------------------------------------------------------------
(* GET /api/events.                                                        *)

\* The client asks for what comes after the last event it received.
Connect(c) ==
    /\ ~stream[c].on
    /\ stream' = [stream EXCEPT ![c] = Sending(client[c].last, <<>>)]
    /\ UNCHANGED <<hub, thread, client>>

Disconnect(c) ==
    /\ stream[c].on
    /\ stream' = [stream EXCEPT ![c] = Off]
    /\ UNCHANGED <<hub, thread, client>>

\* Mutants of Poll: last_id is advanced to the newest event at once; the
\* events are taken for unseen whatever their id.
PollAdvances(c) ==
    /\ stream[c].on /\ stream[c].batch = <<>>
    /\ LET new == SelectSeq(events, LAMBDA e : e.id > stream[c].last)
       IN  /\ new # <<>>
           /\ stream' = [stream EXCEPT ![c] = Sending(Last(new).id + 1, new)]
    /\ UNCHANGED <<hub, thread, client>>
PollAll(c) ==
    /\ stream[c].on /\ stream[c].batch = <<>>
    /\ stream' = [stream EXCEPT ![c] = Sending(stream[c].last, events)]
    /\ UNCHANGED <<hub, thread, client>>

\* The ids grow along the deque, so the events after an id are all those from
\* the first that has a greater one.
After(last) ==
    LET first == SelectInSeq(events, LAMBDA e : e.id > last)
    IN  IF first = 0 THEN <<>> ELSE SubSeq(events, first, Len(events))

\* build_runtime_snapshot, every half second: the events after last_id.
Poll(c) ==
    /\ stream[c].on /\ stream[c].batch = <<>>
    /\ LET new == After(stream[c].last)
       IN  /\ new # <<>>
           /\ stream' = [stream EXCEPT ![c] = Sending(@.last, new)]
    /\ UNCHANGED <<hub, thread, client>>

\* yield: last_id becomes the id of the event that is sent.
Send(c) ==
    /\ stream[c].on /\ stream[c].batch # <<>>
    /\ LET e == Head(stream[c].batch)
       IN  /\ stream' = [stream EXCEPT ![c] =
                            Sending(IF e.id > @.last THEN e.id ELSE @.last, Tail(@.batch))]
           /\ client' = [client EXCEPT ![c] =
                            [last |-> e.id, shows |-> e.state]]
    /\ UNCHANGED <<hub, thread>>

Next ==
    \/ \E r \in Requests : Work(r) \/ ReportFailure(r) \/ Finish(r)
    \/ \E t \in Threads : LogReads(t) \/ LogRecords(t)
    \/ Report
    \/ \E c \in Streams : Connect(c) \/ Disconnect(c) \/ Poll(c) \/ Send(c)

\* The event loop runs the generators; a browser reconnects.
Fairness ==
    \A c \in Streams : WF_vars(Connect(c)) /\ WF_vars(Poll(c)) /\ WF_vars(Send(c))

Spec == Init /\ [][Next]_vars /\ Fairness

-----------------------------------------------------------------------------
\* Every variable holds a value of its type; the deque holds the newest events
\* with consecutive ids, and the hub's state is the newest event's.
TypeOK ==
    /\ state \in States /\ nextId \in 2..(MaxRecords + 1)
    /\ events \in Seq(Event) /\ Len(events) \in 1..MaxEvents
    /\ \A i \in DOMAIN events : events[i].id = nextId - 1 - Len(events) + i
    /\ Last(events).state = state
    /\ thread \in [Threads -> [pc : {"idle", "busy", "answered", "log", "log and go on"},
                               saw : States]]
    /\ stream \in [Streams -> [on : BOOLEAN, last : 0..MaxRecords, batch : Seq(Event)]]
    /\ client \in [Streams -> [last : 0..MaxRecords, shows : States]]

\* The hub does not stay busy: with no request in progress it does not say
\* working, however requests, errors and logs overlapped; only a log that had
\* read the state of a request since finished can make it.
IdleUnlessLogged ==
    (\A t \in Threads : thread[t].pc = "idle") /\ state = "working"
    => Last(events).kind = "log"

\* Connections that break in the middle of a batch, reconnections and a deque
\* that drops events between two looks leave a client with what HubPromise says:
\* the events in order, none twice, and none left out that was still kept.
Promise == INSTANCE HubPromise WITH recorded <- nextId - 1,
                                    received <- [c \in Streams |-> client[c].last]
StreamKept == Promise!Spec

\* "The UI displays state from GET /api/events" (docs/README.md): when nothing
\* is recorded any more and the client stays connected, it shows the hub's state.
ClientCatchesUp ==
    \A c \in Streams :
       (\E s \in States : <>[](state = s /\ stream[c].on)) =>
          <>[](client[c].shows = state)
=============================================================================
