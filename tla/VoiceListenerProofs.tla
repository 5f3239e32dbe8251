------------------------- MODULE VoiceListenerProofs -------------------------
(***************************************************************************)
(* Theorems about VoiceListener for any number of PUTs, listener threads   *)
(* and clips.  Types hold whoever calls.  That one thread listens, and     *)
(* that the status says so, holds as long as one client at a time sets the *)
(* mode (OneClient): the globals have no lock, and two PUTs side by side   *)
(* can each find no thread alive and start one.                            *)
(*                                                                         *)
(* The strengthening: serving separates the lifespan's calls from the      *)
(* clients', so one caller at most is inside start or stop; the thread in  *)
(* _listener_thread is the only one that can be alive, and from the look   *)
(* at it to the launch of a new one none is.                               *)
(***************************************************************************)
EXTENDS VoiceListener, TLAPS

OneClient == \A c, d \in Requests : c = d

Looping == InLoop \cup {"leave"}
Resting == {"idle", "booted", "down"}
Starting == {"clear stop", "create", "launch"}

\* The lifespan calls before and after the clients do.
Turns == IF serving THEN call[Lifespan] = "idle" ELSE \A c \in Requests : call[c] = "idle"

\* Only the thread in the global is alive, or about to be.
OnlyCurrent ==
    /\ \A t \in Ids : thread[t] \in Live \cup {"new"} => t = current
    /\ \A t \in Ids : thread[t] = "new" => \E c \in Callers : call[c] = "launch"
    /\ \A c \in Callers : call[c] \in Starting => \A t \in Ids : thread[t] \notin Live

\* The flag is up just while a thread is in the loop.
FlagTruthful == listening <=> \E t \in Ids : thread[t] \in Looping

Solo == Turns /\ OnlyCurrent /\ FlagTruthful
IInv == TypeOK /\ Solo
-----------------------------------------------------------------------------
(* Steps of a caller and of a thread                                       *)

CallPcs == {"idle", "booted", "down", "mode?", "alive?", "clear stop", "create", "launch",
            "set stop", "joining"}
ThreadPcs == Live \cup {"none", "new", "ended"}

LEMMA TypeFacts ==
    ASSUME TypeOK
    PROVE  /\ mode \in BOOLEAN /\ stop \in BOOLEAN /\ listening \in BOOLEAN /\ serving \in BOOLEAN
           /\ thread \in [Ids -> ThreadPcs] /\ call \in [Callers -> CallPcs]
           /\ current \in Nat /\ created \in Nat /\ current <= created /\ created <= MaxThreads
           /\ current # 0 => current \in Ids
           /\ Lifespan \in Callers /\ Requests \subseteq Callers /\ Lifespan \notin Requests
<1>1. mode \in BOOLEAN /\ stop \in BOOLEAN /\ listening \in BOOLEAN /\ serving \in BOOLEAN
  BY Zenon DEF TypeOK
<1>2. thread \in [Ids -> ThreadPcs] /\ call \in [Callers -> CallPcs]
  BY DEF TypeOK, ThreadPcs, CallPcs
<1>3. /\ current \in Nat /\ created \in Nat /\ current <= created /\ created <= MaxThreads
      /\ current # 0 => current \in Ids
  <2>1. current \in 0..created /\ created \in 0..MaxThreads
    BY DEF TypeOK
  <2>2. MaxThreads \in Nat
    BY ListenerAssumption
  <2> QED BY <2>1, <2>2 DEF Ids
<1> QED BY <1>1, <1>2, <1>3, ListenerAssumption DEF Callers

LEMMA ZeroNoId == 0 \notin Ids
  BY DEF Ids

LEMMA Below == \A m \in Nat : \A n \in 0..m : n < m => n + 1 \in 0..m
  OBVIOUS

LEMMA Goes ==
    ASSUME TypeOK, NEW c \in Callers, NEW pc \in CallPcs, Goto(c, pc)
    PROVE  /\ call' \in [Callers -> CallPcs] /\ call'[c] = pc
           /\ \A d \in Callers \ {c} : call'[d] = call[d]
  BY TypeFacts DEF Goto

LEMMA Returns ==
    ASSUME NEW c \in Callers, Return(c)
    PROVE  \E pc \in Resting : Goto(c, pc)
  BY DEF Return, Resting

LEMMA Steps ==
    ASSUME TypeOK, NEW t \in Ids, NEW pc \in ThreadPcs, Step(t, pc)
    PROVE  /\ thread' \in [Ids -> ThreadPcs] /\ thread'[t] = pc
           /\ \A u \in Ids \ {t} : thread'[u] = thread[u]
  BY TypeFacts DEF Step

\* A caller's step that leaves the threads.
LEMMA CallerTypes ==
    ASSUME TypeOK, NEW c \in Callers, NEW pc \in CallPcs, Goto(c, pc),
           UNCHANGED <<listening, current, created, thread>>,
           mode' \in BOOLEAN, stop' \in BOOLEAN, serving' \in BOOLEAN, puts' \in 0..MaxPuts,
           pc = "launch" => current # 0
    PROVE  TypeOK'
<1>1. /\ call' \in [Callers -> CallPcs] /\ call'[c] = pc
      /\ \A d \in Callers \ {c} : call'[d] = call[d]
  BY Goes
<1>2. {mode', stop', listening', serving'} \subseteq BOOLEAN
  BY TypeFacts, Zenon
<1>3. \A d \in Callers : call'[d] = "launch" => current' # 0
  BY <1>1 DEF TypeOK
<1> QED BY <1>1, <1>2, <1>3 DEF TypeOK, CallPcs

\* A thread's step in its loop.
LEMMA ThreadTypes ==
    ASSUME TypeOK, NEW t \in Ids, NEW pc \in Live \cup {"ended"}, Step(t, pc), thread[t] # "none",
           listening' \in BOOLEAN,
           UNCHANGED <<mode, stop, current, created, call, serving, puts>>
    PROVE  TypeOK'
<1>1. /\ thread' \in [Ids -> ThreadPcs] /\ thread'[t] = pc
      /\ \A u \in Ids \ {t} : thread'[u] = thread[u]
  BY Steps DEF ThreadPcs
<1>2. {mode', stop', listening', serving'} \subseteq BOOLEAN
  BY TypeFacts, Zenon
<1>3. pc # "none"
  BY DEF Live, InLoop
<1>4. \A u \in Ids : thread'[u] = "none" <=> u > created'
  BY <1>1, <1>3 DEF TypeOK
<1> QED BY <1>1, <1>2, <1>4 DEF TypeOK, ThreadPcs

\* The actions of callers that leave the threads.
Calls(c) ==
    \/ StartReadsMode(c) \/ StartReadsThread(c) \/ StartClearsStop(c) \/ StopVoiceListener(c)

LEMMA TypeInit == Init => TypeOK
<1> SUFFICES ASSUME Init PROVE TypeOK
  OBVIOUS
<1>1. {mode, stop, listening, serving} \subseteq BOOLEAN
  BY Zenon DEF Init
<1>2. current \in 0..created /\ created \in 0..MaxThreads /\ puts \in 0..MaxPuts
  BY ListenerAssumption DEF Init
<1>3. thread \in [Ids -> ThreadPcs] /\ \A t \in Ids : thread[t] = "none" <=> t > created
  BY DEF Init, ThreadPcs, Ids
<1>4. call \in [Callers -> CallPcs] /\ \A c \in Callers : call[c] # "launch"
  BY DEF Init, CallPcs
<1> QED BY <1>1, <1>2, <1>3, <1>4 DEF TypeOK, CallPcs, ThreadPcs

LEMMA TypeNext == TypeOK /\ [Next]_vars => TypeOK'
<1> SUFFICES ASSUME TypeOK, [Next]_vars PROVE TypeOK'
  OBVIOUS
<1> USE TypeFacts
<1>1. ASSUME NEW c \in Requests, PutMode(c) PROVE TypeOK'
  <2>1. PICK pc \in {"mode?", "set stop"} : Goto(c, pc)
    BY <1>1 DEF PutMode
  <2>2. puts' \in 0..MaxPuts
    <3>1. puts \in 0..MaxPuts /\ MaxPuts \in Nat
      BY ListenerAssumption DEF TypeOK
    <3>2. puts < MaxPuts /\ puts' = puts + 1
      BY <1>1 DEF PutMode
    <3> QED BY <3>1, <3>2, Below, Zenon
  <2>3. mode' \in BOOLEAN /\ UNCHANGED <<stop, listening, current, created, thread, serving>>
    BY <1>1, Zenon DEF PutMode
  <2> QED BY <2>1, <2>2, <2>3, CallerTypes DEF CallPcs
<1>2. ASSUME NEW c \in Callers, Calls(c) PROVE TypeOK'
  <2>1. PICK pc \in Resting \cup {"alive?", "clear stop", "create", "joining"} : Goto(c, pc)
    BY <1>2, Returns DEF Calls, StartReadsMode, StartReadsThread, StartClearsStop,
                         StopVoiceListener, StopSets, StopReturns
  <2>2. /\ UNCHANGED <<mode, listening, current, created, thread, serving, puts>>
        /\ stop' = stop \/ stop' = TRUE \/ stop' = FALSE
    BY <1>2, Zenon DEF Calls, StartReadsMode, StartReadsThread, StartClearsStop,
                       StopVoiceListener, StopSets, StopReturns, globals
  <2>3. stop' \in BOOLEAN /\ puts' \in 0..MaxPuts
    <3>1. stop' \in BOOLEAN
      BY <2>2, Zenon
    <3> QED BY <2>2, <3>1 DEF TypeOK
  <2> QED BY <2>1, <2>2, <2>3, CallerTypes DEF CallPcs, Resting
<1>3. ASSUME NEW c \in Callers, StartCreates(c) PROVE TypeOK'
  <2>1. /\ created + 1 \in Ids /\ created' = created + 1 /\ current' = created + 1
        /\ Step(created + 1, "new") /\ Goto(c, "launch")
        /\ UNCHANGED <<mode, stop, listening, serving, puts>>
    BY <1>3, ListenerAssumption DEF StartCreates, Ids
  <2>2. /\ thread' \in [Ids -> ThreadPcs] /\ thread'[created + 1] = "new"
        /\ \A u \in Ids \ {created + 1} : thread'[u] = thread[u]
    BY <2>1, Steps DEF ThreadPcs
  <2>3. call' \in [Callers -> CallPcs]
    BY <2>1, Goes DEF CallPcs
  <2>4. \A t \in Ids : thread'[t] = "none" <=> t > created'
    <3>1. created \in Nat /\ created' = created + 1 /\ Ids \subseteq Nat
      BY <2>1 DEF Ids
    <3>2. \A t \in Ids : thread[t] = "none" <=> t > created
      BY DEF TypeOK
    <3>3. \A t \in Ids \ {created + 1} : t > created <=> t > created'
      BY <3>1
    <3>4. "new" # "none" /\ ~(created + 1 > created')
      BY <3>1
    <3> QED BY <2>2, <3>2, <3>3, <3>4
  <2>5. current' \in 0..created' /\ created' \in 0..MaxThreads /\ current' # 0
    BY <2>1, ListenerAssumption DEF Ids
  <2>6. puts' \in 0..MaxPuts /\ {mode', stop', listening', serving'} \subseteq BOOLEAN
    BY <2>1 DEF TypeOK
  <2> QED BY <2>2, <2>3, <2>4, <2>5, <2>6 DEF TypeOK, CallPcs, ThreadPcs
<1>4. ASSUME NEW c \in Callers, StartLaunches(c) PROVE TypeOK'
  <2>1. PICK pc \in Resting : Goto(c, pc)
    BY <1>4, Returns DEF StartLaunches
  <2>2. UNCHANGED <<globals, created, serving, puts>> /\ current \in Ids
    BY <1>4 DEF StartLaunches, TypeOK
  <2>3. /\ thread' \in [Ids -> ThreadPcs]
        /\ \A u \in Ids : thread'[u] = "none" <=> thread[u] = "none"
    <3>1. CASE thread[current] = "new" /\ Step(current, "enter")
      <4>1. "enter" \in ThreadPcs /\ "enter" # "none"
        BY DEF ThreadPcs, Live
      <4> QED BY <2>2, <3>1, <4>1, Steps
    <3> QED BY <1>4, <3>1 DEF StartLaunches
  <2>4. call' \in [Callers -> CallPcs] /\ \A d \in Callers : call'[d] = "launch" => current' # 0
    BY <2>1, <2>2, Goes DEF Resting, CallPcs, globals, TypeOK
  <2>5. {mode', stop', listening', serving'} \subseteq BOOLEAN /\ puts' \in 0..MaxPuts
    BY <2>2 DEF TypeOK, globals
  <2> QED BY <2>2, <2>3, <2>4, <2>5 DEF TypeOK, CallPcs, ThreadPcs, globals
<1>5. CASE Serve \/ Shutdown
  <2>1. PICK pc \in {"idle", "set stop"} : Goto(Lifespan, pc)
    BY <1>5 DEF Serve, Shutdown
  <2>2. UNCHANGED <<globals, created, thread, puts>> /\ serving' \in BOOLEAN
    BY <1>5 DEF Serve, Shutdown
  <2>3. puts' \in 0..MaxPuts
    BY <2>2 DEF TypeOK
  <2> QED BY <2>1, <2>2, <2>3, CallerTypes DEF CallPcs, globals
<1>6. ASSUME NEW t \in Ids, ListenerLoop(t) PROVE TypeOK'
  <2>1. PICK pc \in Live \cup {"ended"} : Step(t, pc)
    BY <1>6 DEF ListenerLoop, LoopEnters, LoopTests, LoopRecords, LoopWakes, LoopCommands,
                LoopLeaves, Live, InLoop
  <2>2. /\ UNCHANGED <<mode, stop, current, created, call, serving, puts>>
        /\ listening' \in BOOLEAN
    BY <1>6, Zenon DEF ListenerLoop, LoopEnters, LoopTests, LoopRecords, LoopWakes, LoopCommands,
                       LoopLeaves, globals
  <2>3. thread[t] # "none"
    BY <1>6 DEF ListenerLoop, LoopEnters, LoopTests, LoopRecords, LoopWakes, LoopCommands,
                LoopLeaves
  <2> QED BY <2>1, <2>2, <2>3, ThreadTypes
<1>7. CASE UNCHANGED vars
  BY <1>7 DEF TypeOK, vars, globals
<1> QED BY <1>1, <1>2, <1>3, <1>4, <1>5, <1>6, <1>7
        DEF Next, Calls, StartVoiceListener
LEMMA TypeInvariance == Spec => []TypeOK
  BY TypeInit, TypeNext, PTL DEF Spec

-----------------------------------------------------------------------------
(* One listener                                                            *)

\* One caller at most is inside start or stop.
LEMMA OneCaller ==
    ASSUME TypeOK, OneClient, Turns, NEW c \in Callers, NEW d \in Callers,
           call[c] # "idle", call[d] # "idle"
    PROVE  c = d
  BY TypeFacts DEF OneClient, Turns, Callers

LEMMA TurnsKept ==
    ASSUME TypeOK, Turns, NEW c \in Callers, call[c] # "idle", NEW pc \in CallPcs, Goto(c, pc),
           serving' = serving
    PROVE  Turns'
<1>1. \A d \in Callers \ {c} : call'[d] = call[d]
  BY Goes
<1>2. CASE serving
  BY <1>1, <1>2, TypeFacts DEF Turns, Callers
<1>3. CASE ~serving
  BY <1>1, <1>3, TypeFacts DEF Turns, Callers
<1> QED BY <1>2, <1>3

\* A caller's step that leaves the threads.
LEMMA SoloCall ==
    ASSUME IInv, NEW c \in Callers, NEW pc \in CallPcs, Goto(c, pc),
           UNCHANGED <<listening, current, thread>>, Turns',
           call[c] # "launch",
           pc \in Starting => pc # "launch" /\ \A t \in Ids : thread[t] \notin Live
    PROVE  Solo'
<1>1. call'[c] = pc /\ \A d \in Callers \ {c} : call'[d] = call[d]
  BY Goes DEF IInv
<1>2. OnlyCurrent'
  <2>1. \A d \in Callers : call'[d] \in Starting => \A t \in Ids : thread[t] \notin Live
    BY <1>1 DEF IInv, Solo, OnlyCurrent
  <2>2. \A d \in Callers : call[d] = "launch" => call'[d] = "launch"
    BY <1>1
  <2> QED BY <2>1, <2>2 DEF IInv, Solo, OnlyCurrent
<1>3. FlagTruthful'
  BY DEF IInv, Solo, FlagTruthful
<1> QED BY <1>2, <1>3 DEF Solo

\* A step of a thread in its loop.
LEMMA SoloThread ==
    ASSUME IInv, NEW t \in Ids, thread[t] \in Live, NEW pc \in Live \cup {"ended"}, Step(t, pc),
           UNCHANGED <<current, call, serving>>,
           listening' <=> pc \in Looping
    PROVE  Solo'
<1>1. thread'[t] = pc /\ \A u \in Ids \ {t} : thread'[u] = thread[u]
  BY Steps DEF IInv, ThreadPcs
<1>2. t = current /\ "new" \notin Live /\ "ended" \notin Live \cup {"new"}
  BY DEF IInv, Solo, OnlyCurrent, Live, InLoop
<1>3. \A u \in Ids \ {t} : thread[u] \notin Live \cup {"new"}
  BY <1>2 DEF IInv, Solo, OnlyCurrent
<1>4. OnlyCurrent'
  <2>1. \A u \in Ids : thread'[u] \in Live \cup {"new"} => u = current
    BY <1>1, <1>2, <1>3
  <2>2. \A u \in Ids : thread'[u] # "new"
    BY <1>1, <1>2, <1>3
  <2>3. \A c \in Callers : call[c] \notin Starting
    BY DEF IInv, Solo, OnlyCurrent
  <2> QED BY <2>1, <2>2, <2>3 DEF OnlyCurrent
<1>5. FlagTruthful'
  <2>1. \A u \in Ids \ {t} : thread'[u] \notin Looping
    BY <1>1, <1>3 DEF Looping, Live
  <2> QED BY <1>1, <2>1 DEF FlagTruthful
<1>6. Turns'
  BY DEF IInv, Solo, Turns
<1> QED BY <1>4, <1>5, <1>6 DEF Solo

LEMMA SoloInit == Init => Solo
<1> SUFFICES ASSUME Init PROVE Solo
  OBVIOUS
<1>1. Lifespan \in Callers /\ Requests \subseteq Callers /\ Lifespan \notin Requests
  BY ListenerAssumption DEF Callers
<1>2. Turns
  BY <1>1 DEF Init, Turns
<1>3. \A t \in Ids : thread[t] = "none"
  BY DEF Init
<1>4. \A c \in Callers : call[c] \notin Starting
  BY DEF Init, Starting
<1>5. OnlyCurrent
  BY <1>3, <1>4 DEF OnlyCurrent, Live, InLoop
<1>6. FlagTruthful
  BY <1>3 DEF Init, FlagTruthful, Looping, InLoop
<1> QED BY <1>2, <1>5, <1>6 DEF Solo

LEMMA SoloNext == OneClient /\ IInv /\ [Next]_vars => Solo'
<1> SUFFICES ASSUME OneClient, IInv, [Next]_vars PROVE Solo'
  OBVIOUS
<1>1. TypeOK /\ Turns /\ OnlyCurrent /\ FlagTruthful
  BY DEF IInv, Solo
<1>2. ASSUME NEW c \in Requests, PutMode(c) PROVE Solo'
  <2>1. PICK pc \in {"mode?", "set stop"} : Goto(c, pc)
    BY <1>2 DEF PutMode
  <2>2. /\ c \in Callers /\ c # Lifespan /\ serving /\ call[c] = "idle" /\ pc \in CallPcs
        /\ UNCHANGED <<listening, current, thread, serving>>
    BY <1>1, <1>2, TypeFacts DEF PutMode, CallPcs
  <2>3. Turns'
    <3>1. call'[Lifespan] = call[Lifespan]
      BY <1>1, <2>1, <2>2, Goes, TypeFacts
    <3> QED BY <1>1, <2>2, <3>1 DEF Turns
  <2> QED BY <2>1, <2>2, <2>3, SoloCall DEF Starting
<1>3. CASE Serve
  <2>1. /\ ~serving /\ serving' = TRUE /\ call[Lifespan] = "booted" /\ Goto(Lifespan, "idle")
        /\ UNCHANGED <<globals, thread>> /\ Lifespan \in Callers /\ "idle" \in CallPcs
    BY <1>1, <1>3, TypeFacts DEF Serve, CallPcs
  <2>2. Turns'
    BY <1>1, <2>1, Goes DEF Turns
  <2> QED BY <2>1, <2>2, SoloCall DEF Starting, globals
<1>4. CASE Shutdown
  <2>1. /\ serving /\ serving' = FALSE /\ call[Lifespan] = "idle" /\ Goto(Lifespan, "set stop")
        /\ \A c \in Requests : call[c] = "idle"
        /\ UNCHANGED <<globals, thread>> /\ Lifespan \in Callers /\ "set stop" \in CallPcs
    BY <1>1, <1>4, TypeFacts DEF Shutdown, CallPcs
  <2>2. Turns'
    <3>1. \A c \in Requests : call'[c] = call[c]
      BY <1>1, <2>1, Goes, TypeFacts
    <3> QED BY <2>1, <3>1 DEF Turns
  <2> QED BY <2>1, <2>2, SoloCall DEF Starting, globals
<1>5. ASSUME NEW c \in Callers, Calls(c) PROVE Solo'
  <2>1. PICK pc \in Resting \cup {"alive?", "clear stop", "create", "joining"} :
           /\ Goto(c, pc)
           /\ pc \in Starting => call[c] \in Starting \/ ~CurrentAlive
    <3>1. CASE StartReadsThread(c)
      <4>1. CASE CurrentAlive
        BY <3>1, <4>1, Returns DEF StartReadsThread, Resting, Starting
      <4> QED BY <3>1, <4>1 DEF StartReadsThread
    <3>2. CASE StartClearsStop(c)
      BY <3>2 DEF StartClearsStop, Starting
    <3>3. CASE StartReadsMode(c) \/ StopVoiceListener(c)
      <4>1. CASE Return(c)
        BY <4>1, Returns DEF Resting, Starting
      <4>2. ASSUME NEW pc \in {"alive?", "joining"}, Goto(c, pc)
            PROVE  \E x \in {"alive?", "joining"} : Goto(c, x) /\ x \notin Starting
        BY <4>2 DEF Starting
      <4>3. Return(c) \/ \E pc \in {"alive?", "joining"} : Goto(c, pc)
        BY <3>3 DEF StartReadsMode, StopVoiceListener, StopSets, StopReturns
      <4> QED BY <4>1, <4>2, <4>3
    <3> QED BY <1>5, <3>1, <3>2, <3>3 DEF Calls
  <2>2. /\ UNCHANGED <<listening, current, thread, serving>>
        /\ call[c] \in {"mode?", "alive?", "clear stop", "set stop", "joining"}
    BY <1>5 DEF Calls, StartReadsMode, StartReadsThread, StartClearsStop, StopVoiceListener,
                StopSets, StopReturns, globals
  <2>3. pc \in CallPcs /\ pc # "launch"
    BY DEF CallPcs, Resting
  <2>4. Turns'
    BY <1>1, <2>1, <2>2, <2>3, TurnsKept
  <2>5. pc \in Starting => \A t \in Ids : thread[t] \notin Live
    <3>1. ASSUME ~CurrentAlive, NEW t \in Ids PROVE thread[t] \notin Live
      <4>1. t # 0
        BY ZeroNoId
      <4> QED BY <1>1, <3>1, <4>1 DEF OnlyCurrent, CurrentAlive
    <3>2. ASSUME call[c] \in Starting, NEW t \in Ids PROVE thread[t] \notin Live
      BY <1>1, <3>2 DEF OnlyCurrent
    <3> QED BY <2>1, <3>1, <3>2
  <2> QED BY <2>1, <2>2, <2>3, <2>4, <2>5, SoloCall
<1>6. ASSUME NEW c \in Callers, StartCreates(c) PROVE Solo'
  <2>1. /\ created + 1 \in Ids /\ current' = created + 1 /\ call[c] = "create"
        /\ Step(created + 1, "new") /\ Goto(c, "launch")
        /\ UNCHANGED <<listening, serving>>
    BY <1>1, <1>6, TypeFacts, ListenerAssumption DEF StartCreates, Ids
  <2>2. /\ thread'[created + 1] = "new"
        /\ \A u \in Ids \ {created + 1} : thread'[u] = thread[u]
    BY <1>1, <2>1, Steps DEF ThreadPcs
  <2>3. call'[c] = "launch" /\ \A d \in Callers \ {c} : call'[d] = call[d] /\ call[d] = "idle"
    BY <1>1, <2>1, Goes, OneCaller DEF CallPcs
  <2>4. \A t \in Ids : thread[t] \notin Live /\ thread[t] # "new"
    <3>1. \A t \in Ids : thread[t] \notin Live
      BY <1>1, <2>1 DEF OnlyCurrent, Starting
    <3>2. \A d \in Callers : call[d] # "launch"
      BY <2>1, <2>3
    <3> QED BY <1>1, <3>1, <3>2 DEF OnlyCurrent
  <2>5. \A t \in Ids : thread'[t] \notin Live /\ (thread'[t] = "new" => t = current')
    BY <2>1, <2>2, <2>4 DEF Live, InLoop
  <2>6. OnlyCurrent'
    BY <2>3, <2>5 DEF OnlyCurrent
  <2>7. FlagTruthful'
    <3>1. ~listening
      BY <1>1, <2>4 DEF FlagTruthful, Looping, Live
    <3>2. \A t \in Ids : thread'[t] \notin Looping
      BY <2>5 DEF Looping, Live
    <3> QED BY <2>1, <3>1, <3>2 DEF FlagTruthful
  <2>8. Turns'
    BY <1>1, <2>1, TurnsKept DEF CallPcs
  <2> QED BY <2>6, <2>7, <2>8 DEF Solo
<1>7. ASSUME NEW c \in Callers, StartLaunches(c) PROVE Solo'
  <2>1. PICK pc \in Resting : Goto(c, pc)
    BY <1>7, Returns DEF StartLaunches
  <2>2. /\ UNCHANGED <<globals, serving>> /\ current \in Ids /\ call[c] = "launch"
        /\ pc \in CallPcs /\ pc \notin Starting
    BY <1>1, <1>7, TypeFacts DEF StartLaunches, TypeOK, CallPcs, Resting, Starting
  <2>3. \A d \in Callers : call'[d] \notin Starting
    <3>1. call'[c] = pc /\ \A d \in Callers \ {c} : call'[d] = call[d] /\ call[d] = "idle"
      BY <1>1, <2>1, <2>2, Goes, OneCaller
    <3> QED BY <2>2, <3>1 DEF Starting
  <2>4. \A t \in Ids : thread[t] \notin Live
    BY <1>1, <2>2 DEF OnlyCurrent, Starting
  <2>5. \A t \in Ids : /\ thread'[t] \notin Looping /\ thread'[t] # "new"
                       /\ thread'[t] \in Live => t = current
    <3>1. CASE thread[current] = "new"
      <4>1. /\ thread'[current] = "enter"
            /\ \A u \in Ids \ {current} : thread'[u] = thread[u]
        BY <1>1, <1>7, <2>2, <3>1, Steps DEF StartLaunches, ThreadPcs, Live
      <4>2. "enter" \notin Looping /\ Looping \subseteq Live
        BY DEF Looping, InLoop, Live
      <4> QED BY <1>1, <2>4, <4>1, <4>2 DEF OnlyCurrent
    <3>2. CASE thread[current] # "new"
      BY <1>1, <1>7, <2>4, <3>2 DEF StartLaunches, OnlyCurrent, Looping, Live
    <3> QED BY <3>1, <3>2
  <2>6. OnlyCurrent'
    BY <2>2, <2>3, <2>5 DEF OnlyCurrent, globals
  <2>7. FlagTruthful'
    <3>1. ~listening
      BY <1>1, <2>4 DEF FlagTruthful, Looping, Live
    <3> QED BY <2>2, <2>5, <3>1 DEF FlagTruthful, globals
  <2>8. Turns'
    BY <1>1, <2>1, <2>2, TurnsKept
  <2> QED BY <2>6, <2>7, <2>8 DEF Solo
<1>8. ASSUME NEW t \in Ids, ListenerLoop(t) PROVE Solo'
  <2>1. /\ thread[t] \in Live
        /\ UNCHANGED <<current, call, serving>>
    BY <1>8 DEF ListenerLoop, LoopEnters, LoopTests, LoopRecords, LoopWakes, LoopCommands,
                LoopLeaves, Live, InLoop, globals
  <2>2. CASE LoopEnters(t)
    BY <1>1, <2>1, <2>2, SoloThread DEF LoopEnters, Live, InLoop, Looping
  <2>3. CASE LoopLeaves(t)
    <3>1. "ended" \notin Looping
      BY DEF Looping, InLoop
    <3>2. Step(t, "ended") /\ listening' = FALSE
      BY <2>3 DEF LoopLeaves
    <3>3. listening' <=> "ended" \in Looping
      BY <3>1, <3>2
    <3> QED BY <2>1, <3>2, <3>3, SoloThread
  <2>4. CASE LoopTests(t) \/ LoopRecords(t) \/ LoopWakes(t) \/ LoopCommands(t)
    <3>1. PICK pc \in Looping : Step(t, pc)
      BY <2>4 DEF LoopTests, LoopRecords, LoopWakes, LoopCommands, Looping, InLoop
    <3>2. thread[t] \in Looping /\ listening' = listening
      BY <2>4 DEF LoopTests, LoopRecords, LoopWakes, LoopCommands, Looping, InLoop, globals
    <3>3. listening' = TRUE
      BY <1>1, <3>2, TypeFacts DEF FlagTruthful
    <3>4. pc \in Live
      BY DEF Looping, Live
    <3> QED BY <2>1, <3>1, <3>3, <3>4, SoloThread
  <2> QED BY <1>8, <2>2, <2>3, <2>4 DEF ListenerLoop
<1>9. CASE UNCHANGED vars
  BY <1>1, <1>9 DEF Solo, Turns, OnlyCurrent, FlagTruthful, vars, globals
<1> QED BY <1>2, <1>3, <1>4, <1>5, <1>6, <1>7, <1>8, <1>9
        DEF Next, Calls, StartVoiceListener

LEMMA Invariance == OneClient => (Spec => []IInv)
<1> SUFFICES ASSUME OneClient PROVE Spec => []IInv
  OBVIOUS
<1>1. Init => IInv
  BY TypeInit, SoloInit DEF IInv
<1>2. IInv /\ [Next]_vars => IInv'
  BY TypeNext, SoloNext DEF IInv
<1> QED BY <1>1, <1>2, PTL DEF Spec

-----------------------------------------------------------------------------
(* The theorems                                                            *)

\* However many clients set the mode at once, every variable keeps its type, and
\* a caller about to launch a thread finds one in the global.
THEOREM TypeCorrect == Spec => []TypeOK
  BY TypeInvariance

\* When one client at a time sets the mode, the microphone has one listener, whatever
\* the order of PUTs, of the lifespan and of what the threads record.
THEOREM OneListens == OneClient => (Spec => []OneListener)
<1>1. IInv => OneListener
  BY DEF IInv, Solo, OnlyCurrent, OneListener, LiveThreads
<1> QED BY <1>1, Invariance, PTL

\* Under the same hypothesis the status says "listening" just while a thread is in
\* the loop.
THEOREM StatusIsTruthful == OneClient => (Spec => []StatusTruthful)
<1>1. ASSUME IInv PROVE StatusTruthful
  <2>1. /\ \A t \in Ids : thread[t] \in Live => t = current
        /\ listening <=> \E t \in Ids : thread[t] \in Looping
    BY <1>1 DEF IInv, Solo, OnlyCurrent, FlagTruthful
  <2>2. Looping \subseteq Live /\ 0 \notin Ids
    BY ZeroNoId DEF Looping, Live
  <2> QED BY <2>1, <2>2 DEF StatusTruthful, Running, CurrentAlive, Looping
<1> QED BY <1>1, Invariance, PTL
=============================================================================
