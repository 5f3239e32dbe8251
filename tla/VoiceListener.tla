---------------------------- MODULE VoiceListener ----------------------------
(***************************************************************************)
(* Wake-word listening on the Pi: the mode the browser sets, and the       *)
(* daemon thread that records clips until it sees the stop event.          *)
(*                                                                         *)
(* The module globals of voice/listener.py and voice/mode.py are read and  *)
(* written without a lock, one access an action: requests run in a thread  *)
(* pool, and the lifespan starts and stops the listener as well.  A clip   *)
(* is abstracted to what the loop does about it.  Thread objects are       *)
(* numbered in the order they are created; 0 is None.                      *)
(***************************************************************************)
EXTENDS Integers

CONSTANTS
    Requests,      \* threads that serve PUT /api/voice/mode
    Lifespan,      \* the thread that runs the lifespan of main.py
    HandlersFail,  \* handle_wake or handle_command may raise
    MaxPuts,       \* bound: PUTs
    MaxThreads     \* bound: listener threads ever created

ASSUME ListenerAssumption ==
    /\ Lifespan \notin Requests /\ HandlersFail \in BOOLEAN
    /\ MaxPuts \in Nat /\ MaxThreads \in Nat

VARIABLES
    mode,       \* _VOICE_MODE_ENABLED
    stop,       \* _stop_event
    listening,  \* _listening
    current,    \* _listener_thread
    created,    \* thread objects created so far
    thread,     \* where each stands in _listener_loop
    call,       \* where each caller stands in start and stop
    serving,    \* between the two halves of the lifespan
    puts        \* PUTs so far

globals == <<mode, stop, listening, current>>
vars == <<globals, created, thread, call, serving, puts>>

-----------------------------------------------------------------------------
Ids == 1..MaxThreads
Callers == Requests \cup {Lifespan}

\* Where a thread is alive (Thread.is_alive), and where it is in its loop.
InLoop == {"test stop", "record", "wake", "command"}
Live == InLoop \cup {"enter", "leave"}
Alive(t) == t # 0 /\ thread[t] \in Live
CurrentAlive == current # 0 /\ thread[current] \in Live
LiveThreads == {t \in Ids : thread[t] \in Live}

\* is_local_listener_running
Running == listening /\ CurrentAlive

Goto(c, pc) == call' = [call EXCEPT ![c] = pc]
Step(t, pc) == thread' = [thread EXCEPT ![t] = pc]

\* init_voice_mode_from_settings; the lifespan starts the listener if it is on.
Init ==
    /\ mode \in BOOLEAN /\ stop = FALSE /\ listening = FALSE
    /\ current = 0 /\ created = 0
    /\ thread = [t \in Ids |-> "none"]
    /\ call = [c \in Callers |-> IF c = Lifespan /\ mode THEN "mode?" ELSE "idle"]
    /\ serving = ~mode
    /\ puts = 0

-----------------------------------------------------------------------------
(* update_voice_mode and the lifespan.                                     *)

PutMode(c) ==
    /\ serving /\ call[c] = "idle" /\ puts < MaxPuts
    /\ puts' = puts + 1
    /\ mode' \in BOOLEAN
    /\ Goto(c, IF mode' THEN "mode?" ELSE "set stop")
    /\ UNCHANGED <<stop, listening, current, created, thread, serving>>

\* The first half of the lifespan is over.
Serve ==
    /\ ~serving /\ call[Lifespan] = "booted"
    /\ serving' = TRUE
    /\ Goto(Lifespan, "idle")
    /\ UNCHANGED <<globals, created, thread, puts>>

Shutdown ==
    /\ serving /\ call[Lifespan] = "idle" /\ \A c \in Requests : call[c] = "idle"
    /\ serving' = FALSE
    /\ Goto(Lifespan, "set stop")
    /\ UNCHANGED <<globals, created, thread, puts>>

Return(c) == Goto(c, IF c # Lifespan THEN "idle"
                     ELSE IF call[c] = "joining" THEN "down" ELSE "booted")

-----------------------------------------------------------------------------
(* start_voice_listener.                                                   *)

StartReadsMode(c) ==
    /\ call[c] = "mode?"
    /\ IF mode THEN Goto(c, "alive?") ELSE Return(c)
    /\ UNCHANGED <<globals, created, thread, serving, puts>>

\* Mutant of StartReadsThread: a thread that is there is not looked for.
StartAnyway(c) ==
    /\ call[c] = "alive?"
    /\ Goto(c, "clear stop")
    /\ UNCHANGED <<globals, created, thread, serving, puts>>

\* Nothing to do when the thread is alive, also one that has been told to stop.
StartReadsThread(c) ==
    /\ call[c] = "alive?"
    /\ IF CurrentAlive THEN Return(c) ELSE Goto(c, "clear stop")
    /\ UNCHANGED <<globals, created, thread, serving, puts>>

\* Mutant of StartClearsStop: the event stays set.
StartKeepsStop(c) ==
    /\ call[c] = "clear stop"
    /\ Goto(c, "create")
    /\ UNCHANGED <<globals, created, thread, serving, puts>>

StartClearsStop(c) ==
    /\ call[c] = "clear stop"
    /\ stop' = FALSE
    /\ Goto(c, "create")
    /\ UNCHANGED <<mode, listening, current, created, thread, serving, puts>>

\* Mutant of StartCreates: a local variable, the global is not declared.
StartCreatesLocal(c) ==
    /\ call[c] = "create" /\ created < MaxThreads
    /\ created' = created + 1
    /\ Step(created + 1, "new")
    /\ Goto(c, "launch")
    /\ UNCHANGED <<globals, serving, puts>>

StartCreates(c) ==
    /\ call[c] = "create" /\ created < MaxThreads
    /\ created' = created + 1 /\ current' = created + 1
    /\ Step(created + 1, "new")
    /\ Goto(c, "launch")
    /\ UNCHANGED <<mode, stop, listening, serving, puts>>

\* The global is read again: Thread.start raises when it was started before.
StartLaunches(c) ==
    /\ call[c] = "launch"
    /\ IF thread[current] = "new" THEN Step(current, "enter") ELSE UNCHANGED thread
    /\ Return(c)
    /\ UNCHANGED <<globals, created, serving, puts>>

StartVoiceListener(c) ==
    \/ StartReadsMode(c) \/ StartReadsThread(c) \/ StartClearsStop(c)
    \/ StartCreates(c) \/ StartLaunches(c)

-----------------------------------------------------------------------------
(* stop_voice_listener.                                                    *)

\* Mutant of StopSets: joins without setting the event.
StopJoinsOnly(c) ==
    /\ call[c] = "set stop"
    /\ Goto(c, "joining")
    /\ UNCHANGED <<globals, created, thread, serving, puts>>

StopSets(c) ==
    /\ call[c] = "set stop"
    /\ stop' = TRUE
    /\ Goto(c, "joining")
    /\ UNCHANGED <<mode, listening, current, created, thread, serving, puts>>

\* join(timeout=2.0): the thread has ended, or not.
StopReturns(c) ==
    /\ call[c] = "joining"
    /\ Return(c)
    /\ UNCHANGED <<globals, created, thread, serving, puts>>

StopVoiceListener(c) == StopSets(c) \/ StopReturns(c)

-----------------------------------------------------------------------------
(* _listener_loop.                                                         *)

LoopEnters(t) ==
    /\ thread[t] = "enter"
    /\ listening' = TRUE
    /\ Step(t, "test stop")
    /\ UNCHANGED <<mode, stop, current, created, call, serving, puts>>

LoopTests(t) ==
    /\ thread[t] = "test stop"
    /\ Step(t, IF stop THEN "leave" ELSE "record")
    /\ UNCHANGED <<globals, created, call, serving, puts>>

\* No wake phrase, and every failure to record or to transcribe: once more.
LoopRecords(t) ==
    /\ thread[t] = "record"
    /\ \/ Step(t, "test stop")
       \/ Step(t, "wake")
    /\ UNCHANGED <<globals, created, call, serving, puts>>

\* handle_wake, then the command of the same clip or of a second one, whose
\* SpeechToTextError ends the turn; or an exception that ends the loop.
LoopWakes(t) ==
    /\ thread[t] = "wake"
    /\ \/ Step(t, "command")
       \/ Step(t, "test stop")
       \/ HandlersFail /\ Step(t, "leave")
    /\ UNCHANGED <<globals, created, call, serving, puts>>

LoopCommands(t) ==
    /\ thread[t] = "command"
    /\ \/ Step(t, "test stop")
       \/ HandlersFail /\ Step(t, "leave")
    /\ UNCHANGED <<globals, created, call, serving, puts>>

\* Mutant of LoopLeaves: no finally.
LoopLeavesListening(t) ==
    /\ thread[t] = "leave"
    /\ Step(t, "ended")
    /\ UNCHANGED <<globals, created, call, serving, puts>>

LoopLeaves(t) ==
    /\ thread[t] = "leave"
    /\ listening' = FALSE
    /\ Step(t, "ended")
    /\ UNCHANGED <<mode, stop, current, created, call, serving, puts>>

ListenerLoop(t) ==
    \/ LoopEnters(t) \/ LoopTests(t) \/ LoopRecords(t) \/ LoopWakes(t)
    \/ LoopCommands(t) \/ LoopLeaves(t)

Next ==
    \/ \E c \in Requests : PutMode(c)
    \/ \E c \in Callers : StartVoiceListener(c) \/ StopVoiceListener(c)
    \/ Serve \/ Shutdown
    \/ \E t \in Ids : ListenerLoop(t)

\* Threads run; arecord records for the seconds it is told.  Nobody has to
\* send a PUT or to shut the service down.
Fairness ==
    /\ \A c \in Callers : WF_vars(StartVoiceListener(c) \/ StopVoiceListener(c))
    /\ \A t \in Ids : WF_vars(ListenerLoop(t))
    /\ WF_vars(Serve)

Spec == Init /\ [][Next]_vars /\ Fairness

-----------------------------------------------------------------------------
\* Every variable holds a value of its type, and the thread a caller is about
\* to launch exists.
TypeOK ==
    /\ {mode, stop, listening, serving} \subseteq BOOLEAN
    /\ current \in 0..created /\ created \in 0..MaxThreads /\ puts \in 0..MaxPuts
    /\ thread \in [Ids -> Live \cup {"none", "new", "ended"}]
    /\ call \in [Callers -> {"idle", "booted", "down", "mode?", "alive?", "clear stop", "create",
                             "launch", "set stop", "joining"}]
    /\ \A t \in Ids : thread[t] = "none" <=> t > created
    /\ \A c \in Callers : call[c] = "launch" => current # 0

\* One microphone, one listener: never two threads in the loop at once.
OneListener == \A t, u \in LiveThreads : t = u

\* GET /status tells the truth: it says "listening" just while a thread
\* is in the loop, whatever the modes and clips before.
StatusTruthful == Running <=> \E t \in Ids : thread[t] \in InLoop \cup {"leave"}

\* "disabling may take up to one clip" (stop_voice_listener): once the mode
\* stays off, listening ends for good.
DisabledFallsSilent == <>[]~mode => <>[](LiveThreads = {})

\* "Enable or disable Pi-side wake-word listening." (update_voice_mode): a PUT
\* that enables it while no thread is left leads to a thread that records, unless
\* it is disabled or the service shut down meanwhile.
EnabledFromRest ==
    \A c \in Callers :
       (call[c] = "alive?" /\ LiveThreads = {}) ~> (~mode \/ ~serving \/ \E t \in Ids : thread[t] = "record")

\* "Enable or disable Pi-side wake-word listening." (update_voice_mode): once
\* the mode stays on, the listener is running.
EnabledListens == <>[](mode /\ serving) => <>Running /\ <>[](LiveThreads # {})
=============================================================================
