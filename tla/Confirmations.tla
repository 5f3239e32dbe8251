---------------------------- MODULE Confirmations ----------------------------
(***************************************************************************)
(* The actions Nano takes only after the user says yes: wiping its memory, *)
(* rebooting, restarting the service, updating itself; and the one         *)
(* question that is not a confirmation, how long a timer should run.       *)
(*                                                                         *)
(* What has been asked is kept in one slot (PendingInteractionStore, the   *)
(* "default" conversation), without a lock.  Requests run in threads; the  *)
(* scheduler's update check offers an update from a thread of its own.     *)
(* One action is one access to the slot, to the update store or to git,    *)
(* and what a thread read of them stays in its state while others run.     *)
(*                                                                         *)
(* A message is abstracted to the class of the router's and the handlers'  *)
(* tests it passes.  Prompts are numbered (ghost), to tell two settings of *)
(* the slot apart; 0 stands for no version and no prompt.                  *)
(***************************************************************************)
EXTENDS Integers

CONSTANTS
    Threads,              \* threads that serve requests
    CheckerEnabled,       \* update_check_enabled: the scheduler offers updates
    RebootEnabled,        \* settings.reboot_enabled
    RestartEnabled,       \* settings.service_restart_enabled
    MaxMessages,          \* bound: messages the users send
    MaxOverlaps,          \* bound: messages sent while another request is in progress
    MaxPrompts,           \* bound: settings of the slot
    MaxVersion,           \* bound: versions on origin are 1..MaxVersion
    MaxRestarts           \* bound: restarts of the process

ASSUME ParametersAssumption ==
    /\ {CheckerEnabled, RebootEnabled, RestartEnabled} \subseteq BOOLEAN
    /\ {MaxMessages, MaxOverlaps, MaxPrompts, MaxRestarts} \subseteq Nat
    /\ MaxVersion \in Nat \ {0}
    /\ "checker" \notin Threads

VARIABLES
    slot,       \* pending_interactions._items["default"]
    prompts,    \* ghost: prompts numbered so far
    req,        \* the requests in progress, and the update check
    shown,      \* the question the user was last shown, or "none"
    sent,       \* messages sent so far
    overlaps,   \* ghost: messages sent while another request was in progress
    local, remote,                \* the checked out version and origin's
    baseline, dismissed, offered, \* UpdateStore
    rebootPending, restartPending,\* BootStore
    restarts,   \* restarts so far
    settled     \* ghost: what became of the prompts

updateVars == <<local, remote, baseline, dismissed, offered>>
bootVars == <<rebootPending, restartPending, restarts>>
counts == <<sent, overlaps>>
vars == <<slot, prompts, req, shown, counts, updateVars, bootVars, settled>>

-----------------------------------------------------------------------------
Ask == [timer |-> "ask timer", wipe |-> "ask wipe", restart |-> "ask restart",
        reboot |-> "ask reboot", update |-> "ask update"]
Kinds == DOMAIN Ask
Versions == 1..MaxVersion
NoVersion == 0
Checker == "checker"
Actors == Threads \cup {Checker}

\* "yes" and "no" are is_confirmation_message and is_rejection_message; a
\* "timer command" is any of the requests the router serves before it looks at
\* the slot; Ask[k] is a request that starts interaction k, "set timer" one for a
\* timer that says how long it runs; "chat" anything else.
Messages == {"yes", "no", "duration", "set timer", "timer command", "chat"}
            \cup {Ask[k] : k \in Kinds}

Prompt == [kind : Kinds, n : 1..MaxPrompts, version : 0..MaxVersion]
NoPrompt == [kind |-> "none", n |-> 0, version |-> NoVersion]
Empty == slot = NoPrompt

\* A thread at pc, with its message and that message's number, the question on
\* the screen when it was sent, the prompt it read and the question its reply
\* will show.
Idle == [pc |-> "idle", msg |-> "none", turn |-> 0, seen |-> "none",
         prompt |-> NoPrompt, show |-> "none"]
Goto(a, pc) == req' = [req EXCEPT ![a].pc = pc]
Answer(a, question) == req' = [req EXCEPT ![a].pc = "reply", ![a].show = question]

SetSlot(k, v) ==
    /\ prompts < MaxPrompts
    /\ prompts' = prompts + 1
    /\ slot' = [kind |-> k, n |-> prompts + 1, version |-> v]

Settle(a, outcome) ==
    settled' = settled \cup {[n |-> req[a].prompt.n, kind |-> req[a].prompt.kind,
                              outcome |-> outcome, seen |-> req[a].seen,
                              turn |-> req[a].turn]}

\* Mutant of ShouldPrompt: forgets what was dismissed.
ShouldPromptAgain(v) == v \notin {NoVersion, offered, baseline}

\* UpdateStore.should_prompt
ShouldPrompt(v) == v \notin {NoVersion, dismissed, offered, baseline}

\* check_for_updates; a fetch that fails says that there is nothing.
Behind == remote > local

\* pull_latest, when the fetch and the merge succeed: what origin has by now.
PullLatest == local' = remote

Init ==
    /\ slot = NoPrompt /\ prompts = 0
    /\ req = [a \in Actors |-> Idle]
    /\ shown = "none" /\ sent = 0 /\ overlaps = 0
    /\ local \in Versions /\ remote \in local..MaxVersion
    /\ baseline \in {remote, NoVersion}   \* record_session_baseline, fetch failed
    /\ dismissed = NoVersion /\ offered = NoVersion
    /\ rebootPending = FALSE /\ restartPending = FALSE /\ restarts = 0
    /\ settled = {}

-----------------------------------------------------------------------------
(* AgentRouter.decide                                                      *)

Send(t) ==
    /\ req[t].pc = "idle" /\ sent < MaxMessages
    /\ sent' = sent + 1
    /\ overlaps' = IF \E u \in Threads : req[u].pc # "idle" THEN overlaps + 1 ELSE overlaps
    /\ overlaps' <= MaxOverlaps
    /\ \E m \in Messages :
          req' = [req EXCEPT ![t] = [Idle EXCEPT !.pc = "decide", !.msg = m,
                                                 !.turn = sent + 1, !.seen = shown]]
    /\ UNCHANGED <<slot, prompts, shown, updateVars, bootVars, settled>>

\* Mutant of RouteTimerCommand: the slot is kept.
RouteTimerCommandKeeps(t) ==
    /\ req[t].pc \in {"decide", "redecide"} /\ req[t].msg = "timer command"
    /\ Answer(t, "none")
    /\ UNCHANGED <<slot, prompts, shown, counts, updateVars, bootVars, settled>>

\* Timer status, clear, rename, stop and cancel clear the slot, whatever it holds.
RouteTimerCommand(t) ==
    /\ req[t].pc \in {"decide", "redecide"} /\ req[t].msg = "timer command"
    /\ slot' = NoPrompt
    /\ Answer(t, "none")
    /\ UNCHANGED <<prompts, shown, counts, updateVars, bootVars, settled>>

\* A second decision that finds the slot filled again falls through to the planner.
RoutePending(t) ==
    /\ req[t].pc \in {"decide", "redecide"} /\ req[t].msg # "timer command"
    /\ ~Empty
    /\ IF req[t].pc = "decide" THEN Goto(t, "resume") ELSE Answer(t, "none")
    /\ UNCHANGED <<slot, prompts, shown, counts, updateVars, bootVars, settled>>

RouteOther(t) ==
    /\ req[t].pc \in {"decide", "redecide"} /\ req[t].msg # "timer command"
    /\ Empty
    /\ IF req[t].msg = "set timer" \/ \E k \in Kinds : req[t].msg = Ask[k]
       THEN Goto(t, "start") ELSE Answer(t, "none")
    /\ UNCHANGED <<slot, prompts, shown, counts, updateVars, bootVars, settled>>

-----------------------------------------------------------------------------
(* The start handlers                                                      *)

\* Reboot and restart answer at once when their setting is off.
Allowed(k) == /\ k = "reboot" => RebootEnabled
              /\ k = "restart" => RestartEnabled

StartRefused(t) ==
    /\ req[t].pc = "start"
    /\ \E k \in Kinds : req[t].msg = Ask[k] /\ ~Allowed(k)
    /\ Answer(t, "none")
    /\ UNCHANGED <<slot, prompts, shown, counts, updateVars, bootVars, settled>>

\* Mutant of StartPrompt: asks without remembering the question.
StartPromptForgets(t) ==
    /\ req[t].pc = "start"
    /\ \E k \in Kinds \ {"update"} :
          /\ req[t].msg = Ask[k] /\ Allowed(k)
          /\ Answer(t, k)
    /\ UNCHANGED <<slot, prompts, shown, counts, updateVars, bootVars, settled>>

\* The slot was empty when the router looked; here it is set without looking.
StartPrompt(t) ==
    /\ req[t].pc = "start"
    /\ \E k \in Kinds \ {"update"} :
          /\ req[t].msg = Ask[k] /\ Allowed(k)
          /\ SetSlot(k, NoVersion)
          /\ Answer(t, k)
    /\ UNCHANGED <<shown, counts, updateVars, bootVars, settled>>

\* TimerInteractionHandler.handle_direct_request: start_timer, which may fail; the
\* slot is cleared in either case, also of what was asked since the router looked.
StartTimer(t) ==
    /\ req[t].pc = "start" /\ req[t].msg = "set timer"
    /\ Goto(t, "clear after")
    /\ UNCHANGED <<slot, prompts, shown, counts, updateVars, bootVars, settled>>

\* UpdateInteractionHandler.start: check_for_updates, then should_prompt.  When
\* it says no, the answer has the prompt's words but nothing is pending.
StartUpdate(t) ==
    /\ req[t].pc = "start" /\ req[t].msg = Ask["update"]
    /\ \/ Answer(t, "none")                       \* up to date, or the fetch failed
       \/ /\ Behind /\ ~ShouldPrompt(remote)
          /\ Answer(t, "update")
       \/ /\ Behind /\ ShouldPrompt(remote)
          /\ req' = [req EXCEPT ![t].pc = "offer", ![t].prompt.version = remote]
    /\ UNCHANGED <<slot, prompts, shown, counts, updateVars, bootVars, settled>>

\* check_for_available_updates, the scheduler's interval job.
CheckForUpdates ==
    /\ CheckerEnabled /\ req[Checker].pc = "idle"
    /\ Behind /\ ShouldPrompt(remote)
    /\ req' = [req EXCEPT ![Checker].pc = "offer", ![Checker].prompt.version = remote]
    /\ UNCHANGED <<slot, prompts, shown, counts, updateVars, bootVars, settled>>

\* offer_update: leaves the slot alone when it is taken.  The caller shows the
\* prompt in either case, except for the scheduler's job.
OfferLooks(a) ==
    /\ req[a].pc = "offer"
    /\ IF Empty THEN Goto(a, "mark")
       ELSE IF a = Checker THEN req' = [req EXCEPT ![a] = Idle]
       ELSE Answer(a, "update")
    /\ UNCHANGED <<slot, prompts, shown, counts, updateVars, bootVars, settled>>

OfferMarks(a) ==
    /\ req[a].pc = "mark"
    /\ offered' = req[a].prompt.version
    /\ Goto(a, "set")
    /\ UNCHANGED <<slot, prompts, shown, counts, local, remote, baseline, dismissed,
                   bootVars, settled>>

OfferSets(a) ==
    /\ req[a].pc = "set"
    /\ SetSlot("update", req[a].prompt.version)
    /\ Answer(a, "update")
    /\ UNCHANGED <<shown, counts, updateVars, bootVars, settled>>

-----------------------------------------------------------------------------
(* The pending handlers                                                    *)

\* The dispatcher reads the slot again and hands the prompt to its handler.
ResumeGone(t) ==
    /\ req[t].pc = "resume" /\ Empty
    /\ Goto(t, "drop")
    /\ UNCHANGED <<slot, prompts, shown, counts, updateVars, bootVars, settled>>

\* _dispatch clears the slot before it decides again.
DropPending(t) ==
    /\ req[t].pc = "drop"
    /\ slot' = NoPrompt
    /\ Goto(t, "redecide")
    /\ UNCHANGED <<prompts, shown, counts, updateVars, bootVars, settled>>

Accepts(m, k) == m \in IF k = "timer" THEN {"duration", "set timer"} ELSE {"yes"}

\* Neither a refusal nor what was asked for: ask again, keep the slot.
ResumeAsksAgain(t) ==
    /\ req[t].pc = "resume" /\ ~Empty
    /\ req[t].msg # "no" /\ ~Accepts(req[t].msg, slot.kind)
    /\ Answer(t, slot.kind)
    /\ UNCHANGED <<slot, prompts, shown, counts, updateVars, bootVars, settled>>

ResumeSettles(t) ==
    /\ req[t].pc = "resume" /\ ~Empty
    /\ \/ /\ req[t].msg = "no"
          /\ req' = [req EXCEPT ![t].pc = "reject", ![t].prompt = slot]
       \/ /\ Accepts(req[t].msg, slot.kind)
          /\ req' = [req EXCEPT ![t].prompt = slot,
                                ![t].pc = IF slot.kind = "wipe" THEN "act" ELSE "clear"]
    /\ UNCHANGED <<slot, prompts, shown, counts, updateVars, bootVars, settled>>

\* Mutant of RejectPrompt: what was refused stays open.
RejectPromptKeeps(t) ==
    /\ req[t].pc = "reject"
    /\ Settle(t, "rejected")
    /\ IF req[t].prompt.kind = "update" THEN Goto(t, "dismiss") ELSE Answer(t, "none")
    /\ UNCHANGED <<slot, prompts, shown, counts, updateVars, bootVars>>

RejectPrompt(t) ==
    /\ req[t].pc = "reject"
    /\ slot' = NoPrompt
    /\ Settle(t, "rejected")
    /\ IF req[t].prompt.kind = "update" THEN Goto(t, "dismiss") ELSE Answer(t, "none")
    /\ UNCHANGED <<prompts, shown, counts, updateVars, bootVars>>

DismissUpdate(t) ==
    /\ req[t].pc = "dismiss"
    /\ dismissed' = req[t].prompt.version /\ offered' = NoVersion
    /\ Answer(t, "none")
    /\ UNCHANGED <<slot, prompts, shown, counts, local, remote, baseline, bootVars, settled>>

\* Every handler but the wipe's clears the slot before it acts ...
ClearPrompt(t) ==
    /\ req[t].pc = "clear"
    /\ slot' = NoPrompt
    /\ Goto(t, "act")
    /\ UNCHANGED <<prompts, shown, counts, updateVars, bootVars, settled>>

\* ... the wipe's clears it after, and so does a started timer, once more.
ClearAfter(t) ==
    /\ req[t].pc = "clear after"
    /\ slot' = NoPrompt
    /\ Answer(t, "none")
    /\ UNCHANGED <<prompts, shown, counts, updateVars, bootVars, settled>>

\* wipe_database and the proactive store; start_timer, which may fail.
ActHere(t) ==
    /\ req[t].pc = "act" /\ req[t].prompt.kind \in {"wipe", "timer"}
    /\ Settle(t, "done")
    /\ Goto(t, "clear after")
    /\ UNCHANGED <<slot, prompts, shown, counts, updateVars, bootVars>>

\* Mutant of ScheduleRestart: the settings are not looked at.
ScheduleRestartAlways(kind) ==
    /\ rebootPending' = (rebootPending \/ kind = "reboot")
    /\ restartPending' = (restartPending \/ kind = "restart")
    /\ UNCHANGED restarts

\* schedule_reboot, schedule_service_restart: nothing when disabled.
ScheduleRestart(kind) ==
    /\ rebootPending' = (rebootPending \/ (kind = "reboot" /\ RebootEnabled))
    /\ restartPending' = (restartPending \/ (kind = "restart" /\ RestartEnabled))
    /\ UNCHANGED restarts

ActRestart(t) ==
    /\ req[t].pc = "act" /\ req[t].prompt.kind \in {"reboot", "restart"}
    /\ Settle(t, "done")
    /\ ScheduleRestart(req[t].prompt.kind)
    /\ Answer(t, "none")
    /\ UNCHANGED <<slot, prompts, shown, counts, updateVars>>

\* What is pulled need not be what was offered; when it fails nothing is done.
ActUpdate(t) ==
    /\ req[t].pc = "act" /\ req[t].prompt.kind = "update"
    /\ Settle(t, "done")
    /\ \/ UNCHANGED <<local, bootVars>>
       \/ PullLatest /\ ScheduleRestart("restart")
    /\ Answer(t, "none")
    /\ UNCHANGED <<slot, prompts, shown, counts, remote, baseline, dismissed, offered>>

\* The reply reaches the user; offer_update's prompt is written and announced.
Reply(a) ==
    /\ req[a].pc = "reply"
    /\ shown' = req[a].show
    /\ req' = [req EXCEPT ![a] = Idle]
    /\ UNCHANGED <<slot, prompts, counts, updateVars, bootVars, settled>>

-----------------------------------------------------------------------------
Push ==
    /\ remote < MaxVersion
    /\ remote' = remote + 1
    /\ UNCHANGED <<slot, prompts, req, shown, counts, local, baseline, dismissed, offered,
                   bootVars, settled>>

\* A new process: the stores are empty, the baseline is what origin has.
Restart ==
    /\ restarts < MaxRestarts
    /\ restarts' = restarts + 1
    /\ slot' = NoPrompt
    /\ req' = [a \in Actors |-> Idle]
    /\ baseline' \in {remote, NoVersion}
    /\ dismissed' = NoVersion /\ offered' = NoVersion
    /\ rebootPending' = FALSE /\ restartPending' = FALSE
    /\ UNCHANGED <<prompts, shown, counts, local, remote, settled>>

Route(t) == RouteTimerCommand(t) \/ RoutePending(t) \/ RouteOther(t)
Start(t) == StartRefused(t) \/ StartPrompt(t) \/ StartTimer(t) \/ StartUpdate(t)
Offer(a) == OfferLooks(a) \/ OfferMarks(a) \/ OfferSets(a)
Resume(t) == ResumeGone(t) \/ DropPending(t) \/ ResumeAsksAgain(t) \/ ResumeSettles(t)
Act(t) == \/ RejectPrompt(t) \/ DismissUpdate(t) \/ ClearPrompt(t) \/ ClearAfter(t)
          \/ ActHere(t) \/ ActRestart(t) \/ ActUpdate(t)

Next ==
    \/ \E t \in Threads : Send(t) \/ Route(t) \/ Start(t) \/ Resume(t) \/ Act(t)
    \/ CheckForUpdates
    \/ \E a \in Actors : Offer(a) \/ Reply(a)
    \/ Push \/ Restart

Spec == Init /\ [][Next]_vars

-----------------------------------------------------------------------------
Pcs == {"idle", "decide", "redecide", "start", "offer", "mark", "set", "resume", "drop",
        "reject", "dismiss", "clear", "act", "clear after", "reply"}
Questions == Kinds \cup {"none"}
Request ==
    [pc : Pcs, msg : Messages \cup {"none"}, turn : 0..MaxMessages, seen : Questions,
     prompt : [kind : Questions, n : 0..MaxPrompts, version : 0..MaxVersion],
     show : Questions]

\* Every variable holds a value of its type; a reboot or restart is pending
\* only when its setting allows it.
TypeOK ==
    /\ slot \in Prompt \cup {NoPrompt} /\ prompts \in 0..MaxPrompts
    /\ req \in [Actors -> Request]
    /\ shown \in Questions /\ sent \in 0..MaxMessages /\ overlaps \in 0..MaxOverlaps
    /\ local \in Versions /\ remote \in local..MaxVersion
    /\ {baseline, dismissed, offered} \subseteq 0..MaxVersion
    /\ rebootPending \in {FALSE, RebootEnabled}
    /\ restartPending \in {FALSE, RestartEnabled}
    /\ restarts \in 0..MaxRestarts
    /\ settled \subseteq [n : 1..MaxPrompts, kind : Kinds, seen : Questions,
                          turn : 1..MaxMessages, outcome : {"done", "rejected"}]

\* What the user confirms is what the user was last asked: an action is taken
\* only on a yes (for a timer, a duration) sent while its own question was the
\* last thing shown.  The exception is an update that the scheduler offers while
\* another question is being asked: these two can be taken for each other.  As
\* in the next two, no message was sent while another was being answered.
ConsentMatches ==
    \A s \in settled : overlaps = 0 /\ s.outcome = "done" =>
       s.seen = s.kind \/ (CheckerEnabled /\ "update" \in {s.kind, s.seen})

\* While the user looks at a question other than the update's and nothing is in
\* progress, the slot holds that question, so that an answer reaches it; or an
\* update offered over it.  A restart forgets every question.
PromptHeld ==
    (\A a \in Actors : req[a].pc = "idle") /\ shown \in Kinds \ {"update"}
    /\ restarts = 0 /\ overlaps = 0
    => slot.kind \in {shown, "update"}

\* A request does not offer a version the user has dismissed in this process.
DismissalHolds ==
    [][\A t \in Threads :
          OfferSets(t) /\ overlaps = 0 => req[t].prompt.version # dismissed]_vars

\* Once a question has been answered no later message reaches it, also when two
\* requests answer, ask and drop questions side by side.  Only the wipe's stays
\* open until the memory is empty and its request clears the slot.
AnsweredLeaves ==
    (\E s \in settled : s.n = slot.n) =>
       /\ slot.kind = "wipe"
       /\ \E t \in Threads : req[t].pc = "clear after" /\ req[t].prompt = slot

\* "After confirmation, Nano can wipe conversation memory ..." (README): the
\* memory is wiped on a yes to the wipe's own question, never on one given to
\* another question on the screen.
ConsentNotCrossed ==
    \A s \in settled : s.kind = "wipe" /\ s.outcome = "done" => s.seen \in {"wipe", "none"}
=============================================================================
