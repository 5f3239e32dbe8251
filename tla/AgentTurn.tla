----------------------------- MODULE AgentTurn -----------------------------
(***************************************************************************)
(* One message and its reply: AgentOrchestrator.respond, from storing the  *)
(* message over the router's decision (Routing), a tool, a flow, a draft   *)
(* or the planner's loop to composing, guarding, polishing and storing the *)
(* reply.  Requests run side by side and share the stored chat, which one  *)
(* of them may wipe while others wait for the model.                       *)
(*                                                                         *)
(* A text is what the later passes can tell of it: empty, a JSON payload,  *)
(* flawed (a detector objects), a refusal, or plain.  What a flow does to  *)
(* the pending slot is in Confirmations, what a tool does to the timers in *)
(* TimerScheduler, and what the screen shows meanwhile in ActivityHub.     *)
(***************************************************************************)
EXTENDS Routing

CONSTANTS
    Requests,      \* threads that answer a message, one each
    ChatRequests,  \* those of them with mode="chat": no routing, no tools
    Messages,      \* what each request may be asked, by request
    OtherTool,     \* a tool's name the model made up
    Arguments,     \* argument dictionaries of the model's calls
    PlannerSteps,  \* model calls of the planner's loop
    MaxWipes       \* bound: how often the memory is wiped

ASSUME TurnAssumption ==
    /\ ChatRequests \subseteq Requests
    /\ DOMAIN Messages = Requests
    /\ OtherTool \notin Tools
    /\ PlannerSteps \in Nat /\ MaxWipes \in Nat

VARIABLES
    chat,   \* the ChatMessage table: role and request of each row
    wipes,  \* how often it was wiped
    turn    \* where each request is

vars == <<chat, wipes, turn>>

-----------------------------------------------------------------------------
ModelTexts == {"empty", "plain", "flawed", "refusal"}
Texts == ModelTexts \cup {"payload"}
MaxGuardPasses == 2

Entry(role, r) == [role |-> role, by |-> r]

Source(kind, facts, tool, kept) ==
    [kind |-> kind, facts |-> facts, tool |-> tool, persist |-> kept, fast |-> FALSE]
Answer(facts) == Source("answer", facts, "none", TRUE)
Unstored(facts) == Source("answer", facts, "none", FALSE)
ToolReply(kind, facts, tool, kept) == Source(kind, facts, tool, kept)
FollowUp == Source("follow_up", "plain", "none", TRUE)
Confirmation == Source("confirmation", "plain", "none", TRUE)
Confused == [Answer("plain") EXCEPT !.fast = TRUE]
NoSource == Source("none", "empty", "none", FALSE)

\* tool_executor.run: a rename, and a cancel or stop by id, leaves no trace.
Silent(d) == \/ d.name \in {"rename_timer", "rename_stopwatch"}
             \/ d.name \in {"cancel_timers", "stop_stopwatches"} /\ d.target = "one"

\* Mutant of ToolSource: the tools are silent, whatever they are pointed at.
ToolSourceByName(d, ok, out) ==
    LET quiet == d.name \in {"rename_timer", "rename_stopwatch"}
    IN  IF ok THEN ToolReply("tool_result", IF quiet THEN "empty" ELSE out, d.name, ~quiet)
              ELSE ToolReply("tool_error", IF quiet THEN "plain" ELSE "payload", d.name, ~quiet)

ToolSource(d, ok, out) ==
    LET quiet == Silent(d)
    IN  IF ok THEN ToolReply("tool_result", IF quiet THEN "empty" ELSE out, d.name, ~quiet)
              ELSE ToolReply("tool_error", IF quiet THEN "plain" ELSE "payload", d.name, ~quiet)

Idle == [pc |-> "idle", msg |-> <<>>, silent |-> FALSE, decision |-> Mode("none"), steps |-> 0, invalid |-> 0,
         ran |-> <<>>, source |-> NoSource, text |-> "empty", passes |-> 0, since |-> 0]

Init == chat = <<>> /\ wipes = 0 /\ turn = [r \in Requests |-> Idle]

\* Request r goes on as t, and leaves the chat alone.
Goes(r, t) == turn' = [turn EXCEPT ![r] = t] /\ UNCHANGED <<chat, wipes>>
\* The counters of the planner's loop end with it.
Composing(t, source) ==
    [t EXCEPT !.pc = "compose", !.source = source, !.steps = 0, !.invalid = 0]

-----------------------------------------------------------------------------
(* respond and _respond_chat: the message is stored, then routed.          *)

Receive(r) ==
    /\ turn[r].pc = "idle"
    /\ \E m \in Messages[r] :
          LET chatting == r \in ChatRequests
              silent == ~chatting /\ IsSilentCommand(m)
              drafting == CASE IsCapability(m) -> "capabilities"
                            [] ~IsCapability(m) /\ IsIdentity(m) -> "identity"
                            [] OTHER -> "draft"
          IN  /\ chat' = IF silent THEN chat ELSE Append(chat, Entry("user", r))
              /\ turn' = [turn EXCEPT ![r] = [Idle EXCEPT
                            !.pc = IF chatting THEN drafting ELSE "route",
                            !.msg = m, !.silent = silent, !.since = wipes]]
    /\ UNCHANGED wipes

\* What the router may decide, whatever runs and whether a question is open.
Asked == UNION {Messages[r] : r \in Requests}
Decided == {<<m, Decide(m, countdowns, stopwatches, pending)>> :
               m \in Asked, countdowns \in {1, 2}, stopwatches \in {1, 2}, pending \in BOOLEAN}

\* _resolve_source and the dispatchers.  A question that is still open when
\* the message is routed again leaves it to the planner.
Route(r) ==
    /\ turn[r].pc \in {"route", "reroute"}
    /\ \E routed \in Decided :
          LET t == turn[r]
              d == IF routed[2].mode = "pending" /\ t.pc = "reroute" THEN Mode("planner")
                   ELSE routed[2]
          IN  routed[1] = t.msg /\ Goes(r, CASE d.mode = "direct" -> Composing([t EXCEPT !.decision = d], Answer("plain"))
                        [] d.mode \in {"answer", "confused"} ->
                              Composing([t EXCEPT !.decision = d], Confused)
                        [] OTHER -> [t EXCEPT !.pc = d.mode, !.decision = d])

RunTool(r) ==
    /\ turn[r].pc = "tool"
    /\ \E ok \in BOOLEAN, out \in Texts \ {"empty"} :
          Goes(r, Composing(turn[r], ToolSource(turn[r].decision, ok, out)))

\* The flows' start, and the timer flow's handle_direct_request.
StartFlow(r) ==
    /\ turn[r].pc = "interaction"
    /\ LET name == turn[r].decision.name
       IN  \E s \in {Confirmation} \cup
                    (IF name = "timer" THEN {FollowUp} ELSE {}) \cup
                    (IF name \in {"reboot", "service_restart", "update"} THEN {Answer("plain")} ELSE {}) :
              Goes(r, Composing(turn[r], s))

\* The flows' handle_pending, or nobody's question any more.
AnswerPending(r) ==
    /\ turn[r].pc = "pending"
    /\ \/ \E s \in {FollowUp, Confirmation, Answer("plain"), Unstored("plain")} :
             Goes(r, Composing(turn[r], s))
       \/ Goes(r, [turn[r] EXCEPT !.pc = "reroute"])
       \/ /\ turn[r].msg = <<"yes">> /\ wipes < MaxWipes
          /\ chat' = <<>> /\ wipes' = wipes + 1
          /\ turn' = [turn EXCEPT ![r] = Composing(@, Unstored("plain"))]

\* AnswerExecutor: what Nano can do and who it is have a fallback, a draft not.
Draft(r) ==
    /\ turn[r].pc \in {"capabilities", "identity", "draft"}
    /\ \E x \in ModelTexts :
          Goes(r, Composing(turn[r],
                            Answer(IF x = "empty" /\ turn[r].pc # "draft" THEN "plain" ELSE x)))

-----------------------------------------------------------------------------
(* AgentPlanner.run: one model call and what it asks for.                  *)

\* tool_matches_request, for what is asked and called here.
Fitting == {p \in Asked \X (Tools \cup {OtherTool}) :
               ToolMatches(p[1], p[2])}

Call(tool, arguments) == [tool |-> tool, arguments |-> arguments]

\* Mutant of Finish: the model's answer is passed on as it is.
FinishUnchecked(r) ==
    \E x \in ModelTexts \ {"empty"} : Goes(r, Composing(turn[r], Answer(x)))

\* answer_intent or final: only after a tool ran.
Finish(r) ==
    LET t == turn[r]
    IN  \/ t.ran = <<>> /\ Goes(r, Composing(t, Confused))
        \/ /\ t.ran # <<>>
           /\ \E x \in ModelTexts :
                 Goes(r, Composing(t, IF x # "empty" THEN Answer(x)
                                      ELSE ToolReply("tool_result", Last(t.ran).out,
                                                     Last(t.ran).call.tool, TRUE)))

\* A reply that is no JSON object of the three forms.
Stumble(r) ==
    LET t == [turn[r] EXCEPT !.invalid = @ + 1, !.steps = @ + 1]
    IN  Goes(r, IF t.invalid >= 2 THEN Composing(t, Confused) ELSE t)

\* A call that does not fit the message or was made before is not run again.
Refuse(r) ==
    \E tool \in Tools \cup {OtherTool}, a \in Arguments :
       /\ \/ <<turn[r].msg, tool>> \notin Fitting
          \/ \E i \in DOMAIN turn[r].ran : turn[r].ran[i].call = Call(tool, a)
       /\ Goes(r, [turn[r] EXCEPT !.steps = @ + 1])

\* tool_runner.execute: a tool's output, or the payload of an error.
Execute(r) ==
    \E tool \in Tools \cup {OtherTool}, a \in Arguments, out \in Texts :
       /\ <<turn[r].msg, tool>> \in Fitting
       /\ \A i \in DOMAIN turn[r].ran : turn[r].ran[i].call # Call(tool, a)
       /\ tool = OtherTool => out = "payload"
       /\ Goes(r, [turn[r] EXCEPT !.steps = @ + 1,
                     !.ran = Append(@, [call |-> Call(tool, a), out |-> out])])

\* Mutant of Plan: one call more than the limit.
PlanOnceMore(r) ==
    /\ turn[r].pc = "planner" /\ turn[r].steps <= PlannerSteps
    /\ Finish(r) \/ Stumble(r) \/ Refuse(r) \/ Execute(r)

Plan(r) ==
    /\ turn[r].pc = "planner" /\ turn[r].steps < PlannerSteps
    /\ Finish(r) \/ Stumble(r) \/ Refuse(r) \/ Execute(r)

\* The loop is over: nothing ran, or the step limit is reported.
GiveUp(r) ==
    /\ turn[r].pc = "planner" /\ turn[r].steps = PlannerSteps
    /\ Goes(r, Composing(turn[r], IF turn[r].ran = <<>> THEN Confused ELSE Answer("plain")))

-----------------------------------------------------------------------------
(* finalize_response: compose, guard, polish, store.                       *)

\* A payload is put into words by the model, except the health report. What the
\* facts were matters to no later pass but in its prompt.
Compose(r) ==
    /\ turn[r].pc = "compose"
    /\ LET s == turn[r].source
           t == [turn[r] EXCEPT !.pc = "guard", !.source.facts = "empty"]
       IN  \/ /\ s.kind = "tool_result" /\ s.tool = "check_health"
              /\ Goes(r, [t EXCEPT !.text = "plain"])
           \/ /\ s.facts = "payload" /\ ~(s.kind = "tool_result" /\ s.tool = "check_health")
              /\ \E x \in ModelTexts :
                    Goes(r, [t EXCEPT !.text = IF x = "empty" THEN "plain" ELSE x])
           \/ /\ s.facts # "payload" /\ s.tool # "check_health"
              /\ Goes(r, [t EXCEPT !.text = s.facts])

\* detect_violations and detect_intent_mismatch.
Objected(t) == t.text = "flawed" \/ (t.source.kind = "confirmation" /\ t.text = "refusal")

\* Mutant of Enforced: the rewrites are trusted.
EnforcedAsWritten(t) == [t EXCEPT !.pc = "polish", !.passes = 0]

\* A confirmation that still refuses becomes the fixed prompt.
Enforced(t) ==
    [t EXCEPT !.pc = "polish", !.passes = 0,
              !.text = IF t.source.kind = "confirmation" /\ @ = "refusal" THEN "plain" ELSE @]

\* Mutant of Guard: rewritten until nobody objects.
GuardForever(r) ==
    /\ turn[r].pc = "guard"
    /\ LET t == turn[r]
       IN  \/ /\ t.text = "empty" \/ t.source.fast \/ ~Objected(t)
              /\ Goes(r, Enforced(t))
           \/ /\ t.text # "empty" /\ ~t.source.fast
              /\ \E x \in ModelTexts \ {"empty"} : Goes(r, [t EXCEPT !.text = x])

\* enforce_user_facing_answer: judge, rewrite, at most twice.
Guard(r) ==
    /\ turn[r].pc = "guard"
    /\ LET t == turn[r]
           Rewritten == \E x \in ModelTexts :
              Goes(r, [t EXCEPT !.passes = @ + 1, !.text = IF x = "empty" THEN @ ELSE x])
       IN  \/ /\ t.text = "empty" \/ t.source.fast
              /\ Goes(r, [t EXCEPT !.pc = "polish", !.passes = 0])
           \/ /\ t.text # "empty" /\ ~t.source.fast
              /\ \/ t.passes = MaxGuardPasses /\ Goes(r, Enforced(t))
                 \/ t.passes < MaxGuardPasses /\ Objected(t) /\ Rewritten
                 \/ /\ t.passes < MaxGuardPasses /\ ~Objected(t)
                    /\ Goes(r, Enforced(t)) \/ Rewritten

\* polish_user_facing_answer: what a tool returned, only when it repeats itself.
Polish(r) ==
    /\ turn[r].pc = "polish"
    /\ LET t == [turn[r] EXCEPT !.pc = "store"]
           exempt == \/ t.text = "empty" \/ t.source.fast
                     \/ t.source.kind \in {"follow_up", "confirmation"}
                     \/ t.source.tool \in {"analyze_system", "check_health"}
       IN  \/ (exempt \/ t.source.kind # "answer") /\ Goes(r, t)
           \/ /\ ~exempt
              /\ \E x \in ModelTexts :
                    Goes(r, [t EXCEPT !.text = IF x = "empty" THEN @ ELSE x])

Store(r) ==
    /\ turn[r].pc = "store"
    /\ chat' = IF turn[r].source.persist THEN Append(chat, Entry("assistant", r)) ELSE chat
    /\ turn' = [turn EXCEPT ![r].pc = "done"]
    /\ UNCHANGED wipes

\* The model's client or the database raises on the way: the request is answered
\* with an error, and what was stored stays.
Fail(r) ==
    /\ turn[r].pc \notin {"idle", "done", "failed"}
    /\ Goes(r, [Idle EXCEPT !.pc = "failed", !.silent = turn[r].silent, !.since = turn[r].since])

Step(r) ==
    \/ Route(r) \/ RunTool(r) \/ StartFlow(r) \/ AnswerPending(r) \/ Draft(r)
    \/ Plan(r) \/ GiveUp(r) \/ Compose(r) \/ Guard(r) \/ Polish(r) \/ Store(r) \/ Fail(r)

Next == \E r \in Requests : Receive(r) \/ Step(r)

\* A call of the model returns or raises.
Spec == Init /\ [][Next]_vars /\ \A r \in Requests : WF_vars(Step(r))

-----------------------------------------------------------------------------
Kinds == {"none", "answer", "tool_result", "tool_error", "follow_up", "confirmation"}
States == {"idle", "route", "reroute", "tool", "interaction", "pending", "capabilities",
           "identity", "draft", "planner", "compose", "guard", "polish", "store", "done", "failed"}

Routes == {"tool", "direct", "pending", "interaction", "capabilities", "identity", "answer",
           "planner", "confused"}
Flows == {"timer", "wipe", "service_restart", "update", "reboot"}
RouteDecisions ==
    [mode : Routes, name : Tools \cup Flows \cup {"none"}, target : {"none", "one", "all"}]
Sources == [kind : Kinds, facts : Texts, tool : Tools \cup Flows \cup {"none", OtherTool},
            persist : BOOLEAN, fast : BOOLEAN]
Calls == [tool : Tools \cup {OtherTool}, arguments : Arguments]
Turns == [pc : States, msg : Asked \cup {<<>>}, silent : BOOLEAN,
          decision : RouteDecisions \cup {Mode("none")}, steps : 0..PlannerSteps, invalid : 0..2,
          ran : Seq([call : Calls, out : Texts]), source : Sources, text : Texts,
          passes : 0..MaxGuardPasses, since : 0..MaxWipes]

\* Every variable holds a value of its type, and a turn stays within its loops.
TypeOK ==
    /\ chat \in Seq([role : {"user", "assistant"}, by : Requests])
    /\ wipes \in 0..MaxWipes
    /\ turn \in [Requests -> Turns]
    /\ \A r \in Requests : LET t == turn[r] IN
          /\ Len(t.ran) <= (IF t.pc = "planner" THEN t.steps ELSE PlannerSteps)
          /\ t.since <= wipes

\* A silent command that the router gave to another command's tool, because of
\* the words in the new name.
Overruled(t) == t.silent /\ t.decision.mode = "tool" /\ ~Silent(t.decision)

Stored(role, r) == \E i \in DOMAIN chat : chat[i] = Entry(role, r)

\* The chat pairs: a reply is stored after the message it answers, unless the
\* memory was wiped while the reply was being made or a silent command was
\* overruled; and a silent command that was understood stores nothing.
HistoryPairs ==
    \A r \in Requests :
       /\ \A i \in DOMAIN chat : chat[i] = Entry("assistant", r) =>
             \/ \E j \in 1..(i - 1) : chat[j] = Entry("user", r)
             \/ turn[r].since < wipes
             \/ Overruled(turn[r])
       /\ turn[r].silent /\ ~Overruled(turn[r]) =>
             ~Stored("user", r) /\ ~Stored("assistant", r)

\* What the planner answers rests on a tool that was run for this message:
\* otherwise the reply is the confused one, whatever the model wrote.
GroundedAnswer ==
    \A r \in Requests :
       turn[r].decision.mode = "planner" /\ turn[r].source # NoSource /\ ~turn[r].source.fast
          => turn[r].ran # <<>>

\* No rewrite, judge or polish makes the question of a confirmation a refusal
\* by the time it is stored.
ConfirmationNeverRefuses ==
    \A r \in Requests :
       turn[r].pc \in {"store", "done"} /\ turn[r].source.kind = "confirmation"
          => turn[r].text # "refusal"

\* Every message is answered or fails, whatever the model keeps replying.
TurnEnds == \A r \in Requests : (turn[r].pc # "idle") ~> (turn[r].pc \in {"done", "failed"})
=============================================================================
