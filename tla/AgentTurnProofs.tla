--------------------------- MODULE AgentTurnProofs ---------------------------
(***************************************************************************)
(* The safety of a turn, whatever the messages, the requests side by side, *)
(* the limit of the planner and the number of wipes.  Nearly all of it is  *)
(* about one request (Fine), since the others touch nothing of it but the  *)
(* chat; what the chat holds of a request is a part of its own (Paired).   *)
(* What the router decides comes from RoutingProofs.                       *)
(***************************************************************************)
EXTENDS AgentTurn, RoutingProofs

\* A turn before and after the reply's facts are there.
Early == {"idle", "route", "reroute", "tool", "interaction", "pending", "capabilities",
          "identity", "draft", "failed"}
Late == {"compose", "guard", "polish", "store", "done"}

\* The planner's loop: nothing ran before it, and its answer rests on a tool.
Ran(t) ==
    /\ Len(t.ran) <= (IF t.pc = "planner" THEN t.steps ELSE PlannerSteps)
    /\ t.pc \in Early => t.ran = <<>> /\ t.decision.mode # "planner"
    /\ t.pc \notin Late => t.source = NoSource
    /\ t.decision.mode = "planner" /\ t.source # NoSource /\ ~t.source.fast => t.ran # <<>>

\* A confirmation passes the guard, and is no refusal after it.
Confirms(t) ==
    t.source.kind = "confirmation" =>
       ~t.source.fast /\ (t.pc \in {"polish", "store", "done"} => t.text # "refusal")

\* A silent command is decided as a tool, whose reply is stored only if the
\* router took the command for another.
Hushed(t) ==
    t.silent =>
       /\ t.pc \in {"route", "tool", "failed"} \cup Late
       /\ t.pc = "route" => IsSilentCommand(t.msg)
       /\ t.pc \in {"tool"} \cup Late => t.decision.mode = "tool"
       /\ t.pc \in Late => Overruled(t) \/ ~t.source.persist

Fine(t) == t \in Turns /\ Ran(t) /\ Confirms(t) /\ Hushed(t)

\* What the chat holds of request r.
Paired(r) ==
    LET t == turn[r]
    IN  /\ t.since <= wipes
        /\ t.pc # "idle" /\ ~t.silent /\ t.since = wipes => Stored("user", r)
        /\ \A i \in DOMAIN chat : chat[i] = Entry("user", r) => t.pc # "idle" /\ ~t.silent
        /\ \A i \in DOMAIN chat : chat[i] = Entry("assistant", r) =>
              /\ t.pc = "done"
              /\ t.silent => Overruled(t)
              /\ t.silent \/ t.since < wipes \/ \E j \in 1..(i - 1) : chat[j] = Entry("user", r)

IInv ==
    /\ chat \in Seq([role : {"user", "assistant"}, by : Requests])
    /\ wipes \in 0..MaxWipes
    /\ turn \in [Requests -> Turns]
    /\ \A r \in Requests : Fine(turn[r]) /\ Paired(r)

-----------------------------------------------------------------------------
(* The router's decisions                                                  *)

LEMMA TimerDecision ==
    ASSUME NEW m, NEW c, NEW s, NEW i \in 1..10
    PROVE  TimerRules(m, c, s)[i].decision \in RouteDecisions
<1> DEFINE T == TimerRules(m, c, s)
<1>1. /\ T[1].decision = Tool("list_timers", "none")
      /\ T[2].decision = Tool("clear_all_timers", "all")
      /\ T[3].decision = Tool("rename_stopwatch", "one")
      /\ T[4].decision = Tool("rename_timer", "one")
      /\ T[5].decision = Tool("stop_stopwatches", "one")
      /\ T[6].decision = Mode("direct")
      /\ T[7].decision = Tool("stop_stopwatches", "all")
      /\ T[8].decision = Tool("cancel_timers", "one")
      /\ T[9].decision = Mode("direct")
      /\ T[10].decision = Tool("cancel_timers", "all")
  BY DEF TimerRules, Rule
<1>2. \A name \in TimerTools, target \in {"none", "one", "all"} : Tool(name, target) \in RouteDecisions
  BY DEF Tool, Decision, RouteDecisions, Routes, Tools
<1>3. Mode("direct") \in RouteDecisions
  BY DEF Mode, Decision, RouteDecisions, Routes
<1> HIDE DEF T
<1>4. \A j \in {1, 2, 3, 4, 5, 6, 7, 8, 9, 10} : T[j].decision \in RouteDecisions
  BY <1>1, <1>2, <1>3 DEF TimerTools, FlowOwned
<1> QED BY <1>4 DEF T

LEMMA OtherDecision ==
    ASSUME NEW m, NEW i \in 1..14
    PROVE  OtherRules(m)[i].decision \in RouteDecisions
<1> DEFINE O == OtherRules(m)
<1>1. /\ O[1].decision = Tool("start_stopwatch", "none")
      /\ O[2].decision = Interaction("timer")
      /\ O[3].decision = Interaction("wipe")
      /\ O[4].decision = Interaction("service_restart")
      /\ O[5].decision = Interaction("update")
      /\ O[6].decision = Interaction("reboot")
      /\ O[7].decision = Tool("check_health", "none")
      /\ O[8].decision = Tool("analyze_system", "none")
      /\ O[9].decision = Tool("list_internal_notes", "none")
      /\ O[10].decision = Mode("capabilities")
      /\ O[11].decision = Mode("identity")
      /\ O[12].decision = Mode("answer")
      /\ O[13].decision = Mode("planner")
      /\ O[14].decision = Mode("confused")
  BY DEF OtherRules, Rule
<1>2. \A name \in {"start_stopwatch", "check_health", "analyze_system", "list_internal_notes"} :
         Tool(name, "none") \in RouteDecisions
  BY DEF Tool, Decision, RouteDecisions, Routes, Tools, TimerTools, FlowOwned
<1>3. \A name \in Flows : Interaction(name) \in RouteDecisions
  BY DEF Interaction, Decision, RouteDecisions, Routes
<1>4. \A mode \in Routes : Mode(mode) \in RouteDecisions
  BY DEF Mode, Decision, RouteDecisions
<1> HIDE DEF O
<1>5. \A j \in {1, 2, 3, 4, 5, 6, 7, 8, 9, 10, 11, 12, 13, 14} : O[j].decision \in RouteDecisions
  BY <1>1, <1>2, <1>3, <1>4 DEF Flows, Routes
<1> QED BY <1>5 DEF O

\* What a request may be told by the router.
LEMMA Routed ==
    ASSUME NEW routed \in Decided
    PROVE  /\ routed[2] \in RouteDecisions
           /\ IsSilentCommand(routed[1]) => routed[2].mode = "tool"
<1>1. PICK m \in Asked, c \in {1, 2}, s \in {1, 2}, p \in BOOLEAN :
         routed = <<m, Decide(m, c, s, p)>>
  BY DEF Decided
<1>2. routed[1] = m /\ routed[2] = Decide(m, c, s, p)
  BY <1>1
<1>3. Mode("pending") \in RouteDecisions
  BY DEF Mode, Decision, RouteDecisions, Routes
<1>4. Decide(m, c, s, p) \in RouteDecisions
  BY <1>3, DecidedBy, TimerDecision, OtherDecision
<1>5. IsSilentCommand(m) => Decide(m, c, s, p).mode = "tool"
  BY SilentCommandIsTool
<1> QED BY <1>2, <1>4, <1>5

-----------------------------------------------------------------------------
(* A turn of its own                                                       *)

LEMMA SourceType ==
    ASSUME NEW kind \in Kinds, NEW facts \in Texts,
           NEW tool \in Tools \cup Flows \cup {"none", OtherTool}, NEW kept \in BOOLEAN
    PROVE  Source(kind, facts, tool, kept) \in Sources
  BY DEF Source, Sources

LEMMA SourcesAre ==
    /\ \A x \in Texts : Answer(x) \in Sources /\ Unstored(x) \in Sources
    /\ FollowUp \in Sources /\ Confirmation \in Sources /\ NoSource \in Sources
    /\ Confused \in Sources /\ Confused.fast /\ Confused.kind = "answer"
<1>1. \A x \in Texts : Answer(x) \in Sources /\ Unstored(x) \in Sources
  BY DEF Answer, Unstored, Source, Sources, Kinds
<1>2. FollowUp \in Sources /\ Confirmation \in Sources /\ NoSource \in Sources
  BY DEF FollowUp, Confirmation, NoSource, Source, Sources, Kinds, Texts, ModelTexts
<1>3. Answer("plain") \in Sources /\ Answer("plain").kind = "answer"
  BY <1>1 DEF Texts, ModelTexts, Answer, Source
<1>4. Confused \in Sources /\ Confused.fast /\ Confused.kind = "answer"
  BY <1>3 DEF Confused, Sources
<1> QED BY <1>1, <1>2, <1>4

LEMMA IdleType == Idle \in Turns
<1>1. NoSource \in Sources
  BY SourcesAre
<1>2. <<>> \in Seq([call : Calls, out : Texts])
  OBVIOUS
<1>3. /\ "idle" \in States /\ "empty" \in Texts /\ 0 \in 0..PlannerSteps /\ 0 \in 0..2
      /\ 0 \in 0..MaxGuardPasses /\ 0 \in 0..MaxWipes
  BY TurnAssumption DEF States, Texts, ModelTexts, MaxGuardPasses
<1> QED BY <1>1, <1>2, <1>3 DEF Idle, Turns

LEMMA ComposingFields ==
    ASSUME NEW t \in Turns, NEW source \in Sources
    PROVE  LET u == Composing(t, source)
           IN  /\ u \in Turns /\ u.pc = "compose" /\ u.source = source
               /\ u.ran = t.ran /\ u.decision = t.decision /\ u.silent = t.silent
               /\ u.since = t.since /\ u.text = t.text /\ u.msg = t.msg
<1>1. "compose" \in States /\ 0 \in 0..PlannerSteps /\ 0 \in 0..2
  BY TurnAssumption DEF States
<1> QED BY <1>1 DEF Composing, Turns

LEMMA CallsWithin == ASSUME NEW t \in Turns, t.pc = "planner", Ran(t) PROVE Len(t.ran) <= PlannerSteps
<1>1. t.steps \in 0..PlannerSteps /\ Len(t.ran) \in Nat /\ Len(t.ran) <= t.steps
  BY DEF Turns, Ran
<1> QED BY <1>1, TurnAssumption

\* A turn whose reply is now composed from a source.
LEMMA ComposingFine ==
    ASSUME NEW t \in Turns, NEW source \in Sources,
           Len(t.ran) <= PlannerSteps,
           t.decision.mode = "planner" => source.fast \/ t.ran # <<>>,
           source.kind = "confirmation" => ~source.fast,
           t.silent => t.decision.mode = "tool" /\ (~Silent(t.decision) \/ ~source.persist)
    PROVE  Fine(Composing(t, source))
<1> DEFINE u == Composing(t, source)
<1>1. /\ u \in Turns /\ u.pc = "compose" /\ u.source = source
      /\ u.ran = t.ran /\ u.decision = t.decision /\ u.silent = t.silent
  BY ComposingFields
<1> HIDE DEF u
<1>2. Ran(u)
  BY <1>1 DEF Ran, Early, Late
<1>3. Confirms(u)
  BY <1>1 DEF Confirms
<1>4. Hushed(u)
  BY <1>1 DEF Hushed, Overruled, Late
<1> QED BY <1>1, <1>2, <1>3, <1>4 DEF Fine, u
-----------------------------------------------------------------------------
(* The actions of a turn                                                   *)

\* Request t goes on as u.
Onward(t, u) ==
    /\ t.pc \notin {"idle", "done"} /\ Fine(u) /\ u.pc # "idle"
    /\ u.silent = t.silent /\ u.since = t.since

LEMMA RouteMoves ==
    ASSUME NEW r \in Requests, Fine(turn[r]), Route(r)
    PROVE  \E u : Goes(r, u) /\ Onward(turn[r], u)
<1> DEFINE t == turn[r]
<1>1. t \in Turns /\ t.pc \in {"route", "reroute"} /\ Ran(t) /\ Confirms(t) /\ Hushed(t)
  BY DEF Fine, Route
<1>2. PICK routed \in Decided :
         LET d == IF routed[2].mode = "pending" /\ t.pc = "reroute" THEN Mode("planner")
                  ELSE routed[2]
         IN  /\ routed[1] = t.msg
             /\ Goes(r, CASE d.mode = "direct" -> Composing([t EXCEPT !.decision = d], Answer("plain"))
                          [] d.mode \in {"answer", "confused"} ->
                                Composing([t EXCEPT !.decision = d], Confused)
                          [] OTHER -> [t EXCEPT !.pc = d.mode, !.decision = d])
  BY DEF Route
<1> DEFINE d == IF routed[2].mode = "pending" /\ t.pc = "reroute" THEN Mode("planner") ELSE routed[2]
<1>3. /\ d \in RouteDecisions
      /\ t.silent => d.mode = "tool"
  <2>1. Mode("planner") \in RouteDecisions
    BY DEF Mode, Decision, RouteDecisions, Routes
  <2>2. t.silent => t.pc = "route" /\ IsSilentCommand(t.msg)
    BY <1>1 DEF Hushed, Late
  <2>3. t.silent => routed[2].mode = "tool"
    BY <1>2, <2>2, Routed
  <2> QED BY <2>1, <2>3, Routed
<1>4. t.ran = <<>> /\ t.source = NoSource
  BY <1>1 DEF Ran, Early, Late
<1> HIDE DEF d
<1> DEFINE v == [t EXCEPT !.decision = d]
<1>5. /\ v \in Turns /\ v.decision = d /\ v.ran = <<>> /\ v.silent = t.silent /\ v.since = t.since
  BY <1>1, <1>3, <1>4 DEF Turns
<1>6. Len(v.ran) <= PlannerSteps
  BY <1>5, TurnAssumption
<1>7. CASE d.mode = "direct"
  <2>1. Answer("plain") \in Sources /\ Answer("plain").kind # "confirmation"
    BY SourcesAre DEF Answer, Source, Texts, ModelTexts
  <2>2. Fine(Composing(v, Answer("plain")))
    <3> HIDE DEF v
    <3> QED BY <1>3, <1>5, <1>6, <1>7, <2>1, ComposingFine
  <2>3. Goes(r, Composing(v, Answer("plain")))
    BY <1>2, <1>7 DEF d
  <2> HIDE DEF v
  <2> QED BY <1>1, <1>5, <2>1, <2>2, <2>3, ComposingFields DEF Onward
<1>8. CASE d.mode \in {"answer", "confused"}
  <2>1. Confused \in Sources /\ Confused.kind # "confirmation"
    BY SourcesAre
  <2>2. Fine(Composing(v, Confused))
    <3> HIDE DEF v
    <3> QED BY <1>3, <1>5, <1>6, <1>8, <2>1, ComposingFine
  <2>3. Goes(r, Composing(v, Confused))
    BY <1>2, <1>8 DEF d
  <2> HIDE DEF v
  <2> QED BY <1>1, <1>5, <2>1, <2>2, <2>3, ComposingFields DEF Onward
<1>9. CASE d.mode \notin {"direct", "answer", "confused"}
  <2> DEFINE u == [t EXCEPT !.pc = d.mode, !.decision = d]
  <2>1. Goes(r, u)
    BY <1>2, <1>9 DEF d
  <2>2. d.mode \in States /\ d.mode \in {"tool", "pending", "interaction", "capabilities",
                                           "identity", "planner"}
    BY <1>3, <1>9 DEF RouteDecisions, Routes, States
  <2>3. /\ u \in Turns /\ u.pc = d.mode /\ u.decision = d /\ u.ran = <<>> /\ u.source = NoSource
        /\ u.silent = t.silent /\ u.since = t.since /\ u.steps \in Nat
    <3>1. t.steps \in Nat
      BY <1>1, TurnAssumption DEF Turns
    <3>2. u.steps = t.steps /\ u.pc = d.mode /\ u.decision = d /\ u.ran = <<>> /\ u.source = NoSource
          /\ u.silent = t.silent /\ u.since = t.since
      BY <1>1, <1>4 DEF Turns
    <3>3. u \in Turns
      BY <1>1, <1>3, <2>2 DEF Turns
    <3> HIDE DEF u
    <3> QED BY <3>1, <3>2, <3>3
  <2> HIDE DEF u
  <2>4. Ran(u)
    BY <2>2, <2>3, TurnAssumption DEF Ran, Early, Late
  <2>5. Confirms(u)
    BY <2>3 DEF Confirms, NoSource, Source
  <2>6. Hushed(u)
    BY <1>3, <2>2, <2>3 DEF Hushed, Late
  <2> QED BY <1>1, <2>1, <2>2, <2>3, <2>4, <2>5, <2>6 DEF Onward, Fine
<1> QED BY <1>7, <1>8, <1>9

\* Before the planner: nothing ran, and what the reply says is given.
LEMMA GivenMoves ==
    ASSUME NEW r \in Requests, Fine(turn[r]),
           turn[r].pc \in {"tool", "interaction", "pending", "capabilities", "identity", "draft"},
           NEW source \in Sources, source.kind = "confirmation" => ~source.fast,
           turn[r].silent => ~Silent(turn[r].decision) \/ ~source.persist
    PROVE  Onward(turn[r], Composing(turn[r], source))
<1> DEFINE t == turn[r]
<1>1. /\ t \in Turns /\ t.ran = <<>> /\ t.decision.mode # "planner"
      /\ t.silent => t.decision.mode = "tool"
  BY DEF Fine, Ran, Early, Hushed, Late
<1>2. Len(t.ran) <= PlannerSteps
  BY <1>1, TurnAssumption
<1> HIDE DEF t
<1>3. Fine(Composing(t, source))
  BY <1>1, <1>2, ComposingFine DEF t
<1> QED BY <1>1, <1>3, ComposingFields DEF Onward, t

LEMMA RunToolMoves ==
    ASSUME NEW r \in Requests, Fine(turn[r]), RunTool(r)
    PROVE  \E u : Goes(r, u) /\ Onward(turn[r], u)
<1> DEFINE t == turn[r]
<1>1. PICK ok \in BOOLEAN, out \in Texts \ {"empty"} :
         Goes(r, Composing(t, ToolSource(t.decision, ok, out)))
  BY DEF RunTool
<1> DEFINE source == ToolSource(t.decision, ok, out)
<1>2. t.decision.name \in Tools \cup Flows \cup {"none"}
  BY DEF Fine, Turns, RouteDecisions, Mode, Decision
<1>3. /\ source \in Sources /\ source.kind # "confirmation"
      /\ source.persist = ~Silent(t.decision)
  <2>1. {"empty", "payload", "plain"} \subseteq Texts
    BY DEF Texts, ModelTexts
  <2>2. /\ {"tool_result", "tool_error"} \subseteq Kinds
    BY DEF Kinds
  <2> QED BY <1>2, <2>1, <2>2 DEF ToolSource, ToolReply, Source, Sources
<1> HIDE DEF source
<1>4. t.pc = "tool"
  BY DEF RunTool
<1>5. Onward(t, Composing(t, source))
  BY <1>3, <1>4, GivenMoves
<1> QED BY <1>1, <1>5 DEF source

\* The decisions of a turn in a flow or a draft are not silent.
LEMMA NotHushed ==
    ASSUME NEW r \in Requests, Fine(turn[r]),
           turn[r].pc \notin {"route", "tool", "failed"} \cup Late
    PROVE  ~turn[r].silent
  BY DEF Fine, Hushed

LEMMA StartFlowMoves ==
    ASSUME NEW r \in Requests, Fine(turn[r]), StartFlow(r)
    PROVE  \E u : Goes(r, u) /\ Onward(turn[r], u)
<1>1. PICK s \in {Confirmation, FollowUp, Answer("plain")} : Goes(r, Composing(turn[r], s))
  BY DEF StartFlow
<1>2. s \in Sources /\ ~s.fast
  <2>1. ~Confirmation.fast /\ ~FollowUp.fast /\ ~Answer("plain").fast
    BY DEF Confirmation, FollowUp, Answer, Source
  <2>2. Answer("plain") \in Sources
    BY SourcesAre DEF Texts, ModelTexts
  <2> QED BY <2>1, <2>2, SourcesAre
<1>3. turn[r].pc = "interaction" /\ ~turn[r].silent
  BY NotHushed DEF StartFlow, Late
<1>4. Onward(turn[r], Composing(turn[r], s))
  BY <1>2, <1>3, GivenMoves
<1> QED BY <1>1, <1>4

LEMMA DraftMoves ==
    ASSUME NEW r \in Requests, Fine(turn[r]), Draft(r)
    PROVE  \E u : Goes(r, u) /\ Onward(turn[r], u)
<1>1. PICK x \in ModelTexts :
         Goes(r, Composing(turn[r],
                           Answer(IF x = "empty" /\ turn[r].pc # "draft" THEN "plain" ELSE x)))
  BY DEF Draft
<1> DEFINE y == IF x = "empty" /\ turn[r].pc # "draft" THEN "plain" ELSE x
<1>2. y \in Texts
  BY DEF Texts, ModelTexts
<1> HIDE DEF y
<1>3. Answer(y) \in Sources /\ ~Answer(y).fast
  BY <1>2, SourcesAre DEF Answer, Source
<1>4. turn[r].pc \in {"capabilities", "identity", "draft"} /\ ~turn[r].silent
  BY NotHushed DEF Draft, Late
<1>5. Onward(turn[r], Composing(turn[r], Answer(y)))
  BY <1>3, <1>4, GivenMoves
<1> QED BY <1>1, <1>5 DEF y
\* A wiped memory is one way a pending question can end.
Wiped(r) ==
    /\ chat' = <<>> /\ wipes < MaxWipes /\ wipes' = wipes + 1
    /\ \E u : turn' = [turn EXCEPT ![r] = u] /\ Onward(turn[r], u)

LEMMA AnswerPendingMoves ==
    ASSUME NEW r \in Requests, Fine(turn[r]), AnswerPending(r)
    PROVE  Wiped(r) \/ \E u : Goes(r, u) /\ Onward(turn[r], u)
<1> DEFINE t == turn[r]
<1>1. t.pc = "pending" /\ ~t.silent
  BY NotHushed DEF AnswerPending, Late
<1>2. /\ \A s \in {FollowUp, Confirmation, Answer("plain"), Unstored("plain")} :
             s \in Sources /\ ~s.fast
  <2>1. ~Confirmation.fast /\ ~FollowUp.fast /\ ~Answer("plain").fast /\ ~Unstored("plain").fast
    BY DEF Confirmation, FollowUp, Answer, Unstored, Source
  <2>2. Answer("plain") \in Sources /\ Unstored("plain") \in Sources
    BY SourcesAre DEF Texts, ModelTexts
  <2> QED BY <2>1, <2>2, SourcesAre
<1>3. \A s \in {FollowUp, Confirmation, Answer("plain"), Unstored("plain")} :
         Onward(t, Composing(t, s))
  BY <1>1, <1>2, GivenMoves
<1>4. CASE \E s \in {FollowUp, Confirmation, Answer("plain"), Unstored("plain")} :
              Goes(r, Composing(t, s))
  BY <1>3, <1>4
<1>5. CASE Goes(r, [t EXCEPT !.pc = "reroute"])
  <2> DEFINE u == [t EXCEPT !.pc = "reroute"]
  <2>1. t \in Turns /\ Ran(t) /\ Confirms(t)
    BY DEF Fine
  <2>2. /\ u \in Turns /\ u.pc = "reroute" /\ u.decision = t.decision /\ u.ran = t.ran
        /\ u.source = t.source /\ u.silent = t.silent /\ u.since = t.since
    BY <2>1 DEF Turns, States
  <2> HIDE DEF u
  <2>3. Ran(u)
    BY <1>1, <2>1, <2>2 DEF Ran, Early, Late
  <2>4. Confirms(u) /\ Hushed(u)
    BY <1>1, <2>1, <2>2 DEF Confirms, Hushed
  <2> QED BY <1>1, <1>5, <2>2, <2>3, <2>4 DEF Onward, Fine, u
<1>6. CASE /\ wipes < MaxWipes /\ chat' = <<>> /\ wipes' = wipes + 1
           /\ turn' = [turn EXCEPT ![r] = Composing(@, Unstored("plain"))]
  <2>1. turn' = [turn EXCEPT ![r] = Composing(t, Unstored("plain"))]
    BY <1>6
  <2> QED BY <1>3, <1>6, <2>1 DEF Wiped
<1> QED BY <1>4, <1>5, <1>6 DEF AnswerPending

-----------------------------------------------------------------------------
(* The planner's loop                                                      *)

LEMMA PlannedMoves ==
    ASSUME NEW r \in Requests, Fine(turn[r]), turn[r].pc = "planner", NEW source \in Sources,
           source.kind # "confirmation", source.fast \/ turn[r].ran # <<>>
    PROVE  Onward(turn[r], Composing(turn[r], source))
<1> DEFINE t == turn[r]
<1>1. /\ t \in Turns /\ t.pc = "planner" /\ Ran(t) /\ ~t.silent
  BY NotHushed DEF Fine, Ran, Late
<1> HIDE DEF t
<1>2. Len(t.ran) <= PlannerSteps
  BY <1>1, CallsWithin
<1>3. source.fast \/ t.ran # <<>>
  BY DEF t
<1>4. Fine(Composing(t, source))
  BY <1>1, <1>2, <1>3, ComposingFine
<1> QED BY <1>1, <1>4, ComposingFields DEF Onward, t

LEMMA LastOf == ASSUME NEW X, NEW s \in Seq(X), s # <<>> PROVE Last(s) \in X
<1>1. Len(s) \in 1..Len(s)
  OBVIOUS
<1> QED BY <1>1 DEF Last

LEMMA FinishMoves ==
    ASSUME NEW r \in Requests, Fine(turn[r]), turn[r].pc = "planner", Finish(r)
    PROVE  \E u : Goes(r, u) /\ Onward(turn[r], u)
<1> DEFINE t == turn[r]
<1>1. CASE t.ran = <<>> /\ Goes(r, Composing(t, Confused))
  <2>1. Confused \in Sources /\ Confused.kind # "confirmation" /\ Confused.fast
    BY SourcesAre
  <2>2. Onward(t, Composing(t, Confused))
    BY <2>1, PlannedMoves
  <2> QED BY <1>1, <2>2
<1>2. CASE t.ran # <<>> /\ \E x \in ModelTexts : Goes(r, Composing(t, Answer(x)))
  <2>1. \A x \in ModelTexts : Answer(x) \in Sources /\ Answer(x).kind # "confirmation"
    BY SourcesAre DEF Texts, Answer, Source
  <2>2. \A x \in ModelTexts : Onward(t, Composing(t, Answer(x)))
    BY <1>2, <2>1, PlannedMoves
  <2> QED BY <1>2, <2>2
<1>3. CASE /\ t.ran # <<>>
           /\ Goes(r, Composing(t, ToolReply("tool_result", Last(t.ran).out,
                                             Last(t.ran).call.tool, TRUE)))
  <2> DEFINE s == ToolReply("tool_result", Last(t.ran).out, Last(t.ran).call.tool, TRUE)
  <2>1. t.ran \in Seq([call : Calls, out : Texts])
    BY DEF Fine, Turns
  <2>2. Last(t.ran) \in [call : Calls, out : Texts]
    BY <1>3, <2>1, LastOf
  <2>3. s \in Sources /\ s.kind # "confirmation"
    BY <2>2 DEF ToolReply, Source, Sources, Calls, Kinds
  <2> HIDE DEF s
  <2>4. Onward(t, Composing(t, s))
    BY <1>3, <2>3, PlannedMoves
  <2> QED BY <1>3, <2>4 DEF s
<1> QED BY <1>1, <1>2, <1>3 DEF Finish

\* The loop goes on with another step.
LEMMA NextStepFine ==
    ASSUME NEW t \in Turns, t.pc = "planner", Fine(t), NEW u \in Turns, u.pc = "planner",
           u.decision = t.decision, u.silent = t.silent, u.source = t.source,
           u.since = t.since, Len(u.ran) <= u.steps
    PROVE  Onward(t, u)
<1>1. Ran(t) /\ Confirms(t) /\ Hushed(t)
  BY DEF Fine
<1>2. Ran(u)
  BY <1>1 DEF Ran, Early, Late
<1>3. Confirms(u) /\ Hushed(u)
  BY <1>1 DEF Confirms, Hushed, Late
<1> QED BY <1>2, <1>3 DEF Onward, Fine

LEMMA PlanMoves ==
    ASSUME NEW r \in Requests, Fine(turn[r]), Plan(r)
    PROVE  \E u : Goes(r, u) /\ Onward(turn[r], u)
<1> DEFINE t == turn[r]
<1>1. /\ t \in Turns /\ t.pc = "planner" /\ t.steps < PlannerSteps
      /\ t.steps \in Nat /\ t.steps + 1 \in 0..PlannerSteps
      /\ t.ran \in Seq([call : Calls, out : Texts]) /\ Len(t.ran) <= t.steps
  BY TurnAssumption DEF Plan, Fine, Turns, Ran
<1>2. CASE Finish(r)
  BY <1>1, <1>2, FinishMoves
<1>3. CASE Stumble(r)
  <2> DEFINE v == [t EXCEPT !.invalid = @ + 1, !.steps = @ + 1]
  <2>1. CASE v.invalid >= 2 /\ Goes(r, Composing(v, Confused))
    <3>1. Composing(v, Confused) = Composing(t, Confused)
      BY <1>1 DEF Composing, Turns
    <3>2. Confused \in Sources /\ Confused.kind # "confirmation" /\ Confused.fast
      BY SourcesAre
    <3>3. Onward(t, Composing(t, Confused))
      BY <1>1, <3>2, PlannedMoves
    <3> QED BY <2>1, <3>1, <3>3
  <2>2. CASE ~(v.invalid >= 2) /\ Goes(r, v)
    <3>1. t.invalid \in 0..2 /\ t.invalid + 1 \in 0..2
      BY <1>1, <2>2 DEF Turns
    <3>2. /\ v \in Turns /\ v.pc = "planner" /\ v.decision = t.decision /\ v.silent = t.silent
          /\ v.source = t.source /\ v.since = t.since /\ v.ran = t.ran /\ v.steps = t.steps + 1
      BY <1>1, <3>1 DEF Turns
    <3> HIDE DEF v
    <3>3. Len(v.ran) <= v.steps
      BY <1>1, <3>2
    <3>4. Onward(t, v)
      BY <1>1, <3>2, <3>3, NextStepFine
    <3> QED BY <2>2, <3>4
  <2> QED BY <1>3, <2>1, <2>2 DEF Stumble
<1>4. CASE Refuse(r)
  <2> DEFINE v == [t EXCEPT !.steps = @ + 1]
  <2>1. /\ v \in Turns /\ v.pc = "planner" /\ v.decision = t.decision /\ v.silent = t.silent
        /\ v.source = t.source /\ v.since = t.since /\ v.ran = t.ran /\ v.steps = t.steps + 1
    BY <1>1 DEF Turns
  <2>2. Goes(r, v)
    BY <1>4 DEF Refuse
  <2> HIDE DEF v
  <2>3. Len(v.ran) <= v.steps
    BY <1>1, <2>1
  <2>4. Onward(t, v)
    BY <1>1, <2>1, <2>3, NextStepFine
  <2> QED BY <2>2, <2>4
<1>5. CASE Execute(r)
  <2>1. PICK tool \in Tools \cup {OtherTool}, a \in Arguments, out \in Texts :
           Goes(r, [t EXCEPT !.steps = @ + 1,
                      !.ran = Append(@, [call |-> Call(tool, a), out |-> out])])
    BY <1>5 DEF Execute
  <2> DEFINE e == [call |-> Call(tool, a), out |-> out]
             v == [t EXCEPT !.steps = @ + 1, !.ran = Append(@, e)]
  <2>2. e \in [call : Calls, out : Texts]
    BY DEF Call, Calls
  <2> HIDE DEF e
  <2>3. /\ Append(t.ran, e) \in Seq([call : Calls, out : Texts])
        /\ Len(Append(t.ran, e)) = Len(t.ran) + 1
    BY <1>1, <2>2
  <2>4. /\ v \in Turns /\ v.pc = "planner" /\ v.decision = t.decision /\ v.silent = t.silent
        /\ v.source = t.source /\ v.since = t.since /\ v.ran = Append(t.ran, e)
        /\ v.steps = t.steps + 1
    BY <1>1, <2>3 DEF Turns
  <2> HIDE DEF v
  <2>5. Len(v.ran) <= v.steps
    BY <1>1, <2>3, <2>4
  <2>6. Onward(t, v)
    BY <1>1, <2>4, <2>5, NextStepFine
  <2> QED BY <2>1, <2>6 DEF e, v
<1> QED BY <1>2, <1>3, <1>4, <1>5 DEF Plan

LEMMA GiveUpMoves ==
    ASSUME NEW r \in Requests, Fine(turn[r]), GiveUp(r)
    PROVE  \E u : Goes(r, u) /\ Onward(turn[r], u)
<1> DEFINE t == turn[r]
<1>1. CASE t.ran = <<>>
  <2>1. Confused \in Sources /\ Confused.kind # "confirmation" /\ Confused.fast
    BY SourcesAre
  <2>2. Onward(t, Composing(t, Confused))
    BY <2>1, PlannedMoves DEF GiveUp
  <2> QED BY <1>1, <2>2 DEF GiveUp
<1>2. CASE t.ran # <<>>
  <2>1. Answer("plain") \in Sources /\ Answer("plain").kind # "confirmation"
    BY SourcesAre DEF Answer, Source, Texts, ModelTexts
  <2>2. Onward(t, Composing(t, Answer("plain")))
    BY <1>2, <2>1, PlannedMoves DEF GiveUp
  <2> QED BY <1>2, <2>2 DEF GiveUp
<1> QED BY <1>1, <1>2
-----------------------------------------------------------------------------
(* From the facts to the stored reply                                      *)

\* The passes over the text keep all the rest of the turn.
LEMMA LateMoves ==
    ASSUME NEW t \in Turns, t.pc \in Late, t.pc # "done", Fine(t),
           NEW u \in Turns, u.pc \in Late, u.ran = t.ran, u.decision = t.decision,
           u.silent = t.silent, u.since = t.since,
           u.source.kind = t.source.kind, u.source.fast = t.source.fast,
           u.source.persist = t.source.persist,
           t.source = NoSource => u.source = NoSource,
           t.source.kind = "confirmation" /\ u.pc \in {"polish", "store", "done"} =>
              u.text # "refusal"
    PROVE  Onward(t, u)
<1>1. Ran(t) /\ Confirms(t) /\ Hushed(t)
  BY DEF Fine
<1>2. Ran(u)
  BY <1>1 DEF Ran, Early, Late
<1>3. Confirms(u)
  BY <1>1 DEF Confirms
<1>4. Hushed(u)
  BY <1>1 DEF Hushed, Overruled, Late
<1>5. u.pc # "idle" /\ t.pc # "idle"
  BY DEF Late
<1> QED BY <1>2, <1>3, <1>4, <1>5 DEF Onward, Fine

LEMMA TextsAre == ModelTexts \subseteq Texts /\ "plain" \in ModelTexts
  BY DEF ModelTexts, Texts

LEMMA ComposeMoves ==
    ASSUME NEW r \in Requests, Fine(turn[r]), Compose(r)
    PROVE  \E u : Goes(r, u) /\ Onward(turn[r], u)
<1> DEFINE t == turn[r]
<1>1. t \in Turns /\ t.pc = "compose" /\ t.source.facts \in Texts /\ t.pc \in Late
  BY DEF Fine, Compose, Turns, Sources, Late
<1> DEFINE v == [t EXCEPT !.pc = "guard", !.source.facts = "empty"]
           s == [t.source EXCEPT !.facts = "empty"]
<1>2. PICK x \in Texts : Goes(r, [v EXCEPT !.text = x])
  <2> HIDE DEF v
  <2> QED BY <1>1, TextsAre DEF Compose, v
<1> DEFINE u == [v EXCEPT !.text = x]
<1>3. /\ s \in Sources /\ s.kind = t.source.kind /\ s.fast = t.source.fast
      /\ s.persist = t.source.persist /\ (t.source = NoSource => s = NoSource)
  <2>1. t.source \in Sources /\ "empty" \in Texts
    BY <1>1 DEF Turns, Texts, ModelTexts
  <2>2. s \in Sources
    BY <2>1 DEF Sources
  <2>3. s.kind = t.source.kind /\ s.fast = t.source.fast /\ s.persist = t.source.persist
    BY <2>1 DEF Sources
  <2>4. t.source = NoSource => s = NoSource
    BY DEF NoSource, Source
  <2> QED BY <2>2, <2>3, <2>4
<1>4. u = [t EXCEPT !.pc = "guard", !.source = s, !.text = x]
  BY <1>1 DEF Turns
<1> HIDE DEF s
<1>5. u \in Turns
  BY <1>1, <1>3, <1>4 DEF Turns, States
<1>6. /\ u.pc = "guard" /\ u.ran = t.ran /\ u.decision = t.decision /\ u.source = s
      /\ u.silent = t.silent /\ u.since = t.since /\ u.pc \in Late
  BY <1>1, <1>4 DEF Turns, Late
<1> HIDE DEF u
<1>7. Onward(t, u)
  BY <1>1, <1>3, <1>5, <1>6, LateMoves
<1> QED BY <1>2, <1>7 DEF u

LEMMA GuardMoves ==
    ASSUME NEW r \in Requests, Fine(turn[r]), Guard(r)
    PROVE  \E u : Goes(r, u) /\ Onward(turn[r], u)
<1> DEFINE t == turn[r]
<1>1. /\ t \in Turns /\ t.pc = "guard" /\ t.pc \in Late /\ t.text \in Texts
      /\ t.source.kind = "confirmation" => ~t.source.fast
      /\ t.passes \in 0..MaxGuardPasses
  BY DEF Fine, Guard, Turns, Late, Confirms
<1>2. CASE /\ t.text = "empty" \/ t.source.fast
           /\ Goes(r, [t EXCEPT !.pc = "polish", !.passes = 0])
  <2> DEFINE u == [t EXCEPT !.pc = "polish", !.passes = 0]
  <2>1. /\ u \in Turns /\ u.pc = "polish" /\ u.ran = t.ran /\ u.decision = t.decision
        /\ u.source = t.source /\ u.silent = t.silent /\ u.since = t.since /\ u.pc \in Late
        /\ u.text = t.text
    <3>1. "polish" \in States /\ "polish" \in Late /\ 0 \in 0..MaxGuardPasses
      BY DEF States, Late, MaxGuardPasses
    <3>2. u \in Turns
      BY <1>1, <3>1 DEF Turns
    <3>3. /\ u.pc = "polish" /\ u.ran = t.ran /\ u.decision = t.decision
          /\ u.source = t.source /\ u.silent = t.silent /\ u.since = t.since
          /\ u.text = t.text
      BY <1>1 DEF Turns
    <3> HIDE DEF u
    <3> QED BY <3>1, <3>2, <3>3
  <2> HIDE DEF u
  <2>2. t.source.kind = "confirmation" => u.text # "refusal"
    BY <1>1, <1>2, <2>1
  <2>3. Onward(t, u)
    BY <1>1, <2>1, <2>2, LateMoves
  <2> QED BY <1>2, <2>3 DEF u
<1>3. CASE Goes(r, Enforced(t))
  <2> DEFINE x == IF t.source.kind = "confirmation" /\ t.text = "refusal" THEN "plain" ELSE t.text
             u == [t EXCEPT !.pc = "polish", !.passes = 0, !.text = x]
  <2>1. Enforced(t) = u
    BY <1>1 DEF Enforced, Turns
  <2>2. x \in Texts /\ (t.source.kind = "confirmation" => x # "refusal")
    BY <1>1, TextsAre
  <2> HIDE DEF x
  <2>3. /\ u \in Turns /\ u.pc = "polish" /\ u.ran = t.ran /\ u.decision = t.decision
        /\ u.source = t.source /\ u.silent = t.silent /\ u.since = t.since /\ u.pc \in Late
        /\ u.text = x
    <3>1. "polish" \in States /\ "polish" \in Late /\ 0 \in 0..MaxGuardPasses
      BY DEF States, Late, MaxGuardPasses
    <3>2. u \in Turns
      BY <1>1, <2>2, <3>1 DEF Turns
    <3>3. /\ u.pc = "polish" /\ u.ran = t.ran /\ u.decision = t.decision
          /\ u.source = t.source /\ u.silent = t.silent /\ u.since = t.since
          /\ u.text = x
      BY <1>1, <2>2 DEF Turns
    <3> HIDE DEF u
    <3> QED BY <3>1, <3>2, <3>3
  <2> HIDE DEF u
  <2>4. Onward(t, u)
    BY <1>1, <2>2, <2>3, LateMoves
  <2> QED BY <1>3, <2>1, <2>4
<1>4. CASE /\ t.passes < MaxGuardPasses
           /\ \E x \in ModelTexts :
                 Goes(r, [t EXCEPT !.passes = @ + 1, !.text = IF x = "empty" THEN @ ELSE x])
  <2>1. PICK x \in ModelTexts :
           Goes(r, [t EXCEPT !.passes = @ + 1, !.text = IF x = "empty" THEN @ ELSE x])
    BY <1>4
  <2> DEFINE u == [t EXCEPT !.passes = @ + 1, !.text = IF x = "empty" THEN @ ELSE x]
  <2>2. t.passes + 1 \in 0..MaxGuardPasses
    BY <1>1, <1>4 DEF MaxGuardPasses
  <2>3. /\ u \in Turns /\ u.pc = "guard" /\ u.ran = t.ran /\ u.decision = t.decision
        /\ u.source = t.source /\ u.silent = t.silent /\ u.since = t.since /\ u.pc \in Late
    BY <1>1, <2>2, TextsAre DEF Turns
  <2> HIDE DEF u
  <2>4. Onward(t, u)
    BY <1>1, <2>3, LateMoves
  <2> QED BY <2>1, <2>4 DEF u
<1> QED BY <1>2, <1>3, <1>4 DEF Guard

LEMMA PolishMoves ==
    ASSUME NEW r \in Requests, Fine(turn[r]), Polish(r)
    PROVE  \E u : Goes(r, u) /\ Onward(turn[r], u)
<1> DEFINE t == turn[r]
           v == [t EXCEPT !.pc = "store"]
<1>1. /\ t \in Turns /\ t.pc = "polish" /\ t.pc \in Late /\ t.text \in Texts
      /\ t.source.kind = "confirmation" => t.text # "refusal"
  BY DEF Fine, Polish, Turns, Late, Confirms
<1>2. /\ v \in Turns /\ v.pc = "store" /\ v.ran = t.ran /\ v.decision = t.decision
      /\ v.source = t.source /\ v.silent = t.silent /\ v.since = t.since /\ v.pc \in Late
      /\ v.text = t.text
  BY <1>1 DEF Turns, States, Late
<1>3. CASE Goes(r, v)
  <2> HIDE DEF v
  <2>1. Onward(t, v)
    BY <1>1, <1>2, LateMoves
  <2> QED BY <1>3, <2>1
<1>4. CASE /\ t.source.kind # "confirmation"
           /\ \E x \in ModelTexts : Goes(r, [v EXCEPT !.text = IF x = "empty" THEN @ ELSE x])
  <2> HIDE DEF v
  <2>1. PICK x \in ModelTexts : Goes(r, [v EXCEPT !.text = IF x = "empty" THEN @ ELSE x])
    BY <1>4
  <2> DEFINE u == [v EXCEPT !.text = IF x = "empty" THEN @ ELSE x]
  <2>2. /\ u \in Turns /\ u.pc = "store" /\ u.ran = v.ran /\ u.decision = v.decision
        /\ u.source = v.source /\ u.silent = v.silent /\ u.since = v.since
    BY <1>1, <1>2, TextsAre DEF Turns
  <2> HIDE DEF u
  <2>3. Onward(t, u)
    BY <1>1, <1>2, <1>4, <2>2, LateMoves
  <2> QED BY <2>1, <2>3 DEF u
<1>5. \/ Goes(r, v)
      \/ /\ t.source.kind # "confirmation"
         /\ \E x \in ModelTexts : Goes(r, [v EXCEPT !.text = IF x = "empty" THEN @ ELSE x])
  <2> HIDE DEF v
  <2> QED BY <1>2 DEF Polish, v
<1> QED BY <1>3, <1>4, <1>5

LEMMA FailMoves ==
    ASSUME NEW r \in Requests, Fine(turn[r]), Fail(r)
    PROVE  \E u : Goes(r, u) /\ Onward(turn[r], u)
<1> DEFINE t == turn[r]
           u == [Idle EXCEPT !.pc = "failed", !.silent = t.silent, !.since = t.since]
<1>1. t \in Turns /\ t.pc \notin {"idle", "done", "failed"} /\ Goes(r, u)
  BY DEF Fine, Fail
<1>2. /\ Idle \in Turns /\ Idle.ran = <<>> /\ Idle.decision.mode = "none" /\ Idle.source = NoSource
  BY IdleType DEF Idle, Mode, Decision
<1>3. /\ u \in Turns /\ u.pc = "failed" /\ u.ran = <<>> /\ u.decision.mode = "none"
      /\ u.source = NoSource /\ u.silent = t.silent /\ u.since = t.since
  BY <1>1, <1>2 DEF Turns, States
<1> HIDE DEF u
<1>4. Ran(u)
  BY <1>3, TurnAssumption DEF Ran, Early, Late
<1>5. Confirms(u)
  BY <1>3 DEF Confirms, NoSource, Source
<1>6. Hushed(u)
  BY <1>3 DEF Hushed, Late
<1> QED BY <1>1, <1>3, <1>4, <1>5, <1>6 DEF Onward, Fine
-----------------------------------------------------------------------------
(* The invariant                                                           *)

LEMMA EntriesAre ==
    ASSUME NEW r \in Requests, NEW q \in Requests
    PROVE  /\ Entry("user", r) \in [role : {"user", "assistant"}, by : Requests]
           /\ Entry("assistant", r) \in [role : {"user", "assistant"}, by : Requests]
           /\ Entry("user", r) # Entry("assistant", q)
           /\ q # r => Entry("user", r) # Entry("user", q)
           /\ q # r => Entry("assistant", r) # Entry("assistant", q)
<1>1. /\ Entry("user", r) \in [role : {"user", "assistant"}, by : Requests]
      /\ Entry("assistant", r) \in [role : {"user", "assistant"}, by : Requests]
  BY DEF Entry
<1>2. /\ Entry("user", r).role = "user" /\ Entry("user", r).by = r
      /\ Entry("assistant", r).role = "assistant" /\ Entry("assistant", r).by = r
      /\ Entry("user", q).by = q /\ Entry("assistant", q).role = "assistant"
      /\ Entry("assistant", q).by = q
  BY DEF Entry
<1> QED BY <1>1, <1>2

LEMMA InitHolds == Init => IInv
<1> SUFFICES ASSUME Init PROVE IInv
  OBVIOUS
<1>1. /\ chat = <<>> /\ wipes = 0 /\ turn = [r \in Requests |-> Idle]
      /\ chat \in Seq([role : {"user", "assistant"}, by : Requests]) /\ DOMAIN chat = {}
      /\ wipes \in 0..MaxWipes /\ turn \in [Requests -> Turns]
  BY IdleType, TurnAssumption DEF Init
<1>2. /\ Idle \in Turns /\ Idle.pc = "idle" /\ Idle.ran = <<>> /\ Idle.decision.mode = "none"
      /\ Idle.source = NoSource /\ ~Idle.silent /\ Idle.since = 0
  BY IdleType DEF Idle, Mode, Decision
<1>3. Fine(Idle)
  <2> HIDE DEF Idle
  <2>1. Ran(Idle)
    BY <1>2, TurnAssumption DEF Ran, Early, Late
  <2>2. Confirms(Idle) /\ Hushed(Idle)
    BY <1>2 DEF Confirms, Hushed, NoSource, Source
  <2> QED BY <1>2, <2>1, <2>2 DEF Fine
<1>4. \A r \in Requests : turn[r] = Idle
  BY <1>1
<1>5. \A r \in Requests : Paired(r)
  BY <1>1, <1>2, <1>4 DEF Paired
<1> QED BY <1>1, <1>3, <1>4, <1>5 DEF IInv

\* The other requests notice nothing of a turn that leaves the chat alone.
LEMMA MovesKeep ==
    ASSUME IInv, NEW r \in Requests, NEW u, Goes(r, u), Onward(turn[r], u)
    PROVE  IInv'
<1>1. /\ turn' = [turn EXCEPT ![r] = u] /\ chat' = chat /\ wipes' = wipes
      /\ u \in Turns /\ Fine(u) /\ turn \in [Requests -> Turns]
  BY DEF Goes, Onward, Fine, IInv
<1>2. turn' \in [Requests -> Turns] /\ turn'[r] = u /\ \A q \in Requests \ {r} : turn'[q] = turn[q]
  BY <1>1
<1>3. \A q \in Requests : Fine(turn'[q])
  BY <1>1, <1>2 DEF IInv
<1>4. ASSUME NEW q \in Requests, q # r PROVE Paired(q)'
  BY <1>1, <1>2, <1>4 DEF IInv, Paired, Stored
<1>5. Paired(r)'
  <2>1. /\ Paired(r) /\ turn[r].pc \notin {"idle", "done"} /\ u.pc # "idle"
        /\ u.silent = turn[r].silent /\ u.since = turn[r].since
    BY DEF IInv, Onward
  <2> QED BY <1>1, <1>2, <2>1 DEF Paired, Stored
<1> QED BY <1>1, <1>2, <1>3, <1>4, <1>5 DEF IInv

LEMMA WipeKeeps ==
    ASSUME IInv, NEW r \in Requests, Wiped(r)
    PROVE  IInv'
<1>1. PICK u : turn' = [turn EXCEPT ![r] = u] /\ Onward(turn[r], u)
  BY DEF Wiped
<1>2. /\ chat' = <<>> /\ DOMAIN chat' = {} /\ wipes' = wipes + 1 /\ wipes' \in 0..MaxWipes
      /\ chat' \in Seq([role : {"user", "assistant"}, by : Requests])
      /\ wipes \in 0..MaxWipes /\ turn \in [Requests -> Turns] /\ u \in Turns /\ Fine(u)
  BY <1>1, TurnAssumption DEF Wiped, IInv, Onward, Fine
<1>3. turn' \in [Requests -> Turns] /\ turn'[r] = u /\ \A q \in Requests \ {r} : turn'[q] = turn[q]
  BY <1>1, <1>2
<1>4. \A q \in Requests : Fine(turn'[q])
  BY <1>2, <1>3 DEF IInv
<1>5. \A q \in Requests : turn'[q].since = turn[q].since /\ turn[q].since <= wipes
  BY <1>1, <1>3 DEF IInv, Paired, Onward
<1>6. \A q \in Requests : turn'[q].since \in 0..MaxWipes
  BY <1>3 DEF Turns
<1>7. \A q \in Requests : turn'[q].since < wipes' /\ turn'[q].since <= wipes'
  BY <1>2, <1>5, <1>6, TurnAssumption
<1>8. \A q \in Requests : Paired(q)'
  BY <1>2, <1>7 DEF Paired
<1> QED BY <1>2, <1>3, <1>4, <1>8 DEF IInv

\* A message comes in: nothing of this request is in the chat yet.
LEMMA ReceiveKeeps ==
    ASSUME IInv, NEW r \in Requests, Receive(r)
    PROVE  IInv'
<1> DEFINE Chats == [role : {"user", "assistant"}, by : Requests]
<1>1. PICK m \in Messages[r] :
         LET chatting == r \in ChatRequests
             silent == ~chatting /\ IsSilentCommand(m)
             drafting == CASE IsCapability(m) -> "capabilities"
                           [] ~IsCapability(m) /\ IsIdentity(m) -> "identity"
                           [] OTHER -> "draft"
         IN  /\ chat' = IF silent THEN chat ELSE Append(chat, Entry("user", r))
             /\ turn' = [turn EXCEPT ![r] = [Idle EXCEPT
                           !.pc = IF chatting THEN drafting ELSE "route",
                           !.msg = m, !.silent = silent, !.since = wipes]]
  BY DEF Receive
<1> DEFINE silent == r \notin ChatRequests /\ IsSilentCommand(m)
           pc == IF r \in ChatRequests
                 THEN CASE IsCapability(m) -> "capabilities"
                        [] ~IsCapability(m) /\ IsIdentity(m) -> "identity"
                        [] OTHER -> "draft"
                 ELSE "route"
           u == [Idle EXCEPT !.pc = pc, !.msg = m, !.silent = silent, !.since = wipes]
<1>2. /\ chat' = IF silent THEN chat ELSE Append(chat, Entry("user", r))
      /\ turn' = [turn EXCEPT ![r] = u] /\ wipes' = wipes /\ turn[r].pc = "idle"
  BY <1>1 DEF Receive
<1>3. /\ pc \in {"capabilities", "identity", "draft", "route"} /\ silent \in BOOLEAN
      /\ silent => pc = "route" /\ IsSilentCommand(m)
  OBVIOUS
<1>4. m \in Asked
  BY DEF Asked
<1> HIDE DEF pc, silent
<1>5. /\ wipes \in 0..MaxWipes /\ chat \in Seq(Chats) /\ turn \in [Requests -> Turns]
      /\ \A q \in Requests : Fine(turn[q]) /\ Paired(q)
  BY DEF IInv
<1>6. /\ Idle \in Turns /\ Idle.ran = <<>> /\ Idle.decision.mode = "none" /\ Idle.source = NoSource
  BY IdleType DEF Idle, Mode, Decision
<1>7. /\ u.pc = pc /\ u.msg = m /\ u.silent = silent /\ u.since = wipes
      /\ u.ran = <<>> /\ u.decision.mode = "none" /\ u.source = NoSource
  BY <1>6 DEF Turns
<1>8. u \in Turns
  <2>1. pc \in States
    BY <1>3 DEF States
  <2> QED BY <1>3, <1>4, <1>5, <1>6, <2>1 DEF Turns
<1> HIDE DEF u
<1>9. Fine(u)
  <2>1. Ran(u)
    BY <1>3, <1>7, TurnAssumption DEF Ran, Early, Late
  <2>2. Confirms(u)
    BY <1>7 DEF Confirms, NoSource, Source
  <2>3. Hushed(u)
    BY <1>3, <1>7 DEF Hushed, Late
  <2> QED BY <1>8, <2>1, <2>2, <2>3 DEF Fine
<1>10. turn' \in [Requests -> Turns] /\ turn'[r] = u /\ \A q \in Requests \ {r} : turn'[q] = turn[q]
  BY <1>2, <1>5, <1>8
<1>11. \A q \in Requests : Fine(turn'[q])
  BY <1>5, <1>9, <1>10
<1>12. /\ u.pc # "idle" /\ u.since = wipes
  BY <1>3, <1>7
<1>13. CASE silent
  <2>1. chat' = chat
    BY <1>2, <1>13
  <2>2. ASSUME NEW q \in Requests, q # r PROVE Paired(q)'
    BY <1>2, <1>5, <1>10, <2>1, <2>2 DEF Paired, Stored
  <2>3. Paired(r)'
    <3>1. \A i \in DOMAIN chat' : chat'[i] # Entry("user", r) /\ chat'[i] # Entry("assistant", r)
      BY <1>2, <1>5, <2>1 DEF Paired
    <3>2. turn'[r].silent /\ turn'[r].since <= wipes'
      <4>1. turn'[r].silent
        BY <1>7, <1>10, <1>13, Zenon
      <4>2. wipes \in Int /\ turn'[r].since = wipes /\ wipes' = wipes
        BY <1>2, <1>5, <1>7, <1>10, TurnAssumption
      <4> QED BY <4>1, <4>2
    <3> QED BY <3>1, <3>2 DEF Paired
  <2> QED BY <1>2, <1>5, <1>10, <1>11, <2>1, <2>2, <2>3 DEF IInv
<1>14. CASE ~silent
  <2>1. Entry("user", r) \in Chats
    BY EntriesAre
  <2>2. /\ chat' = Append(chat, Entry("user", r)) /\ chat' \in Seq(Chats)
        /\ DOMAIN chat = 1..Len(chat) /\ Len(chat) \in Nat
        /\ DOMAIN chat' = 1..(Len(chat) + 1)
        /\ \A i \in 1..Len(chat) : chat'[i] = chat[i]
        /\ chat'[Len(chat) + 1] = Entry("user", r)
    BY <1>2, <1>5, <1>14, <2>1
  <2>3. ASSUME NEW q \in Requests, q # r PROVE Paired(q)'
    <3>1. Paired(q) /\ turn'[q] = turn[q] /\ wipes' = wipes
      BY <1>2, <1>5, <1>10, <2>3
    <3>2. chat'[Len(chat) + 1] # Entry("user", q) /\ chat'[Len(chat) + 1] # Entry("assistant", q)
      BY <2>2, <2>3, EntriesAre
    <3>3. \A i \in DOMAIN chat' : chat'[i] \in {Entry("user", q), Entry("assistant", q)} =>
             i \in DOMAIN chat /\ chat'[i] = chat[i]
      BY <2>2, <3>2
    <3>4. \A i \in DOMAIN chat : i \in DOMAIN chat' /\ chat'[i] = chat[i]
      BY <2>2
    <3>5. \A i \in DOMAIN chat : \A j \in 1..(i - 1) : j \in DOMAIN chat
      BY <2>2
    <3> QED BY <3>1, <3>3, <3>4, <3>5 DEF Paired, Stored
  <2>4. Paired(r)'
    <3>1. Len(chat) + 1 \in DOMAIN chat' /\ chat'[Len(chat) + 1] = Entry("user", r)
      BY <2>2
    <3>2. \A i \in DOMAIN chat : chat[i] # Entry("assistant", r)
      BY <1>2, <1>5 DEF Paired
    <3>3. \A i \in DOMAIN chat' : chat'[i] # Entry("assistant", r)
      BY <2>2, <3>2, EntriesAre
    <3>4. turn'[r].since <= wipes'
      BY <1>2, <1>5, <1>10, <1>12, TurnAssumption
    <3> QED BY <1>7, <1>10, <1>12, <1>14, <3>1, <3>3, <3>4 DEF Paired, Stored
  <2> QED BY <1>2, <1>5, <1>10, <1>11, <2>2, <2>3, <2>4 DEF IInv
<1> QED BY <1>13, <1>14
\* The reply is stored: after its message, unless the memory was wiped, the
\* message was silent, or the command was taken for another.
LEMMA StoreKeeps ==
    ASSUME IInv, NEW r \in Requests, Store(r)
    PROVE  IInv'
<1> DEFINE Chats == [role : {"user", "assistant"}, by : Requests]
           t == turn[r]
           u == [t EXCEPT !.pc = "done"]
<1>1. /\ wipes \in 0..MaxWipes /\ chat \in Seq(Chats) /\ turn \in [Requests -> Turns]
      /\ \A q \in Requests : Fine(turn[q]) /\ Paired(q)
      /\ t \in Turns /\ t.pc = "store" /\ t.pc \in Late /\ Fine(t) /\ wipes' = wipes
      /\ turn' = [turn EXCEPT ![r] = u]
      /\ chat' = IF t.source.persist THEN Append(chat, Entry("assistant", r)) ELSE chat
  BY DEF IInv, Store, Late
<1>2. /\ u \in Turns /\ u.pc = "done" /\ u.ran = t.ran /\ u.decision = t.decision
      /\ u.source = t.source /\ u.silent = t.silent /\ u.since = t.since /\ u.pc \in Late
      /\ u.text = t.text
  BY <1>1 DEF Turns, States, Late
<1> HIDE DEF u
<1>3. t.source.kind = "confirmation" => u.text # "refusal"
  BY <1>1, <1>2 DEF Fine, Confirms
<1>4. Onward(t, u)
  BY <1>1, <1>2, <1>3, LateMoves
<1>5. turn' \in [Requests -> Turns] /\ turn'[r] = u /\ \A q \in Requests \ {r} : turn'[q] = turn[q]
  BY <1>1, <1>2
<1>6. \A q \in Requests : Fine(turn'[q])
  BY <1>1, <1>4, <1>5 DEF Onward
<1>7. /\ Paired(r) /\ t.since <= wipes
      /\ ~t.silent /\ t.since = wipes => Stored("user", r)
      /\ \A i \in DOMAIN chat : chat[i] # Entry("assistant", r)
      /\ \A i \in DOMAIN chat : chat[i] = Entry("user", r) => ~t.silent
  BY <1>1 DEF Paired
<1>8. CASE ~t.source.persist
  <2>1. chat' = chat
    BY <1>1, <1>8
  <2>2. ASSUME NEW q \in Requests, q # r PROVE Paired(q)'
    BY <1>1, <1>5, <2>1, <2>2 DEF Paired, Stored
  <2>3. Paired(r)'
    BY <1>1, <1>2, <1>5, <1>7, <2>1 DEF Paired, Stored
  <2> QED BY <1>1, <1>5, <1>6, <2>1, <2>2, <2>3 DEF IInv
<1>9. CASE t.source.persist
  <2>1. Entry("assistant", r) \in Chats
    BY EntriesAre
  <2>2. /\ chat' = Append(chat, Entry("assistant", r)) /\ chat' \in Seq(Chats)
        /\ DOMAIN chat = 1..Len(chat) /\ Len(chat) \in Nat
        /\ DOMAIN chat' = 1..(Len(chat) + 1)
        /\ \A i \in 1..Len(chat) : chat'[i] = chat[i]
        /\ chat'[Len(chat) + 1] = Entry("assistant", r)
    BY <1>1, <1>9, <2>1
  <2>3. ASSUME NEW q \in Requests, q # r PROVE Paired(q)'
    <3>1. Paired(q) /\ turn'[q] = turn[q] /\ wipes' = wipes
      BY <1>1, <1>5, <2>3
    <3>2. chat'[Len(chat) + 1] # Entry("user", q) /\ chat'[Len(chat) + 1] # Entry("assistant", q)
      BY <2>2, <2>3, EntriesAre
    <3>3. \A i \in DOMAIN chat' : chat'[i] \in {Entry("user", q), Entry("assistant", q)} =>
             i \in DOMAIN chat /\ chat'[i] = chat[i]
      BY <2>2, <3>2
    <3>4. \A i \in DOMAIN chat : i \in DOMAIN chat' /\ chat'[i] = chat[i]
      BY <2>2
    <3>5. \A i \in DOMAIN chat : \A j \in 1..(i - 1) : j \in DOMAIN chat
      BY <2>2
    <3> QED BY <3>1, <3>3, <3>4, <3>5 DEF Paired, Stored
  <2>4. Paired(r)'
    <3>1. t.silent => Overruled(u)
      BY <1>1, <1>2, <1>9 DEF Fine, Hushed, Overruled
    <3>2. \A i \in DOMAIN chat' : chat'[i] = Entry("user", r) =>
             i \in DOMAIN chat /\ chat[i] = Entry("user", r)
      BY <2>2, EntriesAre
    <3>3. \A i \in DOMAIN chat' : chat'[i] = Entry("user", r) => ~t.silent
      BY <1>7, <3>2
    <3>4. ~t.silent /\ t.since = wipes =>
             \E j \in 1..Len(chat) : chat[j] = Entry("user", r) /\ chat'[j] = Entry("user", r)
      BY <1>7, <2>2 DEF Stored
    <3>5. \A i \in DOMAIN chat' : chat'[i] = Entry("assistant", r) => i = Len(chat) + 1
      BY <1>7, <2>2
    <3>6. t.since \in Int /\ wipes \in Int
      BY <1>1, TurnAssumption DEF Turns
    <3>7. ASSUME NEW i \in DOMAIN chat', chat'[i] = Entry("assistant", r)
          PROVE  t.silent \/ t.since < wipes \/ \E j \in 1..(i - 1) : chat'[j] = Entry("user", r)
      <4>1. 1..(i - 1) = 1..Len(chat)
        BY <2>2, <3>5, <3>7
      <4>2. t.since = wipes \/ t.since < wipes
        BY <1>7, <3>6
      <4> QED BY <3>4, <4>1, <4>2
    <3>8. ~t.silent /\ t.since = wipes => \E j \in DOMAIN chat' : chat'[j] = Entry("user", r)
      BY <2>2, <3>4
    <3> QED BY <1>1, <1>2, <1>5, <1>7, <3>1, <3>3, <3>7, <3>8 DEF Paired, Stored
  <2> QED BY <1>1, <1>5, <1>6, <2>2, <2>3, <2>4 DEF IInv
<1> QED BY <1>8, <1>9

LEMMA NextKeeps == IInv /\ [Next]_vars => IInv'
<1> SUFFICES ASSUME IInv, [Next]_vars PROVE IInv'
  OBVIOUS
<1>1. \A q \in Requests : Fine(turn[q])
  BY DEF IInv
<1>2. ASSUME NEW r \in Requests, Receive(r) PROVE IInv'
  BY <1>2, ReceiveKeeps
<1>3. ASSUME NEW r \in Requests, Step(r) PROVE IInv'
  <2>1. CASE Store(r)
    BY <2>1, StoreKeeps
  <2>2. CASE ~Store(r)
    <3>1. Wiped(r) \/ \E u : Goes(r, u) /\ Onward(turn[r], u)
      BY <1>1, <1>3, <2>2, RouteMoves, RunToolMoves, StartFlowMoves, AnswerPendingMoves,
         DraftMoves, PlanMoves, GiveUpMoves, ComposeMoves, GuardMoves, PolishMoves, FailMoves
         DEF Step
    <3> QED BY <3>1, MovesKeep, WipeKeeps
  <2> QED BY <2>1, <2>2
<1>4. CASE UNCHANGED vars
  BY <1>4 DEF vars, IInv, Paired, Stored
<1> QED BY <1>2, <1>3, <1>4 DEF Next

-----------------------------------------------------------------------------
(* The theorems                                                            *)

LEMMA Invariance == Spec => []IInv
  BY InitHolds, NextKeeps, PTL DEF Spec

\* Type correctness: whatever the model replies, the counters of the planner's
\* loop and of the guard's passes stay within their limits.
THEOREM TurnTypeCorrect == Spec => []TypeOK
<1>1. IInv => TypeOK
  BY DEF IInv, Fine, Ran, Paired, TypeOK
<1> QED BY <1>1, Invariance, PTL

\* Every answer of the planner that is not the confused one follows a tool that
\* ran for the message (_build_answer_source).
THEOREM AnswersRestOnTools == Spec => []GroundedAnswer
<1>1. IInv => GroundedAnswer
  BY DEF IInv, Fine, Ran, GroundedAnswer
<1> QED BY <1>1, Invariance, PTL

\* No chain of rewrites, judges and polish leaves the question of a confirmation
\* a refusal (enforce_user_facing_answer, should_polish).
THEOREM ConfirmationsAsk == Spec => []ConfirmationNeverRefuses
<1>1. IInv => ConfirmationNeverRefuses
  BY DEF IInv, Fine, Confirms, ConfirmationNeverRefuses
<1> QED BY <1>1, Invariance, PTL

\* The chat pairs, with any number of requests and wipes: finalize_response
\* stores a reply only after respond stored the message it answers, and a silent
\* command leaves nothing unless the router took it for another.
THEOREM ChatPairs == Spec => []HistoryPairs
<1>1. IInv => HistoryPairs
  <2> SUFFICES ASSUME IInv, NEW r \in Requests
      PROVE  /\ \A i \in DOMAIN chat : chat[i] = Entry("assistant", r) =>
                   \/ \E j \in 1..(i - 1) : chat[j] = Entry("user", r)
                   \/ turn[r].since < wipes
                   \/ Overruled(turn[r])
             /\ turn[r].silent /\ ~Overruled(turn[r]) =>
                   ~Stored("user", r) /\ ~Stored("assistant", r)
    BY DEF HistoryPairs
  <2>1. Paired(r)
    BY DEF IInv
  <2> QED BY <2>1 DEF Paired, Stored
<1> QED BY <1>1, Invariance, PTL
=============================================================================
