---------------------------- MODULE RoutingProofs ----------------------------
(***************************************************************************)
(* What holds of the router for every message, whatever runs.  The router  *)
(* is a list of rules and takes the first that applies, so the proofs rest *)
(* on one lemma, DecidedBy: a decision is that of a rule that applies, and *)
(* no rule before it does.  What the router does depends on no more than   *)
(* the words of a message.                                                 *)
(*                                                                         *)
(* What is read of a length does depend on how it was said: the second     *)
(* half proves, of the loops that read numbers and add up amounts, that    *)
(* they compute what was said (EnglishReadAsSaid, SayMore), and of the     *)
(* words of a confirmation that they are read back (ConfirmationReadBack). *)
(* A loop is a recursive function; that there is one for every length, and *)
(* that two that agree at the start and go on alike are the same, is       *)
(* shown by a least counterexample (LoopExists, SumExists, SameSteps).     *)
(***************************************************************************)
EXTENDS MCRouting, WellFoundedInduction, SequenceTheorems, TLAPS

\* A set of natural numbers has a least member.
LEMMA LeastExists ==
    ASSUME NEW S, S \subseteq Nat, S # {}
    PROVE  \E n \in S : \A x \in S : n <= x
<1>1. \E n \in S : \A x \in S : ~(<<x, n>> \in OpToRel(<, Nat))
  BY WFMin, NatLessThanWellFounded
<1>2. \A x, n \in Nat : ~(<<x, n>> \in OpToRel(<, Nat)) => n <= x
  BY DEF OpToRel
<1> QED BY <1>1, <1>2

\* The least of a set of natural numbers, as FiniteSetsExt chooses it.
LEMMA MinIsLeast ==
    ASSUME NEW S, S \subseteq Nat, S # {}
    PROVE  Min(S) \in S /\ \A x \in S : Min(S) <= x
  BY LeastExists DEF Min

\* Where the router stops: at a rule that applies, after rules that do not.
LEMMA FirstRule ==
    ASSUME NEW rules, Len(rules) \in Nat, NEW k \in 1..Len(rules), rules[k].applies
    PROVE  \E i \in 1..Len(rules) :
              /\ SelectInSeq(rules, LAMBDA r : r.applies) = i
              /\ rules[i].applies /\ \A j \in 1..(i - 1) : ~rules[j].applies
<1> DEFINE I == {i \in 1..Len(rules) : rules[i].applies}
<1>1. I # {} /\ I \subseteq Nat
  OBVIOUS
<1>2. SelectInSeq(rules, LAMBDA r : r.applies) = Min(I)
  BY <1>1 DEF SelectInSeq
<1>3. Min(I) \in I /\ \A x \in I : Min(I) <= x
  BY <1>1, MinIsLeast
<1>4. /\ Min(I) \in 1..Len(rules) /\ rules[Min(I)].applies
      /\ \A j \in 1..(Min(I) - 1) : ~rules[j].applies
  BY <1>3
<1> QED BY <1>2, <1>4, Zenon

\* What TLAPS needs to take the rules for a sequence.
LEMMA TupleIsSeq ==
    ASSUME NEW n \in Nat, NEW X, NEW f \in [1..n -> X]
    PROVE  f \in Seq(X)
  OBVIOUS

LEMMA TimerRulesAre ==
    ASSUME NEW m, NEW c, NEW s
    PROVE  LET T == TimerRules(m, c, s) IN Len(T) = 10 /\ T = [i \in 1..10 |-> T[i]]
  BY DEF TimerRules

LEMMA OtherRulesAre ==
    ASSUME NEW m
    PROVE  LET O == OtherRules(m) IN Len(O) = 14 /\ O = [i \in 1..14 |-> O[i]] /\ O[14].applies
  BY DEF OtherRules, Rule

\* The router's decision: that of the first rule that applies, about timers, then
\* the open question, then the others.
LEMMA DecidedBy ==
    ASSUME NEW m, NEW c, NEW s, NEW p \in BOOLEAN
    PROVE  LET T == TimerRules(m, c, s)
               O == OtherRules(m)
               d == Decide(m, c, s, p)
           IN  \/ \E i \in 1..10 : /\ d = T[i].decision /\ T[i].applies
                                   /\ \A j \in 1..(i - 1) : ~T[j].applies
               \/ /\ p /\ d = Mode("pending")
                  /\ \A j \in 1..10 : ~T[j].applies
               \/ /\ ~p /\ \A j \in 1..10 : ~T[j].applies
                  /\ \E i \in 1..14 : /\ d = O[i].decision /\ O[i].applies
                                      /\ \A j \in 1..(i - 1) : ~O[j].applies
<1> DEFINE T == TimerRules(m, c, s)
           O == OtherRules(m)
           P == Rule(p, Mode("pending"))
           X == {T[i] : i \in 1..10} \cup {O[i] : i \in 1..14} \cup {P}
           rules == T \o <<P>> \o O
           d == Decide(m, c, s, p)
<1>1. Len(T) = 10 /\ T \in Seq(X)
  <2>1. Len(T) = 10 /\ T = [i \in 1..10 |-> T[i]]
    BY TimerRulesAre
  <2>2. T \in [1..10 -> X]
    BY <2>1
  <2> QED BY <2>1, <2>2, TupleIsSeq
<1>2. Len(O) = 14 /\ O \in Seq(X) /\ O[14].applies
  <2>1. Len(O) = 14 /\ O = [i \in 1..14 |-> O[i]] /\ O[14].applies
    BY OtherRulesAre
  <2>2. O \in [1..14 -> X]
    BY <2>1
  <2> QED BY <2>1, <2>2, TupleIsSeq
<1>3. P \in X /\ P.applies = p /\ P.decision = Mode("pending")
  BY DEF Rule
<1>4. d = rules[SelectInSeq(rules, LAMBDA r : r.applies)].decision
  BY DEF Decide
<1> HIDE DEF T, O, P, X
<1>5. /\ Len(rules) = 25 /\ \A i \in 1..10 : rules[i] = T[i]
      /\ rules[11] = P /\ \A i \in 1..14 : rules[11 + i] = O[i]
  <2> DEFINE u == T \o <<P>>
  <2>1. <<P>> \in Seq(X) /\ Len(<<P>>) = 1 /\ <<P>>[1] = P
    BY <1>3
  <2>2. /\ u \in Seq(X) /\ Len(u) = Len(T) + Len(<<P>>)
        /\ \A i \in 1..(Len(T) + Len(<<P>>)) :
              u[i] = IF i <= Len(T) THEN T[i] ELSE <<P>>[i - Len(T)]
    BY <1>1, <2>1, ConcatProperties
  <2> HIDE DEF u
  <2>3. /\ Len(u \o O) = Len(u) + Len(O)
        /\ \A i \in 1..(Len(u) + Len(O)) :
              (u \o O)[i] = IF i <= Len(u) THEN u[i] ELSE O[i - Len(u)]
    <3>1. u \in Seq(X) /\ O \in Seq(X)
      BY <1>2, <2>2
    <3> QED BY ONLY <3>1, ConcatProperties
  <2>4. Len(u) = 11 /\ (\A i \in 1..10 : u[i] = T[i]) /\ u[11] = P
    <3> DEFINE one == <<P>>
    <3>1. /\ Len(one) = 1 /\ one[1] = P /\ Len(u) = Len(T) + Len(one)
          /\ \A i \in 1..(Len(T) + Len(one)) : u[i] = IF i <= Len(T) THEN T[i] ELSE one[i - Len(T)]
      BY <2>1, <2>2
    <3> HIDE DEF one
    <3> QED BY <1>1, <3>1
  <2>5. /\ Len(u \o O) = 25
        /\ \A i \in 1..25 : (u \o O)[i] = IF i <= 11 THEN u[i] ELSE O[i - 11]
    <3> DEFINE w == u \o O
    <3>1. /\ Len(w) = Len(u) + Len(O)
          /\ \A i \in 1..(Len(u) + Len(O)) : w[i] = IF i <= Len(u) THEN u[i] ELSE O[i - Len(u)]
      BY <2>3
    <3> HIDE DEF w
    <3>2. Len(u) = 11 /\ Len(O) = 14 /\ Len(u) + Len(O) = 25
      BY <1>2, <2>4
    <3>3. Len(w) = 25 /\ \A i \in 1..25 : w[i] = IF i <= 11 THEN u[i] ELSE O[i - 11]
      BY <3>1, <3>2
    <3> QED BY <3>3 DEF w
  <2>6. rules = u \o O
    BY DEF u
  <2> HIDE DEF rules
  <2>7. Len(rules) = 25 /\ \A i \in 1..25 : rules[i] = IF i <= 11 THEN u[i] ELSE O[i - 11]
    BY <2>5, <2>6, Zenon
  <2> QED BY <2>4, <2>7
<1> HIDE DEF rules
<1>6. rules[25].applies
  <2>1. 14 \in 1..14 /\ 11 + 14 = 25
    OBVIOUS
  <2>2. rules[11 + 14] = O[14]
    BY <1>5, <2>1, Zenon
  <2> QED BY <1>2, <2>1, <2>2, Zenon
<1>7. PICK i \in 1..25 : /\ SelectInSeq(rules, LAMBDA r : r.applies) = i
                         /\ rules[i].applies /\ \A j \in 1..(i - 1) : ~rules[j].applies
  <2>1. Len(rules) \in Nat /\ Len(rules) = 25 /\ 25 \in 1..Len(rules)
    BY <1>5
  <2>2. \E i \in 1..Len(rules) :
           /\ SelectInSeq(rules, LAMBDA r : r.applies) = i
           /\ rules[i].applies /\ \A j \in 1..(i - 1) : ~rules[j].applies
    BY <1>6, <2>1, FirstRule, Zenon
  <2> QED BY <2>1, <2>2, Zenon
<1>8. d = rules[i].decision
  BY <1>4, <1>7, Zenon
<1> HIDE DEF d
<1>9. rules[i].applies /\ \A j \in 1..(i - 1) : ~rules[j].applies
  BY <1>7, Zenon
<1>10. CASE i \in 1..10
  <2>1. \A j \in 1..(i - 1) : ~T[j].applies
    BY <1>5, <1>9, <1>10
  <2> QED BY <1>5, <1>8, <1>9, <1>10, <2>1 DEF T, d
<1>11. CASE i = 11
  <2>1. \A j \in 1..10 : ~T[j].applies
    BY <1>5, <1>9, <1>11
  <2>2. p /\ d = Mode("pending")
    BY <1>3, <1>5, <1>8, <1>9, <1>11
  <2> QED BY <2>1, <2>2 DEF T, d
<1>12. CASE i \in 12..25
  <2>1. \A j \in 1..10 : ~T[j].applies
    BY <1>5, <1>9, <1>12
  <2>2. ~p
    <3>1. ~rules[11].applies
      BY <1>9, <1>12
    <3> QED BY <1>3, <1>5, <3>1
  <2>3. /\ i - 11 \in 1..14 /\ d = O[i - 11].decision /\ O[i - 11].applies
    <3>1. i - 11 \in 1..14 /\ 11 + (i - 11) = i
      BY <1>12
    <3> QED BY <1>5, <1>8, <1>9, <3>1
  <2>4. \A j \in 1..(i - 11 - 1) : ~O[j].applies
    <3> SUFFICES ASSUME NEW j \in 1..(i - 11 - 1) PROVE ~O[j].applies
      OBVIOUS
    <3>1. 11 + j \in 1..(i - 1) /\ j \in 1..14
      BY <1>12
    <3> QED BY <1>5, <1>9, <3>1
  <2> QED BY <2>1, <2>2, <2>3, <2>4 DEF T, O, d
<1> QED BY <1>10, <1>11, <1>12, SMTT(30)
-----------------------------------------------------------------------------
(* The planner's gate and the router's rules                               *)

LEMMA Gate ==
    ASSUME NEW m
    PROVE  /\ ToolMatches(m, "start_timer") <=> IsTimerStart(m)
           /\ ToolMatches(m, "start_stopwatch") <=> IsStopwatchStart(m)
           /\ ToolMatches(m, "stop_stopwatches") <=> IsStopwatchStop(m)
           /\ ToolMatches(m, "rename_timer") <=> IsTimerRename(m)
           /\ ToolMatches(m, "rename_stopwatch") <=> IsStopwatchRename(m)
           /\ ToolMatches(m, "clear_all_timers") <=> IsClearAll(m)
           /\ ToolMatches(m, "list_timers") <=> IsTimerStatus(m)
           /\ ToolMatches(m, "cancel_timers") <=> IsTimerCancel(m)
           /\ ToolMatches(m, "check_health") <=> IsHealthCheck(m)
           /\ ToolMatches(m, "analyze_system") <=> IsSystemAnalysis(m)
           /\ ToolMatches(m, "list_internal_notes") <=> IsNoteList(m)
<1>1. ToolMatches(m, "start_timer") <=> IsTimerStart(m)
  BY DEF ToolMatches, Tools, TimerTools, FlowOwned, Keywords
<1>2. ToolMatches(m, "start_stopwatch") <=> IsStopwatchStart(m)
  BY DEF ToolMatches, Tools, TimerTools, FlowOwned, Keywords
<1>3. ToolMatches(m, "stop_stopwatches") <=> IsStopwatchStop(m)
  BY DEF ToolMatches, Tools, TimerTools, FlowOwned, Keywords
<1>4. ToolMatches(m, "rename_timer") <=> IsTimerRename(m)
  BY DEF ToolMatches, Tools, TimerTools, FlowOwned, Keywords
<1>5. ToolMatches(m, "rename_stopwatch") <=> IsStopwatchRename(m)
  BY DEF ToolMatches, Tools, TimerTools, FlowOwned, Keywords
<1>6. ToolMatches(m, "clear_all_timers") <=> IsClearAll(m)
  BY DEF ToolMatches, Tools, TimerTools, FlowOwned, Keywords
<1>7. ToolMatches(m, "list_timers") <=> IsTimerStatus(m)
  BY DEF ToolMatches, Tools, TimerTools, FlowOwned, Keywords
<1>8. ToolMatches(m, "cancel_timers") <=> IsTimerCancel(m)
  BY DEF ToolMatches, Tools, TimerTools, FlowOwned, Keywords
<1>9. ToolMatches(m, "check_health") <=> IsHealthCheck(m)
  BY DEF ToolMatches, Tools, TimerTools, FlowOwned, Keywords
<1>10. ToolMatches(m, "analyze_system") <=> IsSystemAnalysis(m)
  BY DEF ToolMatches, Tools, TimerTools, FlowOwned, Keywords
<1>11. ToolMatches(m, "list_internal_notes") <=> IsNoteList(m)
  BY DEF ToolMatches, Tools, TimerTools, FlowOwned, Keywords
<1> QED BY <1>1, <1>2, <1>3, <1>4, <1>5, <1>6, <1>7, <1>8, <1>9, <1>10, <1>11

\* "stop stopwatch 3" is a stop, "cancel timer 3" a cancel.
LEMMA StopByIdStops == ASSUME NEW m, StopsById(m) PROVE IsStopwatchStop(m)
<1> DEFINE n == Normalized(m)
<1>1. n = <<"stop", "stopwatch", "3">> \/ n = <<"stop", "stopwatch", "blank", "3">>
  BY DEF StopsById, Numbers
<1> HIDE DEF n
<1>2. {1, 2} \subseteq DOMAIN n /\ n[1] = "stop" /\ n[2] = "stopwatch"
  BY <1>1
<1>3. HasStopwatchTrigger(n) /\ HasCancelKeyword(n)
  BY <1>2 DEF HasStopwatchTrigger, HasCancelKeyword, Has, StopwatchWords, CancelWords
<1> QED BY <1>3 DEF IsStopwatchStop, n

LEMMA CancelByIdCancels == ASSUME NEW m, CancelsById(m) PROVE IsTimerCancel(m)
  BY DEF CancelsById, IsTimerCancel, HasTimerTrigger, HasCancelKeyword, Has, TimerWords,
         CancelWords, Numbers

\* The rules about timers, by what they decide.
LEMMA TimerRule ==
    ASSUME NEW m, NEW c, NEW s, NEW i \in 1..10, TimerRules(m, c, s)[i].applies
    PROVE  LET d == TimerRules(m, c, s)[i].decision
           IN  \/ d = Mode("direct")
               \/ /\ d.mode = "tool" /\ ToolMatches(m, d.name)
                  /\ d.name \in TimerTools
  BY Gate, StopByIdStops, CancelByIdCancels
     DEF TimerRules, Rule, Tool, Mode, Decision, TimerTools, FlowOwned

LEMMA OtherRule ==
    ASSUME NEW m, NEW i \in 1..14, OtherRules(m)[i].applies
    PROVE  LET d == OtherRules(m)[i].decision
           IN  /\ d.mode = "tool" => ToolMatches(m, d.name)
               /\ d.mode \in {"tool", "interaction", "capabilities", "identity", "answer",
                              "planner", "confused"}
               /\ d.mode = "planner" <=> i = 13
  BY Gate DEF OtherRules, Rule, Tool, Interaction, Mode, Decision

\* Whatever runs and whatever is asked, a tool that is chosen fits the message.
LEMMA ToolFits ==
    ASSUME NEW m, NEW c, NEW s, NEW p \in BOOLEAN, Decide(m, c, s, p).mode = "tool"
    PROVE  ToolMatches(m, Decide(m, c, s, p).name)
<1> DEFINE d == Decide(m, c, s, p)
<1>1. CASE \E i \in 1..10 : d = TimerRules(m, c, s)[i].decision /\ TimerRules(m, c, s)[i].applies
  BY <1>1, TimerRule DEF Mode, Decision
<1>2. CASE \E i \in 1..14 : d = OtherRules(m)[i].decision /\ OtherRules(m)[i].applies
  BY <1>2, OtherRule
<1>3. CASE d = Mode("pending")
  BY <1>3 DEF Mode, Decision
<1> QED BY <1>1, <1>2, <1>3, DecidedBy

\* A message for the planner: none of the rules before the planner's applies.
LEMMA Planned ==
    ASSUME NEW m, NEW c, NEW s, NEW p \in BOOLEAN, Decide(m, c, s, p).mode = "planner"
    PROVE  /\ ~p /\ \A j \in 1..10 : ~TimerRules(m, c, s)[j].applies
           /\ \A j \in 1..12 : ~OtherRules(m)[j].applies
<1> DEFINE d == Decide(m, c, s, p)
           T == TimerRules(m, c, s)
           O == OtherRules(m)
<1>1. ~\E i \in 1..10 : d = T[i].decision /\ T[i].applies
  BY TimerRule DEF Mode, Decision
<1>2. d # Mode("pending")
  BY DEF Mode, Decision
<1>3. ASSUME NEW i \in 1..14, d = O[i].decision, O[i].applies
      PROVE  i = 13
  BY <1>3, OtherRule
<1> HIDE DEF d, T, O
<1>4. /\ ~p /\ \A j \in 1..10 : ~T[j].applies
      /\ \E i \in 1..14 : d = O[i].decision /\ O[i].applies /\ \A j \in 1..(i - 1) : ~O[j].applies
  <2>1. \/ \E i \in 1..10 : /\ d = T[i].decision /\ T[i].applies
                            /\ \A j \in 1..(i - 1) : ~T[j].applies
        \/ p /\ d = Mode("pending") /\ \A j \in 1..10 : ~T[j].applies
        \/ /\ ~p /\ \A j \in 1..10 : ~T[j].applies
           /\ \E i \in 1..14 : /\ d = O[i].decision /\ O[i].applies
                               /\ \A j \in 1..(i - 1) : ~O[j].applies
    BY DecidedBy DEF d, T, O
  <2> QED BY ONLY <1>1, <1>2, <2>1
<1>5. \A j \in 1..12 : ~O[j].applies
  BY <1>3, <1>4
<1> QED BY <1>4, <1>5 DEF T, O

-----------------------------------------------------------------------------
(* Commands for one row                                                    *)

\* What the spelling of "stop watch" changes: nothing but the two words.
LEMMA Spelling ==
    ASSUME NEW m
    PROVE  LET n == Normalized(m)
           IN  /\ DOMAIN n = DOMAIN m
               /\ \A i \in DOMAIN m : m[i] \notin {"stop", "watch"} => n[i] = m[i]
               /\ \A i \in DOMAIN m : n[i] \in {"blank", "stopwatch", m[i]}
               /\ \A i \in DOMAIN m : n[i] = "stopwatch" /\ m[i] # "stopwatch" =>
                     m[i] = "stop" /\ i + 1 \in DOMAIN m /\ m[i + 1] = "watch"
<1> DEFINE n == Normalized(m)
<1>1. DOMAIN n = DOMAIN m
  BY DEF Normalized
<1>2. ASSUME NEW i \in DOMAIN m
      PROVE  /\ m[i] \notin {"stop", "watch"} => n[i] = m[i]
             /\ n[i] \in {"blank", "stopwatch", m[i]}
             /\ n[i] = "stopwatch" /\ m[i] # "stopwatch" =>
                     m[i] = "stop" /\ i + 1 \in DOMAIN m /\ m[i + 1] = "watch"
  <2>1. n[i] = CASE m[i] = "watch" /\ i - 1 \in DOMAIN m /\ m[i - 1] = "stop" -> "blank"
                 [] m[i] = "stop" /\ i + 1 \in DOMAIN m /\ m[i + 1] = "watch" -> "stopwatch"
                 [] OTHER -> m[i]
    BY DEF Normalized
  <2> HIDE DEF n
  <2> QED BY <2>1
<1> QED BY <1>1, <1>2

\* A keyword that is no half of "stop watch" is there before and after.
LEMMA KeywordKept ==
    ASSUME NEW m, NEW W, W \cap {"stop", "watch"} = {}, Has(m, W)
    PROVE  Has(Normalized(m), W)
  BY Spelling DEF Has

LEMMA KeywordThere ==
    ASSUME NEW m, NEW W, W \cap {"blank", "stopwatch"} = {}, Has(Normalized(m), W)
    PROVE  Has(m, W)
  BY Spelling DEF Has

LEMMA ShortCancel ==
    ASSUME NEW m, CancelsById(m)
    PROVE  /\ m = <<"cancel", "timer", "3">>
           /\ HasCancelKeyword(Normalized(m)) /\ ~HasStopwatchTrigger(Normalized(m))
           /\ ~StopsById(m)
<1> DEFINE n == Normalized(m)
<1>1. m = <<"cancel", "timer", "3">>
  BY DEF CancelsById, Numbers
<1>2. /\ DOMAIN m = 1..3 /\ m[1] = "cancel" /\ m[2] = "timer" /\ m[3] = "3"
  BY <1>1
<1>3. DOMAIN n = 1..3 /\ n[1] = "cancel" /\ n[2] = "timer" /\ n[3] = "3"
  <2>1. /\ DOMAIN n = DOMAIN m
        /\ \A i \in DOMAIN m : m[i] \notin {"stop", "watch"} => n[i] = m[i]
    BY Spelling
  <2> QED BY ONLY <1>2, <2>1
<1> HIDE DEF n
<1>4. HasCancelKeyword(n)
  BY <1>3 DEF HasCancelKeyword, Has, CancelWords
<1>5. ~HasStopwatchTrigger(n)
  BY <1>3 DEF HasStopwatchTrigger, Has, Phrase, StopwatchWords
<1>6. ~StopsById(m)
  <2>1. n # <<"stop", "stopwatch", "3">> /\ n # <<"stop", "stopwatch", "blank", "3">>
    BY <1>3
  <2> QED BY <2>1 DEF StopsById, Numbers, n
<1> QED BY <1>1, <1>4, <1>5, <1>6 DEF n

LEMMA ShortStop ==
    ASSUME NEW m, StopsById(m)
    PROVE  /\ HasCancelKeyword(Normalized(m))
           /\ ~IsClearAll(m) /\ ~IsStopwatchRename(m) /\ ~IsTimerRename(m) /\ ~CancelsById(m)
<1> DEFINE n == Normalized(m)
<1>1. n = <<"stop", "stopwatch", "3">> \/ n = <<"stop", "stopwatch", "blank", "3">>
  BY DEF StopsById, Numbers
<1>2. 1 \in DOMAIN n /\ n[1] = "stop" /\ \A i \in DOMAIN n : n[i] \in {"stop", "stopwatch", "blank", "3"}
  <2> HIDE DEF n
  <2>1. CASE n = <<"stop", "stopwatch", "3">>
    BY <2>1
  <2>2. CASE n = <<"stop", "stopwatch", "blank", "3">>
    BY <2>2
  <2> QED BY <1>1, <2>1, <2>2
<1>3. HasCancelKeyword(n)
  <2> HIDE DEF n
  <2> QED BY <1>2 DEF HasCancelKeyword, Has, CancelWords
<1>4. ~Has(m, {"all"})
  <2>1. ~Has(n, {"all"})
    <3> HIDE DEF n
    <3> QED BY <1>2 DEF Has
  <2>2. {"all"} \cap {"stop", "watch"} = {}
    OBVIOUS
  <2> QED BY <2>1, <2>2, KeywordKept
<1>5. m[1] = "stop"
  <2>1. DOMAIN n = DOMAIN m /\ \A i \in DOMAIN m : n[i] \in {"blank", "stopwatch", m[i]}
    BY Spelling
  <2> QED BY ONLY <1>2, <2>1
<1>6. ~RenamesById(m, "stopwatch") /\ ~RenamesById(m, "timer")
  <2>1. ASSUME NEW kind, NEW k PROVE ~Begins(m, <<"rename", kind, k, "to">>)
    <3>1. 1 \in DOMAIN <<"rename", kind, k, "to">> /\ <<"rename", kind, k, "to">>[1] = "rename"
      OBVIOUS
    <3> QED BY <1>5, <3>1 DEF Begins
  <2> QED BY <2>1 DEF RenamesById
<1>7. ~RenamesByLabel(m, "stopwatch") /\ ~RenamesByLabel(m, "timer") /\ ~CancelsById(m)
  BY <1>5 DEF RenamesByLabel, CancelsById
<1> QED BY <1>3, <1>4, <1>6, <1>7 DEF IsClearAll, IsStopwatchRename, IsTimerRename

\* A rule that applies is the last one that can be chosen.
LEMMA DecidedSoon ==
    ASSUME NEW m, NEW c, NEW s, NEW p \in BOOLEAN,
           NEW k \in 1..10, TimerRules(m, c, s)[k].applies
    PROVE  \E i \in 1..k : /\ Decide(m, c, s, p) = TimerRules(m, c, s)[i].decision
                           /\ TimerRules(m, c, s)[i].applies
<1> DEFINE T == TimerRules(m, c, s)
           O == OtherRules(m)
           d == Decide(m, c, s, p)
<1>1. \E i \in 1..10 : d = T[i].decision /\ T[i].applies /\ \A j \in 1..(i - 1) : ~T[j].applies
  BY DecidedBy
<1> HIDE DEF T, d
<1>2. T[k].applies
  BY DEF T
<1> QED BY <1>1, <1>2 DEF T, d

\* A silent command is always answered by a tool.
LEMMA SilentCommandIsTool ==
    ASSUME NEW m, NEW c, NEW s, NEW p \in BOOLEAN, IsSilentCommand(m)
    PROVE  Decide(m, c, s, p).mode = "tool"
<1> DEFINE T == TimerRules(m, c, s)
           d == Decide(m, c, s, p)
<1>1. \A i \in {1, 2, 3, 4, 5, 7, 8} : T[i].decision.mode = "tool"
  BY DEF TimerRules, Rule, Tool, Decision
<1>2. CASE IsTimerRename(m) \/ IsStopwatchRename(m) \/ StopsById(m)
  <2>1. PICK k \in 3..5 : T[k].applies
    <3>1. T[3].applies \/ T[4].applies \/ T[5].applies
      BY <1>2 DEF TimerRules, Rule
    <3> QED BY <3>1
  <2>2. \E i \in 1..k : d = T[i].decision /\ T[i].applies
    BY <2>1, DecidedSoon
  <2> HIDE DEF T, d
  <2>3. PICK i \in 1..5 : d = T[i].decision
    BY <2>1, <2>2
  <2> QED BY <1>1, <2>3 DEF d
<1>3. CASE CancelsById(m)
  <2>1. T[8].applies /\ ~T[6].applies
    BY <1>3, ShortCancel DEF TimerRules, Rule, IsAmbiguousStop, IsStopwatchStop
  <2>2. \E i \in 1..8 : d = T[i].decision /\ T[i].applies
    BY <2>1, DecidedSoon
  <2> HIDE DEF T, d
  <2>3. PICK i \in 1..8 \ {6} : d = T[i].decision
    BY <2>1, <2>2
  <2> QED BY <1>1, <2>3 DEF d
<1> QED BY <1>2, <1>3 DEF IsSilentCommand

-----------------------------------------------------------------------------
(* The theorems                                                            *)

\* The tool the router chooses is one the planner's gate allows the message,
\* for every message and whatever runs: AgentRouter.decide reads ids first and
\* looks at the counts, tool_matches_request (rules/tools.py) does neither, and
\* yet the gate would never refuse what the router has chosen.
THEOREM RouterAndGateAgree == MCSpec => []RouterToolAccepted
<1>1. ASSUME NEW d \in Decisions, d.mode = "tool" PROVE ToolMatches(message, d.name)
  BY <1>1, ToolFits DEF Decisions
<1>2. RouterToolAccepted
  BY <1>1 DEF RouterToolAccepted
<1> QED BY <1>2, PTL

\* A message that gets as far as the planner matches none of the tools that
\* have a rule of their own, for every message: the gate of the turn refuses
\* the model every timer tool, however it misreads the message.
THEOREM PlannerKeptFromTimers == MCSpec => []PlannerLeavesTimersAlone
<1>1. ASSUME Decide(message, 0, 0, FALSE).mode = "planner",
             NEW t \in Tools \ DOMAIN Keywords
      PROVE  ~ToolMatches(message, t)
  <2> DEFINE T == TimerRules(message, 0, 0)
             O == OtherRules(message)
  <2>1. (\A j \in 1..10 : ~T[j].applies) /\ \A j \in 1..12 : ~O[j].applies
    BY <1>1, Planned
  <2>2. /\ ~IsTimerStatus(message) /\ ~IsClearAll(message) /\ ~IsStopwatchRename(message)
        /\ ~IsTimerRename(message) /\ ~IsStopwatchStop(message) /\ ~IsTimerCancel(message)
    BY <2>1 DEF TimerRules, Rule
  <2>3. /\ ~IsStopwatchStart(message) /\ ~IsTimerStart(message) /\ ~IsHealthCheck(message)
        /\ ~IsSystemAnalysis(message) /\ ~IsNoteList(message)
    <3>1. ~O[1].applies /\ ~O[2].applies /\ ~O[7].applies /\ ~O[8].applies /\ ~O[9].applies
      BY <2>1
    <3> QED BY <3>1 DEF OtherRules, Rule
  <2> QED BY <2>2, <2>3, Gate DEF Tools, TimerTools, FlowOwned
<1>2. PlannerLeavesTimersAlone
  BY <1>1 DEF PlannerLeavesTimersAlone
<1> QED BY <1>2, PTL

\* The button of one row's cancel or stop cancels or stops that row, for every
\* message and whatever runs or is asked: the rules that would take it for a
\* question about the timers, a rename or the stop of all rows do not apply.
THEOREM IdCommandsHit == MCSpec => []IdCommandHitsItsTarget
<1>1. ASSUME CancelsById(message), NEW c, NEW s, NEW p \in BOOLEAN
      PROVE  Decide(message, c, s, p) = Tool("cancel_timers", "one")
  <2> DEFINE T == TimerRules(message, c, s)
             d == Decide(message, c, s, p)
  <2>1. /\ message = <<"cancel", "timer", "3">> /\ ~StopsById(message)
        /\ ~IsTimerStatus(message) /\ ~IsStopwatchStop(message) /\ ~IsAmbiguousStop(message)
    BY <1>1, ShortCancel DEF IsTimerStatus, IsStopwatchStop, IsAmbiguousStop
  <2>2. ~IsClearAll(message)
    BY <2>1 DEF IsClearAll, Has
  <2>3. ~IsTimerRename(message) /\ ~IsStopwatchRename(message)
    BY <2>1 DEF IsTimerRename, IsStopwatchRename, RenamesById, RenamesByLabel
  <2>4. \A i \in 1..7 : ~T[i].applies
    <3>1. /\ ~T[1].applies /\ ~T[2].applies /\ ~T[3].applies /\ ~T[4].applies
          /\ ~T[5].applies /\ ~T[6].applies /\ ~T[7].applies
      BY <2>1, <2>2, <2>3 DEF TimerRules, Rule
    <3> HIDE DEF T
    <3> QED BY <3>1
  <2>5. T[8].applies /\ T[8].decision = Tool("cancel_timers", "one")
    BY <1>1 DEF TimerRules, Rule
  <2>6. \E i \in 1..8 : d = T[i].decision /\ T[i].applies
    BY <2>5, DecidedSoon
  <2> HIDE DEF T, d
  <2>7. d = T[8].decision
    BY <2>4, <2>6
  <2> QED BY <2>5, <2>7 DEF d
<1>2. ASSUME StopsById(message), NEW c, NEW s, NEW p \in BOOLEAN
      PROVE  Decide(message, c, s, p) = Tool("stop_stopwatches", "one")
  <2> DEFINE T == TimerRules(message, c, s)
             d == Decide(message, c, s, p)
  <2>1. \A i \in 1..4 : ~T[i].applies
    <3>1. ~T[1].applies /\ ~T[2].applies /\ ~T[3].applies /\ ~T[4].applies
      BY <1>2, ShortStop DEF TimerRules, Rule, IsTimerStatus
    <3> HIDE DEF T
    <3> QED BY <3>1
  <2>2. T[5].applies /\ T[5].decision = Tool("stop_stopwatches", "one")
    BY <1>2 DEF TimerRules, Rule
  <2>3. \E i \in 1..5 : d = T[i].decision /\ T[i].applies
    BY <2>2, DecidedSoon
  <2> HIDE DEF T, d
  <2>4. d = T[5].decision
    BY <2>1, <2>3
  <2> QED BY <2>2, <2>4 DEF d
<1>3. CancelsById(message) => Decisions = {Tool("cancel_timers", "one")}
  <2> SUFFICES ASSUME CancelsById(message) PROVE Decisions = {Tool("cancel_timers", "one")}
    OBVIOUS
  <2>1. Decisions # {}
    <3>1. ASSUME NEW c \in {1, 2}, NEW s \in {1, 2}, NEW p \in BOOLEAN
          PROVE  Decide(message, c, s, p) \in Decisions
      BY DEF Decisions
    <3>2. \E c \in {1, 2}, s \in {1, 2}, p \in BOOLEAN : TRUE
      OBVIOUS
    <3> QED BY <3>1, <3>2, Zenon
  <2>2. \A d \in Decisions : d = Tool("cancel_timers", "one")
    BY <1>1 DEF Decisions
  <2> QED BY <2>1, <2>2
<1>4. StopsById(message) => Decisions = {Tool("stop_stopwatches", "one")}
  <2> SUFFICES ASSUME StopsById(message) PROVE Decisions = {Tool("stop_stopwatches", "one")}
    OBVIOUS
  <2>1. Decisions # {}
    <3>1. ASSUME NEW c \in {1, 2}, NEW s \in {1, 2}, NEW p \in BOOLEAN
          PROVE  Decide(message, c, s, p) \in Decisions
      BY DEF Decisions
    <3>2. \E c \in {1, 2}, s \in {1, 2}, p \in BOOLEAN : TRUE
      OBVIOUS
    <3> QED BY <3>1, <3>2, Zenon
  <2>2. \A d \in Decisions : d = Tool("stop_stopwatches", "one")
    BY <1>2 DEF Decisions
  <2> QED BY <2>1, <2>2
<1>5. IdCommandHitsItsTarget
  BY <1>3, <1>4 DEF IdCommandHitsItsTarget
<1> QED BY <1>5, PTL

-----------------------------------------------------------------------------
(* Messages are sequences                                                  *)

\* Anything a message is built from.
Fillers == {"rename", "timer", "stopwatch", "3", "to", "the", "'tea'", "start", "a", "for",
            "an", "and", "one", "hundred", "hyphen"}
Spoken == Words \cup Units \cup Fillers
          \cup {Word(k, SmallNumbers) : k \in Nat} \cup {Word(k, Tens) : k \in Nat}
          \cup {ToString(k) : k \in Nat}

LEMMA SpokenWords ==
    /\ Words \subseteq Spoken /\ Units \subseteq Spoken /\ Fillers \subseteq Spoken
    /\ \A k \in Nat : {Word(k, SmallNumbers), Word(k, Tens), ToString(k)} \subseteq Spoken
  BY DEF Spoken

LEMMA FillersAre ==
    /\ "rename" \in Fillers /\ "timer" \in Fillers /\ "stopwatch" \in Fillers
    /\ "3" \in Fillers /\ "to" \in Fillers /\ "the" \in Fillers /\ "'tea'" \in Fillers
    /\ "start" \in Fillers /\ "a" \in Fillers /\ "for" \in Fillers /\ "an" \in Fillers
    /\ "and" \in Fillers /\ "one" \in Fillers /\ "hundred" \in Fillers /\ "hyphen" \in Fillers
  BY Zenon DEF Fillers

LEMMA Joins ==
    ASSUME NEW X, NEW s \in Seq(X), NEW t \in Seq(X)
    PROVE  s \o t \in Seq(X)
  BY ConcatProperties

LEMMA OneWord == ASSUME NEW X, NEW w \in X PROVE <<w>> \in Seq(X)
  OBVIOUS

LEMMA TwoWords == ASSUME NEW X, NEW v \in X, NEW w \in X PROVE <<v, w>> \in Seq(X)
  OBVIOUS

LEMMA FiveWords ==
    ASSUME NEW X, NEW u \in X, NEW v \in X, NEW w \in X, NEW x \in X, NEW y \in X
    PROVE  <<u, v, w, x, y>> \in Seq(X)
  OBVIOUS

LEMMA SpokenNumber ==
    ASSUME NEW n \in Nat, NEW numeral \in Numeral(n)
    PROVE  numeral \in Seq(Spoken)
<1>1. \A k \in Nat : BelowHundred(k) \in Seq(Spoken)
  <2> SUFFICES ASSUME NEW k \in Nat PROVE BelowHundred(k) \in Seq(Spoken)
    OBVIOUS
  <2>1. 10 * (k \div 10) \in Nat /\ k % 10 \in Nat
    OBVIOUS
  <2>2. /\ Word(k, SmallNumbers) \in Spoken /\ Word(k % 10, SmallNumbers) \in Spoken
        /\ Word(10 * (k \div 10), Tens) \in Spoken /\ "hyphen" \in Spoken
    BY <2>1, SpokenWords, FillersAre
  <2>3. <<Word(k, SmallNumbers)>> \in Seq(Spoken)
    BY <2>2, OneWord
  <2>4. <<Word(10 * (k \div 10), Tens)>> \in Seq(Spoken)
    BY <2>2, OneWord
  <2>5. <<>> \in Seq(Spoken) /\ <<"hyphen", Word(k % 10, SmallNumbers)>> \in Seq(Spoken)
    BY <2>2, TwoWords, EmptySeq
  <2>6. (IF k % 10 = 0 THEN <<>> ELSE <<"hyphen", Word(k % 10, SmallNumbers)>>) \in Seq(Spoken)
    BY <2>5
  <2>7. <<Word(10 * (k \div 10), Tens)>>
           \o (IF k % 10 = 0 THEN <<>> ELSE <<"hyphen", Word(k % 10, SmallNumbers)>>) \in Seq(Spoken)
    BY <2>4, <2>6, Joins
  <2> QED BY <2>3, <2>7 DEF BelowHundred
<1>2. \A k \in Nat : \A r \in Rest(k) : r \in Seq(Spoken)
  <2> SUFFICES ASSUME NEW k \in Nat PROVE <<"and">> \o BelowHundred(k) \in Seq(Spoken)
    BY <1>1 DEF Rest
  <2>1. <<"and">> \in Seq(Spoken)
    BY SpokenWords, FillersAre, OneWord
  <2> QED BY <1>1, <2>1, Joins
<1>3. \A k \in Nat : \A h \in Hundreds(k) : h \in Seq(Spoken)
  <2> SUFFICES ASSUME NEW k \in Nat, NEW h \in Hundreds(k) PROVE h \in Seq(Spoken)
    OBVIOUS
  <2>1. /\ "one" \in Spoken /\ "a" \in Spoken /\ "hundred" \in Spoken
        /\ Word(k, SmallNumbers) \in Spoken
    BY SpokenWords, FillersAre
  <2>2. /\ <<"one", "hundred">> \in Seq(Spoken) /\ <<"a", "hundred">> \in Seq(Spoken)
        /\ <<Word(k, SmallNumbers), "hundred">> \in Seq(Spoken)
    BY <2>1, TwoWords
  <2> QED BY <2>2 DEF Hundreds
<1>4. n % 100 \in Nat /\ n \div 100 \in Nat
  OBVIOUS
<1>5. ASSUME NEW e \in English(n) PROVE e \in Seq(Spoken)
  <2>1. CASE n < 100
    BY <1>1, <2>1 DEF English
  <2>2. CASE ~(n < 100) /\ n % 100 = 0
    BY <1>3, <1>4, <2>2 DEF English
  <2>3. CASE ~(n < 100) /\ n % 100 # 0
    <3>1. PICK h \in Hundreds(n \div 100), r \in Rest(n % 100) : e = h \o r
      BY <2>3 DEF English
    <3> QED BY <1>2, <1>3, <1>4, <3>1, Joins
  <2> QED BY <2>1, <2>2, <2>3
<1>6. <<ToString(n)>> \in Seq(Spoken)
  BY SpokenWords, OneWord
<1>7. <<"a">> \in Seq(Spoken) /\ <<"an">> \in Seq(Spoken)
  BY SpokenWords, FillersAre, OneWord
<1> QED BY <1>5, <1>6, <1>7 DEF Numeral

LEMMA MessageIsSeq == MCSpec => [](message \in Seq(Spoken))
<1> DEFINE Inv == message \in Seq(Spoken)
<1>1. MCInit => Inv
  <2>1. \A v, w, x, y \in Spoken : <<v, w, x, y>> \in Seq(Spoken)
    OBVIOUS
  <2>2. <<"rename", "the", "timer", "'tea'", "to">> \in Seq(Spoken)
    BY SpokenWords, FillersAre, FiveWords
  <2>3. /\ <<"rename", "timer", "3", "to">> \in Seq(Spoken)
        /\ <<"rename", "stopwatch", "3", "to">> \in Seq(Spoken)
        /\ <<"start", "a", "timer", "for">> \in Seq(Spoken)
    BY <2>1, SpokenWords, FillersAre
  <2> QED BY <2>2, <2>3, EmptySeq DEF MCInit, Openings, StartTimer
<1>2. Inv /\ [MCNext]_mcvars => Inv'
  <2> SUFFICES ASSUME message \in Seq(Spoken), [MCNext]_mcvars PROVE message' \in Seq(Spoken)
    OBVIOUS
  <2>1. \A w \in Words \cup Units \cup {"and"} : w \in Spoken
    BY SpokenWords, FillersAre
  <2>2. ASSUME NEW w \in Words, Say(w) PROVE message' \in Seq(Spoken)
    BY <2>1, <2>2, AppendProperties DEF Say
  <2>3. ASSUME NEW n \in Nat, NEW unit \in Units, NEW numeral \in Numeral(n),
               NEW joint \in {<<>>, <<"and">>}, SayAmount(n, unit, numeral, joint)
        PROVE  message' \in Seq(Spoken)
    <3>1. numeral \in Seq(Spoken)
      BY SpokenNumber
    <3>2. <<unit>> \in Seq(Spoken)
      BY <2>1, OneWord
    <3>3. joint \in Seq(Spoken)
      <4>1. <<"and">> \in Seq(Spoken) /\ <<>> \in Seq(Spoken)
        BY <2>1, OneWord, EmptySeq
      <4> QED BY <4>1
    <3>4. message' = ((message \o joint) \o numeral) \o <<unit>>
      BY <2>3 DEF SayAmount
    <3>5. (message \o joint) \o numeral \in Seq(Spoken)
      BY <3>1, <3>3, Joins
    <3> HIDE DEF Spoken
    <3> QED BY <3>2, <3>4, <3>5, Joins
  <2>4. CASE FirstAmount
    <3>1. Counts \subseteq Nat
      BY AmountsAssumption
    <3>2. PICK n \in Counts, unit \in Units : \E numeral \in Numeral(n) : SayAmount(n, unit, numeral, <<>>)
      BY <2>4 DEF FirstAmount
    <3> QED BY <2>3, <3>1, <3>2
  <2>5. CASE LaterAmount
    <3>1. LaterUnits \subseteq Units /\ LaterCounts \subseteq Nat
      BY AmountsAssumption
    <3>2. PICK n \in LaterCounts, unit \in LaterUnits :
             \E numeral \in Numeral(n), joint \in {<<>>, <<"and">>} :
                SayAmount(n, unit, numeral, joint)
      BY <2>5 DEF LaterAmount
    <3>3. n \in Nat /\ unit \in Units
      BY <3>1
    <3> QED BY <2>3, <3>2, <3>3
  <2>6. CASE BareNumber
    <3>1. PICK n \in 0..MaxNumber : message' = <<ToString(n)>>
      BY <2>6 DEF BareNumber
    <3>2. n \in Nat /\ ToString(n) \in Spoken
      BY DigitsAssumption, SpokenWords
    <3> QED BY <3>1, <3>2, OneWord
  <2>7. CASE UNCHANGED mcvars
    BY <2>7 DEF mcvars
  <2> QED BY <2>2, <2>4, <2>5, <2>6, <2>7 DEF MCNext
<1> QED BY <1>1, <1>2, PTL DEF MCSpec

-----------------------------------------------------------------------------
(* The question that is open                                               *)

LEMMA TimersNamed ==
    ASSUME NEW X, NEW m \in Seq(X), NEW c, NEW s, NEW i \in 1..10, TimerRules(m, c, s)[i].applies
    PROVE  HasTimerTrigger(m) \/ HasStopwatchTrigger(Normalized(m))
<1> DEFINE T == TimerRules(m, c, s)
<1>1. DOMAIN m = 1..Len(m) /\ Len(m) \in Nat
  BY LenProperties
<1>2. ASSUME NEW kind, RenamesById(m, kind) \/ RenamesByLabel(m, kind)
      PROVE  \E j \in DOMAIN m : m[j] = kind
  <2>1. CASE RenamesById(m, kind)
    <3>1. PICK k : Len(m) > 4 /\ Begins(m, <<"rename", kind, k, "to">>)
      BY <2>1 DEF RenamesById
    <3>2. 2 \in DOMAIN <<"rename", kind, k, "to">> /\ <<"rename", kind, k, "to">>[2] = kind
      OBVIOUS
    <3>3. m[2] = kind
      BY <3>1, <3>2 DEF Begins
    <3> QED BY <1>1, <3>1, <3>3
  <2>2. CASE RenamesByLabel(m, kind)
    <3>1. PICK old, new : m = <<"rename", "the", kind, old, "to", new>>
      BY <2>2 DEF RenamesByLabel
    <3>2. 3 \in DOMAIN m /\ m[3] = kind
      BY <3>1
    <3> QED BY <3>2
  <2> QED BY <1>2, <2>1, <2>2
<1>3. IsTimerRename(m) => HasTimerTrigger(m)
  BY <1>2 DEF IsTimerRename, HasTimerTrigger, Has, TimerWords
<1>4. IsStopwatchRename(m) => HasStopwatchTrigger(Normalized(m))
  <2> SUFFICES ASSUME IsStopwatchRename(m) PROVE HasStopwatchTrigger(Normalized(m))
    OBVIOUS
  <2>1. Has(m, {"stopwatch"})
    BY <1>2 DEF IsStopwatchRename, Has
  <2>2. {"stopwatch"} \cap {"stop", "watch"} = {}
    OBVIOUS
  <2>3. Has(Normalized(m), {"stopwatch"})
    BY <2>1, <2>2, KeywordKept
  <2> QED BY <2>3 DEF HasStopwatchTrigger, Has, StopwatchWords
<1>5. HasTimerTrigger(Normalized(m)) => HasTimerTrigger(m)
  <2>1. TimerWords \cap {"blank", "stopwatch"} = {}
    BY DEF TimerWords
  <2> QED BY <2>1, KeywordThere DEF HasTimerTrigger
<1>6. StopsById(m) \/ IsAmbiguousStop(m) \/ IsStopwatchStop(m) => HasStopwatchTrigger(Normalized(m))
  BY StopByIdStops DEF IsAmbiguousStop, IsStopwatchStop
<1>7. CancelsById(m) \/ IsAmbiguousCancel(m) \/ IsTimerCancel(m) \/ IsClearAll(m) => HasTimerTrigger(m)
  BY CancelByIdCancels DEF IsAmbiguousCancel, IsTimerCancel, IsClearAll
<1>8. IsTimerStatus(m) => HasTimerTrigger(m) \/ HasStopwatchTrigger(Normalized(m))
  BY <1>5 DEF IsTimerStatus
<1>9. \/ IsTimerStatus(m) \/ IsClearAll(m) \/ IsStopwatchRename(m) \/ IsTimerRename(m)
      \/ StopsById(m) \/ IsAmbiguousStop(m) \/ IsStopwatchStop(m)
      \/ CancelsById(m) \/ IsAmbiguousCancel(m) \/ IsTimerCancel(m)
  <2>1. \/ T[1].applies \/ T[2].applies \/ T[3].applies \/ T[4].applies \/ T[5].applies
        \/ T[6].applies \/ T[7].applies \/ T[8].applies \/ T[9].applies \/ T[10].applies
    <3>1. T[i].applies
      OBVIOUS
    <3> HIDE DEF T
    <3> QED BY <3>1
  <2> QED BY <2>1 DEF TimerRules, Rule
<1> QED BY <1>3, <1>4, <1>6, <1>7, <1>8, <1>9

\* While a question is open, only a message that names a timer or a stopwatch
\* is taken from it, for every message: "yes", "no", "stop", "cancel" and all
\* else reach the flow that asked.
THEOREM QuestionKept == MCSpec => []OnlyTimersPreempt
<1>1. message \in Seq(Spoken) => OnlyTimersPreempt
  <2> SUFFICES ASSUME message \in Seq(Spoken), Decide(message, 0, 0, TRUE).mode # "pending"
               PROVE  HasTimerTrigger(message) \/ HasStopwatchTrigger(Normalized(message))
    BY DEF OnlyTimersPreempt
  <2>1. Decide(message, 0, 0, TRUE) # Mode("pending")
    <3>1. Mode("pending").mode = "pending"
      BY DEF Mode, Decision
    <3> QED BY <3>1
  <2>2. \E i \in 1..10 : TimerRules(message, 0, 0)[i].applies
    BY <2>1, DecidedBy
  <2> HIDE DEF Spoken
  <2> QED BY <2>2, TimersNamed
<1> QED BY <1>1, MessageIsSeq, PTL

-----------------------------------------------------------------------------
(* Loops                                                                   *)

\* Two functions over 0..n that agree at 0 and go on alike are the same.
LEMMA SameSteps ==
    ASSUME NEW n \in Nat, NEW f, NEW g, f[0] = g[0],
           \A i \in 1..n : f[i - 1] = g[i - 1] => f[i] = g[i]
    PROVE  \A i \in 0..n : f[i] = g[i]
<1> DEFINE S == {i \in 0..n : f[i] # g[i]}
<1>1. CASE S = {}
  BY <1>1
<1>2. CASE S # {}
  <2>1. PICK i \in S : \A k \in S : i <= k
    <3>1. S \subseteq Nat
      OBVIOUS
    <3> HIDE DEF S
    <3> QED BY <1>2, <3>1, LeastExists
  <2>2. i \in 1..n /\ i - 1 \in 0..n /\ i - 1 \notin S
    BY <2>1
  <2> QED BY <2>1, <2>2
<1> QED BY <1>1, <1>2

-----------------------------------------------------------------------------
(* Durations: what the loops compute                                       *)

\* One turn of the loop of _words_to_number.
NumberStep(current, w) == IF w \in Joints THEN current ELSE AddWord(current, w)

\* A loop that starts at 0 has its function, for every number of turns.
LEMMA LoopExists ==
    ASSUME NEW words, NEW n \in Nat
    PROVE  \E g : g = [i \in 0..n |-> IF i = 0 THEN 0 ELSE NumberStep(g[i - 1], words[i])]
<1> DEFINE P(k, g) == g = [i \in 0..k |-> IF i = 0 THEN 0 ELSE NumberStep(g[i - 1], words[i])]
           S == {k \in Nat : ~\E g : P(k, g)}
<1>1. CASE S = {}
  BY <1>1
<1>2. CASE S # {}
  <2>1. PICK k \in S : \A x \in S : k <= x
    <3>1. S \subseteq Nat
      OBVIOUS
    <3> HIDE DEF S
    <3> QED BY <1>2, <3>1, LeastExists
  <2>2. k # 0
    <3> DEFINE g0 == [i \in {0} |-> 0]
    <3>1. g0 = [i \in 0..0 |-> IF i = 0 THEN 0 ELSE NumberStep(g0[i - 1], words[i])]
      OBVIOUS
    <3>2. 0 \notin S
      BY <3>1
    <3> QED BY <2>1, <3>2
  <2>3. k - 1 \in Nat /\ k - 1 \notin S
    <3>1. k \in Nat
      OBVIOUS
    <3> HIDE DEF S
    <3> QED BY <2>1, <2>2, <3>1
  <2>4. PICK g : P(k - 1, g)
    BY <2>3
  <2> DEFINE h == [i \in 0..k |-> IF i = k THEN NumberStep(g[k - 1], words[k]) ELSE g[i]]
  <2>5. P(k, h)
    <3>1. ASSUME NEW i \in 0..k
          PROVE  h[i] = IF i = 0 THEN 0 ELSE NumberStep(h[i - 1], words[i])
      <4>1. \A j \in 0..(k - 1) : h[j] = g[j]
        BY <2>3
      <4>2. \A j \in 0..(k - 1) : g[j] = IF j = 0 THEN 0 ELSE NumberStep(g[j - 1], words[j])
        BY <2>4
      <4>3. CASE i = k
        BY <2>2, <2>3, <4>1, <4>3
      <4>4. CASE i # k
        <5>1. i \in 0..(k - 1) /\ (i # 0 => i - 1 \in 0..(k - 1))
          BY <4>4
        <5> HIDE DEF h
        <5> QED BY <4>1, <4>2, <5>1
      <4> QED BY <4>3, <4>4
    <3> QED BY <3>1
  <2> QED BY <2>1, <2>5
<1> QED BY <1>1, <1>2

LEMMA CurrentIs ==
    ASSUME NEW words, Len(words) \in Nat
    PROVE  /\ Current(words)[0] = 0
           /\ \A i \in 1..Len(words) : Current(words)[i] = NumberStep(Current(words)[i - 1], words[i])
<1> DEFINE f == Current(words)
<1>1. \E g : g = [i \in 0..Len(words) |-> IF i = 0 THEN 0 ELSE NumberStep(g[i - 1], words[i])]
  BY LoopExists
<1>2. f = [i \in 0..Len(words) |-> IF i = 0 THEN 0 ELSE NumberStep(f[i - 1], words[i])]
  BY <1>1 DEF Current, NumberStep
<1> HIDE DEF f
<1> QED BY <1>2 DEF f

LEMMA StepIs ==
    ASSUME NEW current \in Nat
    PROVE  /\ \A w \in Joints : NumberStep(current, w) = current
           /\ \A w \in DOMAIN SmallNumbers : NumberStep(current, w) = current + SmallNumbers[w]
           /\ \A w \in DOMAIN Tens : NumberStep(current, w) = current + Tens[w]
           /\ \A w \in Articles : NumberStep(current, w) = current + 1
           /\ current # 0 => NumberStep(current, "hundred") = 100 * current
           /\ NumberStep(0, "hundred") = 100
<1>1. \A w \in Joints : NumberStep(current, w) = current
  BY DEF NumberStep
<1>2. \A w \in DOMAIN SmallNumbers : NumberStep(current, w) = current + SmallNumbers[w]
  <2>1. DOMAIN SmallNumbers \cap Joints = {}
    BY DEF SmallNumbers, Joints
  <2>2. \A w \in DOMAIN SmallNumbers : w \notin DOMAIN Tens /\ w \notin Articles /\ w # "hundred"
    BY DEF SmallNumbers, Tens, Articles
  <2> QED BY <2>1, <2>2 DEF NumberStep, AddWord
<1>3. \A w \in DOMAIN Tens : NumberStep(current, w) = current + Tens[w]
  <2>1. DOMAIN Tens \cap Joints = {}
    BY DEF Tens, Joints
  <2>2. \A w \in DOMAIN Tens : w \notin DOMAIN SmallNumbers /\ w \notin Articles /\ w # "hundred"
    BY DEF SmallNumbers, Tens, Articles
  <2> QED BY <2>1, <2>2 DEF NumberStep, AddWord
<1>4. \A w \in Articles : NumberStep(current, w) = current + 1
  <2>1. \A w \in Articles : /\ w \notin DOMAIN SmallNumbers /\ w \notin DOMAIN Tens
                            /\ w # "hundred" /\ w \notin Joints
    BY DEF SmallNumbers, Tens, Articles, Joints
  <2> QED BY <2>1 DEF NumberStep, AddWord
<1>5. \A k \in Nat : NumberStep(k, "hundred") = 100 * (IF k = 0 THEN 1 ELSE k)
  <2>1. /\ "hundred" \notin DOMAIN SmallNumbers /\ "hundred" \notin DOMAIN Tens
        /\ "hundred" \notin Articles /\ "hundred" \notin Joints
    BY DEF SmallNumbers, Tens, Articles, Joints
  <2> QED BY <2>1 DEF NumberStep, AddWord
<1> QED BY <1>1, <1>2, <1>3, <1>4, <1>5

\* Every number below twenty has its word, and so has every ten.
LEMMA SmallWord ==
    ASSUME NEW n \in 0..19
    PROVE  /\ Word(n, SmallNumbers) \in DOMAIN SmallNumbers
           /\ SmallNumbers[Word(n, SmallNumbers)] = n
<1>1. \E w \in DOMAIN SmallNumbers : SmallNumbers[w] = n
  BY DEF SmallNumbers
<1> QED BY <1>1 DEF Word

LEMMA TenWord ==
    ASSUME NEW k \in 2..9
    PROVE  /\ Word(10 * k, Tens) \in DOMAIN Tens
           /\ Tens[Word(10 * k, Tens)] = 10 * k
<1>1. \E w \in DOMAIN Tens : Tens[w] = 10 * k
  BY DEF Tens
<1> QED BY <1>1 DEF Word

-----------------------------------------------------------------------------
(* Numbers in words                                                        *)

Known == NumberWords \cup Joints

\* What was read of a first part stays when more is said.
LEMMA ReadPrefix ==
    ASSUME NEW X, NEW u \in Seq(X), NEW v \in Seq(X)
    PROVE  Current(u \o v)[Len(u)] = WordsToNumber(u)
<1> DEFINE w == u \o v
<1>1. /\ Len(u) \in Nat /\ Len(v) \in Nat /\ Len(w) = Len(u) + Len(v)
      /\ \A i \in 1..Len(u) : w[i] = u[i]
  BY LenProperties, ConcatProperties
<1> HIDE DEF w
<1>2. Current(u)[0] = 0 /\ Current(w)[0] = 0
  BY <1>1, CurrentIs
<1>3. \A i \in 1..Len(u) : Current(u)[i] = NumberStep(Current(u)[i - 1], u[i])
  BY <1>1, CurrentIs
<1>4. \A i \in 1..Len(w) : Current(w)[i] = NumberStep(Current(w)[i - 1], w[i])
  <2>1. Len(w) \in Nat
    BY <1>1
  <2> QED BY <2>1, CurrentIs
<1>5. \A i \in 1..Len(u) : Current(w)[i - 1] = Current(u)[i - 1] => Current(w)[i] = Current(u)[i]
  BY <1>1, <1>3, <1>4
<1>6. \A i \in 0..Len(u) : Current(w)[i] = Current(u)[i]
  <2> DEFINE f == Current(w)
             g == Current(u)
  <2>1. /\ Len(u) \in Nat /\ f[0] = g[0]
        /\ \A i \in 1..Len(u) : f[i - 1] = g[i - 1] => f[i] = g[i]
    BY <1>1, <1>2, <1>5
  <2> HIDE DEF f, g
  <2>2. \A i \in 0..Len(u) : f[i] = g[i]
    BY ONLY <2>1, SameSteps, ZenonT(30)
  <2> QED BY <2>2 DEF f, g
<1> QED BY <1>1, <1>6 DEF WordsToNumber, w

\* The loop, a word more.
LEMMA ReadWord ==
    ASSUME NEW X, NEW u \in Seq(X), NEW w \in X
    PROVE  /\ u \o <<w>> \in Seq(X)
           /\ WordsToNumber(u \o <<w>>) = NumberStep(WordsToNumber(u), w)
<1> DEFINE v == <<w>>
           uv == u \o v
<1>1. v \in Seq(X) /\ Len(v) = 1 /\ v[1] = w
  OBVIOUS
<1> HIDE DEF v
<1>2. /\ Len(u) \in Nat /\ Len(uv) = Len(u) + 1 /\ uv[Len(u) + 1] = w
      /\ uv \in Seq(X)
  <2>1. /\ uv \in Seq(X) /\ Len(uv) = Len(u) + Len(v)
        /\ \A i \in 1..(Len(u) + Len(v)) : uv[i] = IF i <= Len(u) THEN u[i] ELSE v[i - Len(u)]
    BY <1>1, ConcatProperties
  <2>2. Len(u) \in Nat
    BY LenProperties
  <2> HIDE DEF uv
  <2> QED BY <1>1, <2>1, <2>2
<1>3. Current(uv)[Len(u)] = WordsToNumber(u)
  BY <1>1, ReadPrefix
<1> HIDE DEF uv
<1>4. Current(uv)[Len(u) + 1] = NumberStep(Current(uv)[Len(u)], uv[Len(u) + 1])
  BY <1>2, CurrentIs
<1> QED BY <1>2, <1>3, <1>4 DEF WordsToNumber, uv, v

LEMMA ReadNothing == WordsToNumber(<<>>) = 0
<1>1. Len(<<>>) = 0
  BY EmptySeq
<1>2. Len(<<>>) \in Nat => Current(<<>>)[0] = 0
  BY CurrentIs
<1> QED BY <1>1, <1>2 DEF WordsToNumber

LEMMA KnownWords ==
    /\ DOMAIN SmallNumbers \subseteq NumberWords /\ DOMAIN Tens \subseteq NumberWords
    /\ Articles \subseteq NumberWords /\ "hundred" \in NumberWords
    /\ NumberWords \subseteq Known
    /\ "and" \in Joints /\ "hyphen" \in Joints /\ Joints \subseteq Known
  BY DEF NumberWords, Joints, Known

\* A number below a hundred is added to what was read before it.
LEMMA ReadBelowHundred ==
    ASSUME NEW u, u \in Seq(Known), WordsToNumber(u) \in Nat, NEW k, k \in 0..99
    PROVE  /\ BelowHundred(k) \in Seq(Known)
           /\ u \o BelowHundred(k) \in Seq(Known)
           /\ WordsToNumber(u \o BelowHundred(k)) = WordsToNumber(u) + k
<1> DEFINE n == WordsToNumber(u)
<1>1. CASE k < 20
  <2> DEFINE s == Word(k, SmallNumbers)
  <2>1. s \in DOMAIN SmallNumbers /\ SmallNumbers[s] = k
    <3>1. k \in 0..19
      BY <1>1
    <3> QED BY <3>1, SmallWord
  <2>2. BelowHundred(k) = <<s>>
    BY <1>1 DEF BelowHundred
  <2> HIDE DEF s
  <2>3. s \in Known
    BY <2>1, KnownWords
  <2>4. u \o <<s>> \in Seq(Known) /\ WordsToNumber(u \o <<s>>) = NumberStep(n, s)
    BY <2>3, ReadWord
  <2>5. NumberStep(n, s) = n + k
    BY <2>1, StepIs
  <2>6. <<s>> \in Seq(Known)
    BY <2>3
  <2> QED BY <2>2, <2>4, <2>5, <2>6
<1>2. CASE ~(k < 20)
  <2> DEFINE t == Word(10 * (k \div 10), Tens)
             ut == u \o <<t>>
  <2>1. k \div 10 \in 2..9 /\ k % 10 \in 0..9 /\ k = 10 * (k \div 10) + (k % 10)
    <3>1. k \in Nat /\ 20 <= k /\ k <= 99
      BY <1>2
    <3>2. k \div 10 \in 2..9 /\ k % 10 \in 0..9
      BY ONLY <3>1
    <3>3. k % 10 = k - 10 * (k \div 10)
      BY ONLY <3>1
    <3> QED BY ONLY <3>1, <3>2, <3>3
  <2>2. t \in DOMAIN Tens /\ Tens[t] = 10 * (k \div 10)
    BY <2>1, TenWord
  <2>3. BelowHundred(k) = <<t>> \o (IF k % 10 = 0 THEN <<>>
                                    ELSE <<"hyphen", Word(k % 10, SmallNumbers)>>)
    BY <1>2 DEF BelowHundred
  <2> HIDE DEF t
  <2>4. t \in Known /\ <<t>> \in Seq(Known)
    BY <2>2, KnownWords
  <2>5. ut \in Seq(Known) /\ WordsToNumber(ut) = n + 10 * (k \div 10)
    <3>1. NumberStep(n, t) = n + 10 * (k \div 10)
      BY <2>2, StepIs
    <3> QED BY <2>4, <3>1, ReadWord
  <2>6. CASE k % 10 = 0
    <3>1. BelowHundred(k) = <<t>>
      BY <2>3, <2>4, <2>6, ConcatEmptySeq
    <3> QED BY <2>1, <2>4, <2>5, <2>6, <3>1
  <2>7. CASE k % 10 # 0
    <3> DEFINE s == Word(k % 10, SmallNumbers)
               uth == ut \o <<"hyphen">>
               hs == <<"hyphen">> \o <<s>>
    <3>1. s \in DOMAIN SmallNumbers /\ SmallNumbers[s] = k % 10
      BY <2>1, SmallWord, SMTT(30)
    <3>2. BelowHundred(k) = <<t>> \o <<"hyphen", s>>
      BY <2>3, <2>7
    <3> HIDE DEF s, ut
    <3>3. s \in Known /\ <<s>> \in Seq(Known) /\ "hyphen" \in Known /\ <<"hyphen">> \in Seq(Known)
      BY <3>1, KnownWords
    <3>4. <<"hyphen", s>> = hs /\ hs \in Seq(Known)
      <4>1. <<"hyphen", s>> = <<"hyphen">> \o <<s>>
        OBVIOUS
      <4> QED BY <3>3, <4>1, ConcatProperties
    <3>5. uth \in Seq(Known) /\ WordsToNumber(uth) = n + 10 * (k \div 10)
      <4>1. WordsToNumber(ut) \in Nat
        BY <2>1, <2>5
      <4>2. NumberStep(WordsToNumber(ut), "hyphen") = WordsToNumber(ut)
        BY <4>1, StepIs, KnownWords
      <4> QED BY <2>5, <3>3, <4>2, ReadWord
    <3>6. uth \o <<s>> \in Seq(Known) /\ WordsToNumber(uth \o <<s>>) = n + k
      <4>1. WordsToNumber(uth) \in Nat
        BY <2>1, <3>5
      <4>2. NumberStep(WordsToNumber(uth), s) = n + k
        <5>1. \A c \in Nat : NumberStep(c, s) = c + SmallNumbers[s]
          BY <3>1, StepIs
        <5>2. NumberStep(WordsToNumber(uth), s) = WordsToNumber(uth) + SmallNumbers[s]
          BY <4>1, <5>1
        <5>3. n + 10 * (k \div 10) + (k % 10) = n + k
          BY <2>1
        <5> QED BY <3>1, <3>5, <5>2, <5>3
      <4> HIDE DEF uth
      <4>3. WordsToNumber(uth \o <<s>>) = NumberStep(WordsToNumber(uth), s) /\ uth \o <<s>> \in Seq(Known)
        BY <3>3, <3>5, ReadWord
      <4> QED BY <4>2, <4>3
    <3>7. uth \o <<s>> = u \o BelowHundred(k)
      <4>1. uth \o <<s>> = ut \o hs
        BY <2>5, <3>3, ConcatAssociative
      <4>2. ut \o hs = u \o (<<t>> \o hs)
        BY <2>4, <3>4, ConcatAssociative DEF ut
      <4> QED BY <3>2, <3>4, <4>1, <4>2
    <3>8. BelowHundred(k) \in Seq(Known)
      BY <2>4, <3>2, <3>4, ConcatProperties
    <3> QED BY <3>6, <3>7, <3>8
  <2> QED BY <2>6, <2>7
<1> QED BY <1>1, <1>2

\* A number begins with a word for a number.
Starts(e) == e \in Seq(Known) /\ Len(e) >= 1 /\ e[1] \in NumberWords

LEMMA StartsOn ==
    ASSUME NEW e, Starts(e), NEW f \in Seq(Known)
    PROVE  Starts(e \o f)
<1>1. e \in Seq(Known) /\ Len(e) \in Nat /\ Len(e) >= 1 /\ Len(f) \in Nat
  BY LenProperties DEF Starts
<1>2. /\ e \o f \in Seq(Known) /\ Len(e \o f) = Len(e) + Len(f)
      /\ \A i \in 1..(Len(e) + Len(f)) : (e \o f)[i] = IF i <= Len(e) THEN e[i] ELSE f[i - Len(e)]
  BY <1>1, ConcatProperties
<1>3. 1 \in 1..(Len(e) + Len(f)) /\ 1 <= Len(e)
  BY <1>1
<1>4. (e \o f)[1] = e[1]
  BY <1>2, <1>3
<1> QED BY <1>1, <1>2, <1>4 DEF Starts

LEMMA BelowHundredStarts == ASSUME NEW k, k \in 0..99 PROVE Starts(BelowHundred(k))
<1>1. \A w \in NumberWords : Starts(<<w>>)
  <2> SUFFICES ASSUME NEW w \in NumberWords PROVE Starts(<<w>>)
    OBVIOUS
  <2>1. w \in Known
    BY KnownWords
  <2>2. <<w>> \in Seq(Known) /\ Len(<<w>>) = 1 /\ <<w>>[1] = w
    BY <2>1
  <2> QED BY <2>2 DEF Starts
<1>2. CASE k < 20
  <2>1. k \in 0..19
    BY <1>2
  <2>2. Word(k, SmallNumbers) \in NumberWords
    BY <2>1, SmallWord, KnownWords
  <2>3. BelowHundred(k) = <<Word(k, SmallNumbers)>>
    BY <1>2 DEF BelowHundred
  <2> QED BY <1>1, <2>2, <2>3
<1>3. CASE ~(k < 20)
  <2> DEFINE t == Word(10 * (k \div 10), Tens)
             s == Word(k % 10, SmallNumbers)
             r == IF k % 10 = 0 THEN <<>> ELSE <<"hyphen", s>>
  <2>1. k \div 10 \in 2..9 /\ k % 10 \in 0..19
    BY <1>3
  <2>2. t \in NumberWords /\ s \in Known
    BY <2>1, TenWord, SmallWord, KnownWords
  <2>3. BelowHundred(k) = <<t>> \o r
    BY <1>3 DEF BelowHundred
  <2> HIDE DEF t, s
  <2>4. r \in Seq(Known)
    <3>1. "hyphen" \in Known
      BY KnownWords
    <3>2. <<"hyphen", s>> \in Seq(Known) /\ <<>> \in Seq(Known)
      BY <2>2, <3>1, EmptySeq
    <3> QED BY <3>2
  <2> HIDE DEF r
  <2> QED BY <1>1, <2>2, <2>3, <2>4, StartsOn
<1> QED BY <1>2, <1>3

\* A number of hundreds, read after nothing or after a joint.
LEMMA ReadHundreds ==
    ASSUME NEW u, u \in Seq(Known), WordsToNumber(u) = 0, NEW q, q \in 1..9, NEW h, h \in Hundreds(q)
    PROVE  /\ Starts(h) /\ u \o h \in Seq(Known)
           /\ WordsToNumber(u \o h) = 100 * q
<1>1. ASSUME NEW w \in NumberWords, NumberStep(0, w) = q
      PROVE  /\ Starts(<<w, "hundred">>) /\ u \o <<w, "hundred">> \in Seq(Known)
             /\ WordsToNumber(u \o <<w, "hundred">>) = 100 * q
  <2> DEFINE wh == <<w>> \o <<"hundred">>
             uw == u \o <<w>>
  <2>1. w \in Known /\ "hundred" \in Known
    BY KnownWords
  <2>2. <<w>> \in Seq(Known) /\ <<"hundred">> \in Seq(Known)
    BY <2>1
  <2>3. <<w, "hundred">> = wh
    OBVIOUS
  <2>4. Starts(<<w, "hundred">>)
    <3>1. <<w, "hundred">> \in Seq(Known) /\ Len(<<w, "hundred">>) = 2 /\ <<w, "hundred">>[1] = w
      BY <2>1
    <3> QED BY <3>1 DEF Starts
  <2>5. uw \in Seq(Known) /\ WordsToNumber(uw) = q
    BY <1>1, <2>1, ReadWord
  <2>6. uw \o <<"hundred">> \in Seq(Known) /\ WordsToNumber(uw \o <<"hundred">>) = 100 * q
    <3>1. NumberStep(q, "hundred") = 100 * q
      BY StepIs
    <3> HIDE DEF uw
    <3> QED BY <2>1, <2>5, <3>1, ReadWord
  <2>7. uw \o <<"hundred">> = u \o wh
    BY <2>2, ConcatAssociative
  <2> QED BY <2>3, <2>4, <2>6, <2>7
<1>2. PICK w \in NumberWords : h = <<w, "hundred">> /\ NumberStep(0, w) = q
  <2>1. CASE q = 1 /\ h = <<"one", "hundred">>
    <3>1. "one" \in DOMAIN SmallNumbers /\ SmallNumbers["one"] = 1
      BY DEF SmallNumbers
    <3>2. NumberStep(0, "one") = 1 /\ "one" \in NumberWords
      BY <3>1, StepIs, KnownWords
    <3> QED BY <2>1, <3>2
  <2>2. CASE q = 1 /\ h = <<"a", "hundred">>
    <3>1. "a" \in Articles
      BY DEF Articles
    <3>2. NumberStep(0, "a") = 1 /\ "a" \in NumberWords
      BY <3>1, StepIs, KnownWords
    <3> QED BY <2>2, <3>2
  <2>3. CASE q # 1
    <3> DEFINE w == Word(q, SmallNumbers)
    <3>1. w \in DOMAIN SmallNumbers /\ SmallNumbers[w] = q
      <4>1. q \in 0..19
        OBVIOUS
      <4> QED BY <4>1, SmallWord
    <3>2. h = <<w, "hundred">>
      BY <2>3 DEF Hundreds
    <3> HIDE DEF w
    <3>3. NumberStep(0, w) = q /\ w \in NumberWords
      BY <3>1, StepIs, KnownWords
    <3> QED BY <3>2, <3>3
  <2>4. q = 1 => h = <<"one", "hundred">> \/ h = <<"a", "hundred">>
    BY DEF Hundreds
  <2> QED BY <2>1, <2>2, <2>3, <2>4
<1> QED BY <1>1, <1>2

\* "and" is read over.
LEMMA ReadAnd ==
    ASSUME NEW u \in Seq(Known), WordsToNumber(u) \in Nat
    PROVE  /\ <<"and">> \in Seq(Known) /\ u \o <<"and">> \in Seq(Known)
           /\ WordsToNumber(u \o <<"and">>) = WordsToNumber(u)
<1>1. "and" \in Known /\ NumberStep(WordsToNumber(u), "and") = WordsToNumber(u)
  BY KnownWords, StepIs
<1> QED BY <1>1, ReadWord, OneWord

\* What follows the hundreds, with or without "and".
LEMMA ReadRest ==
    ASSUME NEW u, u \in Seq(Known), WordsToNumber(u) \in Nat, NEW k, k \in 0..99, NEW r, r \in Rest(k)
    PROVE  /\ r \in Seq(Known) /\ u \o r \in Seq(Known)
           /\ WordsToNumber(u \o r) = WordsToNumber(u) + k
<1> DEFINE b == BelowHundred(k)
           ua == u \o <<"and">>
<1>1. b \in Seq(Known)
  BY ReadBelowHundred
<1>2. CASE r = b
  BY <1>1, <1>2, ReadBelowHundred
<1>3. CASE r = <<"and">> \o b
  <2>1. <<"and">> \in Seq(Known) /\ ua \in Seq(Known) /\ WordsToNumber(ua) = WordsToNumber(u)
    BY ReadAnd
  <2>2. ua \o b = u \o r
    BY <1>1, <1>3, <2>1, ConcatAssociative
  <2>3. r \in Seq(Known)
    BY <1>1, <1>3, <2>1, ConcatProperties
  <2> HIDE DEF ua
  <2>4. ua \o b \in Seq(Known) /\ WordsToNumber(ua \o b) = WordsToNumber(ua) + k
    BY <2>1, ReadBelowHundred
  <2> QED BY <2>1, <2>2, <2>3, <2>4
<1> QED BY <1>2, <1>3 DEF Rest

\* Every English number below a thousand is read as that number, also after "and".
LEMMA ReadEnglish ==
    ASSUME NEW u, u \in Seq(Known), WordsToNumber(u) = 0, NEW n, n \in 0..999, NEW e, e \in English(n)
    PROVE  /\ Starts(e) /\ u \o e \in Seq(Known)
           /\ WordsToNumber(u \o e) = n
<1>1. CASE n < 100
  <2>1. n \in 0..99 /\ e = BelowHundred(n)
    BY <1>1 DEF English
  <2>2. Starts(e)
    BY <2>1, BelowHundredStarts, ZenonT(30)
  <2>3. WordsToNumber(u) \in Nat
    OBVIOUS
  <2>4. u \o e \in Seq(Known) /\ WordsToNumber(u \o e) = WordsToNumber(u) + n
    <3>1. u \in Seq(Known) /\ WordsToNumber(u) \in Nat /\ n \in 0..99
      BY <2>1, <2>3
    <3>2. u \o BelowHundred(n) \in Seq(Known) /\ WordsToNumber(u \o BelowHundred(n)) = WordsToNumber(u) + n
      BY ONLY <3>1, ReadBelowHundred
    <3> QED BY <2>1, <3>2
  <2> QED BY <2>2, <2>4
<1>2. CASE ~(n < 100)
  <2>1. n \div 100 \in 1..9 /\ n % 100 \in 0..99 /\ n = 100 * (n \div 100) + (n % 100)
    BY <1>2
  <2>2. CASE n % 100 = 0
    <3>1. e \in Hundreds(n \div 100)
      BY <1>2, <2>2 DEF English
    <3>2. Starts(e) /\ u \o e \in Seq(Known) /\ WordsToNumber(u \o e) = 100 * (n \div 100)
      BY <2>1, <3>1, ReadHundreds
    <3> QED BY <2>1, <2>2, <3>2
  <2>3. CASE n % 100 # 0
    <3>1. PICK h \in Hundreds(n \div 100), r \in Rest(n % 100) : e = h \o r
      BY <1>2, <2>3 DEF English
    <3> DEFINE uh == u \o h
    <3>2. Starts(h) /\ uh \in Seq(Known) /\ WordsToNumber(uh) = 100 * (n \div 100)
      BY <2>1, ReadHundreds
    <3> HIDE DEF uh
    <3>3. r \in Seq(Known) /\ uh \o r \in Seq(Known)
          /\ WordsToNumber(uh \o r) = WordsToNumber(uh) + (n % 100)
      <4> DEFINE k == n % 100
      <4>1. WordsToNumber(uh) \in Nat /\ uh \in Seq(Known) /\ k \in 0..99 /\ r \in Rest(k)
        BY <2>1, <3>1, <3>2
      <4> HIDE DEF k
      <4>2. r \in Seq(Known) /\ uh \o r \in Seq(Known) /\ WordsToNumber(uh \o r) = WordsToNumber(uh) + k
        BY ONLY <4>1, ReadRest
      <4> QED BY <4>2 DEF k
    <3>4. h \in Seq(Known)
      BY <3>2 DEF Starts
    <3>5. uh \o r = u \o e
      <4>1. (u \o h) \o r = u \o (h \o r)
        <5>1. u \in Seq(Known) /\ h \in Seq(Known) /\ r \in Seq(Known)
          BY <3>3, <3>4
        <5> QED BY ONLY <5>1, ConcatAssociative
      <4> QED BY <3>1, <4>1 DEF uh
    <3>6. Starts(e)
      BY <3>1, <3>2, <3>3, StartsOn
    <3> QED BY <2>1, <3>2, <3>3, <3>5, <3>6
  <2> QED BY <2>2, <2>3
<1> QED BY <1>1, <1>2

\* Every number below a thousand, as it is said in English, is read as that
\* number by _words_to_number: with or without "and", with "a" or "one hundred".
THEOREM EnglishReadAsSaid ==
    \A n \in 0..999 : \A e \in English(n) : WordsToNumber(e) = n
<1> SUFFICES ASSUME NEW n \in 0..999, NEW e \in English(n) PROVE WordsToNumber(e) = n
  OBVIOUS
<1>1. <<>> \in Seq(Known) /\ WordsToNumber(<<>>) = 0
  BY EmptySeq, ReadNothing
<1>2. Starts(e) /\ WordsToNumber(<<>> \o e) = n
  <2>1. \A u : u \in Seq(Known) /\ WordsToNumber(u) = 0 => Starts(e) /\ WordsToNumber(u \o e) = n
    <3> SUFFICES ASSUME NEW u \in Seq(Known), WordsToNumber(u) = 0
                 PROVE  Starts(e) /\ WordsToNumber(u \o e) = n
      OBVIOUS
    <3>1. Starts(e) /\ u \o e \in Seq(Known) /\ WordsToNumber(u \o e) = n
      BY ReadEnglish, ZenonT(30)
    <3> QED BY <3>1
  <2> QED BY <1>1, <2>1, ZenonT(30)
<1>3. <<>> \o e = e
  BY <1>2, ConcatEmptySeq DEF Starts
<1> QED BY <1>2, <1>3

-----------------------------------------------------------------------------
(* The amounts of a message                                                *)

LEMMA WordClasses ==
    /\ Units \cap Known = {} /\ DigitStrings \cap Units = {} /\ DigitStrings \cap Known = {}
    /\ \A unit \in Units : UnitSeconds[unit] \in {1, 60, 3600}
    /\ "for" \notin Known
<1>1. Units \cap Known = {}
  BY DEF Units, UnitSeconds, Known, NumberWords, SmallNumbers, Tens, Articles, Joints
<1>2. DigitStrings \cap Units = {} /\ DigitStrings \cap Known = {}
  BY DigitsAssumption DEF Known
<1>3. \A unit \in Units : UnitSeconds[unit] \in {1, 60, 3600}
  BY DEF Units, UnitSeconds
<1>4. "for" \notin Known
  BY DEF Known, NumberWords, SmallNumbers, Tens, Articles, Joints
<1> QED BY <1>1, <1>2, <1>3, <1>4

LEMMA ReadDigits ==
    ASSUME NEW n, n \in 0..MaxNumber
    PROVE  ToString(n) \in DigitStrings /\ InDigits[ToString(n)] = n
<1>1. ToString(n) \in DigitStrings
  BY DEF DigitStrings
<1>2. InDigits[ToString(n)] = CHOOSE k \in 0..MaxNumber : ToString(k) = ToString(n)
  BY <1>1 DEF InDigits
<1>3. \A k \in 0..MaxNumber : ToString(k) = ToString(n) => k = n
  BY DigitsAssumption
<1> QED BY <1>1, <1>2, <1>3

\* The sum over the segments: a turn of the loop.
SumStep(m, total, i) ==
    IF IsSegment(m, i) THEN total + Amount(m, i) * UnitSeconds[m[i]] ELSE total

LEMMA SumExists ==
    ASSUME NEW m, NEW n \in Nat
    PROVE  \E g : g = [i \in 0..n |-> IF i = 0 THEN 0 ELSE SumStep(m, g[i - 1], i)]
<1> DEFINE P(k, g) == g = [i \in 0..k |-> IF i = 0 THEN 0 ELSE SumStep(m, g[i - 1], i)]
           S == {k \in Nat : ~\E g : P(k, g)}
<1>1. CASE S = {}
  BY <1>1
<1>2. CASE S # {}
  <2>1. PICK k \in S : \A x \in S : k <= x
    <3>1. S \subseteq Nat
      OBVIOUS
    <3> HIDE DEF S
    <3> QED BY <1>2, <3>1, LeastExists
  <2>2. k # 0
    <3> DEFINE g0 == [i \in {0} |-> 0]
    <3>1. g0 = [i \in 0..0 |-> IF i = 0 THEN 0 ELSE SumStep(m, g0[i - 1], i)]
      OBVIOUS
    <3>2. 0 \notin S
      BY <3>1
    <3> QED BY <2>1, <3>2
  <2>3. k - 1 \in Nat /\ k - 1 \notin S
    <3>1. k \in Nat
      OBVIOUS
    <3> HIDE DEF S
    <3> QED BY <2>1, <2>2, <3>1
  <2>4. PICK g : P(k - 1, g)
    BY <2>3
  <2> DEFINE h == [i \in 0..k |-> IF i = k THEN SumStep(m, g[k - 1], k) ELSE g[i]]
  <2>5. P(k, h)
    <3>1. ASSUME NEW i \in 0..k
          PROVE  h[i] = IF i = 0 THEN 0 ELSE SumStep(m, h[i - 1], i)
      <4>1. \A j \in 0..(k - 1) : h[j] = g[j]
        BY <2>3
      <4>2. \A j \in 0..(k - 1) : g[j] = IF j = 0 THEN 0 ELSE SumStep(m, g[j - 1], j)
        BY <2>4
      <4>3. CASE i = k
        BY <2>2, <2>3, <4>1, <4>3
      <4>4. CASE i # k
        <5>1. i \in 0..(k - 1) /\ (i # 0 => i - 1 \in 0..(k - 1))
          BY <4>4
        <5> HIDE DEF h
        <5> QED BY <4>1, <4>2, <5>1
      <4> QED BY <4>3, <4>4
    <3> QED BY <3>1
  <2> QED BY <2>1, <2>5
<1> QED BY <1>1, <1>2

LEMMA TotalIs ==
    ASSUME NEW m, Len(m) \in Nat
    PROVE  /\ Total(m)[0] = 0
           /\ \A i \in 1..Len(m) : Total(m)[i] = SumStep(m, Total(m)[i - 1], i)
<1> DEFINE f == Total(m)
<1>1. \E g : g = [i \in 0..Len(m) |-> IF i = 0 THEN 0 ELSE SumStep(m, g[i - 1], i)]
  BY SumExists
<1>2. f = [i \in 0..Len(m) |-> IF i = 0 THEN 0 ELSE SumStep(m, f[i - 1], i)]
  BY <1>1 DEF Total, SumStep
<1> HIDE DEF f
<1> QED BY <1>2 DEF f

\* Words that end no segment leave the sum alone.
LEMMA TotalOver ==
    ASSUME NEW m, Len(m) \in Nat, NEW a, NEW b, a \in 0..Len(m), b \in a..Len(m),
           \A i \in (a + 1)..b : ~IsSegment(m, i)
    PROVE  Total(m)[b] = Total(m)[a]
<1> DEFINE f == [i \in 0..(b - a) |-> Total(m)[a + i]]
           g == [i \in 0..(b - a) |-> Total(m)[a]]
<1>1. b - a \in Nat /\ f[0] = g[0]
  OBVIOUS
<1>2. ASSUME NEW i \in 1..(b - a), f[i - 1] = g[i - 1] PROVE f[i] = g[i]
  <2>1. /\ a + i \in 1..Len(m) /\ a + i \in (a + 1)..b /\ (a + i) - 1 = a + (i - 1)
        /\ i - 1 \in 0..(b - a) /\ i \in 0..(b - a)
    OBVIOUS
  <2>2. Total(m)[a + i] = SumStep(m, Total(m)[(a + i) - 1], a + i)
    BY <2>1, TotalIs
  <2>3. Total(m)[a + i] = Total(m)[a + (i - 1)]
    BY <2>1, <2>2 DEF SumStep
  <2> QED BY <1>2, <2>1, <2>3
<1> HIDE DEF f, g
<1>3. \A i \in 0..(b - a) : f[i] = g[i]
  BY <1>1, <1>2, SameSteps
<1>4. b - a \in 0..(b - a) /\ a + (b - a) = b
  OBVIOUS
<1> QED BY <1>3, <1>4 DEF f, g

\* The words that count for a unit: from after the last word that is no number's.
LEMMA RunIs ==
    ASSUME NEW m, NEW i, NEW j, i \in Nat, j \in 1..i,
           \A k \in j..(i - 1) : m[k] \in Known, j > 1 => m[j - 1] \notin Known
    PROVE  Run(m, i) = SubSeq(m, j, i - 1)
<1> DEFINE P(x) == /\ \A k \in x..(i - 1) : m[k] \in NumberWords \cup Joints
                   /\ x > 1 => m[x - 1] \notin NumberWords \cup Joints
<1>1. P(j)
  BY DEF Known
<1>2. ASSUME NEW x \in 1..i, P(x) PROVE x = j
  <2>1. CASE x < j
    <3>1. j - 1 \in x..(i - 1) /\ j > 1
      BY <2>1
    <3> QED BY <1>1, <1>2, <3>1
  <2>2. CASE x > j
    <3>1. x - 1 \in j..(i - 1) /\ x > 1
      BY <2>2
    <3> QED BY <1>1, <1>2, <3>1
  <2> QED BY <2>1, <2>2
<1> HIDE DEF P
<1>3. (CHOOSE x \in 1..i : P(x)) = j
  BY <1>1, <1>2
<1> QED BY <1>3 DEF Run, P

\* There is such a word, or the beginning of the message.
LEMMA RunFrom ==
    ASSUME NEW m, NEW i, i \in Nat, i >= 1
    PROVE  \E j \in 1..i : /\ \A k \in j..(i - 1) : m[k] \in Known
                           /\ j > 1 => m[j - 1] \notin Known
<1> DEFINE S == {j \in 1..i : \A k \in j..(i - 1) : m[k] \in Known}
<1>1. i \in S /\ S \subseteq Nat
  OBVIOUS
<1>2. PICK j \in S : \A x \in S : j <= x
  <2> HIDE DEF S
  <2> QED BY <1>1, LeastExists
<1>3. j > 1 => m[j - 1] \notin Known
  <2> SUFFICES ASSUME j > 1, m[j - 1] \in Known PROVE FALSE
    OBVIOUS
  <2>1. j - 1 \in 1..i /\ \A k \in (j - 1)..(i - 1) : k = j - 1 \/ k \in j..(i - 1)
    OBVIOUS
  <2>2. \A k \in j..(i - 1) : m[k] \in Known
    OBVIOUS
  <2>3. j - 1 \in S
    BY <2>1, <2>2
  <2>4. j <= j - 1
    <3> HIDE DEF S
    <3> QED BY <1>2, <2>3
  <2> QED BY <2>4
<1> QED BY <1>3

\* What is said later changes no earlier amount.
LEMMA LaterSaid ==
    ASSUME NEW X, NEW m, m \in Seq(X), NEW v, v \in Seq(X), NEW i, i \in 1..Len(m)
    PROVE  /\ IsSegment(m \o v, i) <=> IsSegment(m, i)
           /\ Amount(m \o v, i) = Amount(m, i)
           /\ \A t : SumStep(m \o v, t, i) = SumStep(m, t, i)
<1> DEFINE w == m \o v
<1>1. Len(m) \in Nat /\ \A k \in 1..Len(m) : w[k] = m[k]
  BY LenProperties, ConcatProperties
<1> HIDE DEF w
<1>2. w[i] = m[i] /\ (i > 1 => w[i - 1] = m[i - 1])
  BY <1>1
<1>3. AfterDigits(w, i) <=> AfterDigits(m, i)
  BY <1>2 DEF AfterDigits
<1>4. Run(w, i) = Run(m, i)
  <2>1. i \in Nat /\ i >= 1
    BY <1>1
  <2>2. PICK j \in 1..i : /\ \A k \in j..(i - 1) : m[k] \in Known
                          /\ j > 1 => m[j - 1] \notin Known
    BY <2>1, RunFrom
  <2>3. /\ \A k \in j..(i - 1) : w[k] = m[k]
        /\ j > 1 => w[j - 1] = m[j - 1]
    BY <1>1
  <2>4. Run(m, i) = SubSeq(m, j, i - 1)
    BY <2>1, <2>2, RunIs
  <2>5. Run(w, i) = SubSeq(w, j, i - 1)
    <3>1. /\ \A k \in j..(i - 1) : w[k] \in Known
          /\ j > 1 => w[j - 1] \notin Known
      BY <2>2, <2>3
    <3> QED BY <2>1, <2>2, <3>1, RunIs
  <2>6. SubSeq(w, j, i - 1) = SubSeq(m, j, i - 1)
    <3> DEFINE s == SubSeq(m, j, i - 1)
               t == SubSeq(w, j, i - 1)
    <3>1. j \in Int /\ i - 1 \in Int /\ \A k \in j..(i - 1) : m[k] \in Known /\ w[k] \in Known
      BY <2>1, <2>2, <2>3
    <3>2. /\ s \in Seq(Known)
          /\ Len(s) = IF j <= i - 1 THEN (i - 1) - j + 1 ELSE 0
          /\ \A k \in 1..((i - 1) - j + 1) : s[k] = m[(j + k) - 1]
      BY ONLY <3>1, SubSeqProperties
    <3>3. /\ t \in Seq(Known)
          /\ Len(t) = IF j <= i - 1 THEN (i - 1) - j + 1 ELSE 0
          /\ \A k \in 1..((i - 1) - j + 1) : t[k] = w[(j + k) - 1]
      BY ONLY <3>1, SubSeqProperties
    <3> HIDE DEF s, t
    <3>4. Len(s) = Len(t) /\ \A k \in 1..Len(s) : s[k] = t[k]
      <4>1. \A k \in 1..Len(s) : k \in 1..((i - 1) - j + 1) /\ (j + k) - 1 \in j..(i - 1)
        BY <3>1, <3>2
      <4> QED BY <2>3, <3>2, <3>3, <4>1
    <3>5. s = t
      BY ONLY <3>2, <3>3, <3>4, SeqEqual
    <3> QED BY <3>5 DEF s, t
  <2> QED BY <2>4, <2>5, <2>6
<1>5. IsSegment(w, i) <=> IsSegment(m, i)
  BY <1>2, <1>3, <1>4, Zenon DEF IsSegment
<1>6. Amount(w, i) = Amount(m, i)
  <2>1. AfterDigits(m, i) => i > 1
    BY DEF AfterDigits
  <2> QED BY <1>2, <1>3, <1>4, <2>1 DEF Amount
<1>7. \A t : SumStep(w, t, i) = SumStep(m, t, i)
  BY <1>2, <1>5, <1>6 DEF SumStep
<1> QED BY <1>5, <1>6, <1>7 DEF w

LEMMA TotalStays ==
    ASSUME NEW X, NEW m, m \in Seq(X), NEW v, v \in Seq(X)
    PROVE  Total(m \o v)[Len(m)] = Total(m)[Len(m)]
<1> DEFINE w == m \o v
           f == Total(w)
           g == Total(m)
<1>1. Len(m) \in Nat /\ Len(w) \in Nat /\ Len(m) <= Len(w)
  BY LenProperties, ConcatProperties
<1>2. \A i \in 1..Len(m) : \A t : SumStep(w, t, i) = SumStep(m, t, i)
  BY LaterSaid
<1> HIDE DEF w
<1>3. f[0] = 0 /\ \A i \in 1..Len(w) : f[i] = SumStep(w, f[i - 1], i)
  BY <1>1, TotalIs
<1>4. g[0] = 0 /\ \A i \in 1..Len(m) : g[i] = SumStep(m, g[i - 1], i)
  BY <1>1, TotalIs
<1> HIDE DEF f, g
<1>5. f[0] = g[0] /\ \A i \in 1..Len(m) : f[i - 1] = g[i - 1] => f[i] = g[i]
  BY <1>1, <1>2, <1>3, <1>4
<1>6. \A i \in 0..Len(m) : f[i] = g[i]
  <2>1. /\ Len(m) \in Nat /\ f[0] = g[0]
        /\ \A i \in 1..Len(m) : f[i - 1] = g[i - 1] => f[i] = g[i]
    BY <1>1, <1>5
  <2> QED BY ONLY <2>1, SameSteps, ZenonT(30)
<1> QED BY <1>1, <1>6 DEF f, g, w

\* The words w say the number n.
Says(w, n) ==
    \/ w \in Seq(Known) /\ WordsToNumber(w) = n /\ \E k \in 1..Len(w) : w[k] \in NumberWords
    \/ n \in 0..MaxNumber /\ \E j \in Seq(Known) : w = j \o <<ToString(n)>>

\* The words of amounts.
AmountWords == Known \cup DigitStrings \cup Units

LEMMA SaysIn == ASSUME NEW w, NEW n, Says(w, n) PROVE w \in Seq(Known \cup DigitStrings)
<1> DEFINE Y == Known \cup DigitStrings
<1>1. \A j \in Seq(Known) : j \in Seq(Y)
  BY SeqMonotonic
<1>2. ASSUME NEW j \in Seq(Known), n \in 0..MaxNumber PROVE j \o <<ToString(n)>> \in Seq(Y)
  <2>1. ToString(n) \in Y
    BY <1>2, ReadDigits
  <2> HIDE DEF Y
  <2>2. <<ToString(n)>> \in Seq(Y)
    BY <2>1
  <2> QED BY <1>1, <2>2, ConcatProperties
<1> QED BY <1>1, <1>2 DEF Says

\* An amount more: it is read where it was said, and added to what was said before.
LEMMA SayMore ==
    ASSUME NEW X, AmountWords \subseteq X, NEW m, m \in Seq(X),
           Len(m) > 0 => m[Len(m)] \notin Known,
           NEW w, NEW n, n \in Nat, Says(w, n), NEW unit, unit \in Units
    PROVE  LET v == w \o <<unit>>
               s == m \o v
           IN  /\ v \in Seq(AmountWords) /\ s \in Seq(X)
               /\ Len(s) > Len(m) /\ s[Len(s)] = unit /\ IsSegment(s, Len(s))
               /\ Total(s)[Len(s)] = Total(m)[Len(m)] + n * UnitSeconds[unit]
<1> DEFINE Y == Known \cup DigitStrings
           v == w \o <<unit>>
           s == m \o v
           a == Len(m)
           b == Len(w)
           i == Len(s)
<1>1. w \in Seq(Y) /\ b \in Nat /\ a \in Nat
  BY SaysIn, LenProperties
<1>2. b >= 1
  <2>1. CASE \E k \in 1..Len(w) : w[k] \in NumberWords
    BY <1>1, <2>1
  <2>2. CASE n \in 0..MaxNumber /\ \E j \in Seq(Known) : w = j \o <<ToString(n)>>
    <3>1. PICK j \in Seq(Known) : w = j \o <<ToString(n)>>
      BY <2>2
    <3>2. ToString(n) \in Y
      BY <2>2, ReadDigits
    <3>3. j \in Seq(Y) /\ <<ToString(n)>> \in Seq(Y) /\ Len(<<ToString(n)>>) = 1
      <4>1. j \in Seq(Y)
        BY SeqMonotonic
      <4> HIDE DEF Y
      <4> QED BY <3>2, <4>1
    <3>4. Len(w) = Len(j) + Len(<<ToString(n)>>)
      BY <3>1, <3>3, ConcatProperties
    <3>5. Len(j) \in Nat
      BY LenProperties
    <3> QED BY <3>3, <3>4, <3>5
  <2> QED BY <2>1, <2>2 DEF Says
<1>3. /\ v \in Seq(AmountWords) /\ Len(v) = b + 1
      /\ \A k \in 1..b : v[k] = w[k] /\ v[k] \in Y
      /\ v[b + 1] = unit
  <2> DEFINE Z == AmountWords
             u == <<unit>>
  <2>1. w \in Seq(Z) /\ u \in Seq(Z) /\ Len(u) = 1 /\ u[1] = unit
    <3>1. Y \subseteq Z /\ unit \in Z
      BY DEF AmountWords
    <3>2. w \in Seq(Z)
      BY <1>1, <3>1, SeqMonotonic
    <3> QED BY <3>1, <3>2
  <2> HIDE DEF Z, u, Y
  <2>2. /\ v \in Seq(Z) /\ Len(v) = Len(w) + Len(u)
        /\ \A k \in 1..(Len(w) + Len(u)) : v[k] = IF k <= Len(w) THEN w[k] ELSE u[k - Len(w)]
    BY <2>1, ConcatProperties DEF u
  <2>3. \A k \in 1..b : w[k] \in Y
    BY <1>1, ElementOfSeq
  <2> HIDE DEF v
  <2> QED BY <1>1, <2>1, <2>2, <2>3, SMTT(30) DEF Z
<1> HIDE DEF v
<1>4. /\ s \in Seq(X) /\ i = a + b + 1 /\ \A k \in 1..a : s[k] = m[k]
      /\ \A k \in 1..(b + 1) : s[a + k] = v[k]
  <2>1. v \in Seq(X)
    BY <1>3, SeqMonotonic
  <2>2. /\ s \in Seq(X) /\ Len(s) = Len(m) + Len(v)
        /\ \A k \in 1..(Len(m) + Len(v)) : s[k] = IF k <= Len(m) THEN m[k] ELSE v[k - Len(m)]
    BY <2>1, ConcatProperties
  <2> HIDE DEF s
  <2>3. \A k \in 1..(b + 1) : a + k \in 1..(Len(m) + Len(v)) /\ ~(a + k <= Len(m)) /\ (a + k) - Len(m) = k
    BY <1>1, <1>3
  <2>4. \A k \in 1..(b + 1) : s[a + k] = v[k]
    <3> SUFFICES ASSUME NEW k \in 1..(b + 1) PROVE s[a + k] = v[k]
      OBVIOUS
    <3>1. a + k \in 1..(Len(m) + Len(v)) /\ ~(a + k <= Len(m)) /\ (a + k) - Len(m) = k
      BY <2>3
    <3> QED BY <2>2, <3>1
  <2>5. \A k \in 1..a : k \in 1..(Len(m) + Len(v)) /\ k <= Len(m)
    BY <1>1, <1>3
  <2>6. \A k \in 1..a : s[k] = m[k]
    BY <2>2, <2>5
  <2>7. Len(m) + Len(v) = a + b + 1
    BY <1>1, <1>3
  <2> QED BY <2>2, <2>4, <2>6, <2>7
<1>5. v \in Seq(X)
  BY <1>3, SeqMonotonic
<1>6. Total(s)[a] = Total(m)[a]
  BY <1>5, TotalStays
<1> HIDE DEF s, a, b, i
<1>7. i \in Nat /\ s[i] = unit /\ i > 1 /\ i - 1 = a + b /\ s[i - 1] = w[b]
  BY <1>1, <1>2, <1>3, <1>4
<1>8. \A k \in (a + 1)..(a + b) : s[k] \in Y
  <2>1. \A k \in (a + 1)..(a + b) : k - a \in 1..b /\ k - a \in 1..(b + 1) /\ a + (k - a) = k
    BY <1>1
  <2> HIDE DEF Y
  <2> QED BY <1>3, <1>4, <2>1
<1>9. IsSegment(s, i) /\ Amount(s, i) = n
  <2>1. CASE n \in 0..MaxNumber /\ \E j \in Seq(Known) : w = j \o <<ToString(n)>>
    <3>1. PICK j \in Seq(Known) : w = j \o <<ToString(n)>>
      BY <2>1
    <3>2. w[b] = ToString(n)
      <4> DEFINE d == <<ToString(n)>>
      <4>1. ToString(n) \in Y
        BY <2>1, ReadDigits
      <4>2. j \in Seq(Y)
        BY SeqMonotonic
      <4> HIDE DEF Y
      <4>3. d \in Seq(Y) /\ Len(d) = 1 /\ d[1] = ToString(n)
        BY <4>1
      <4> HIDE DEF d
      <4>4. /\ Len(j \o d) = Len(j) + Len(d)
            /\ \A k \in 1..(Len(j) + Len(d)) : (j \o d)[k] = IF k <= Len(j) THEN j[k] ELSE d[k - Len(j)]
        BY <4>2, <4>3, ConcatProperties
      <4>5. Len(j) \in Nat /\ w = j \o d
        BY <3>1, LenProperties DEF d
      <4>6. Len(w) = Len(j) + 1 /\ w[Len(j) + 1] = d[1]
        BY ONLY <4>3, <4>4, <4>5
      <4> QED BY <4>3, <4>6 DEF b
    <3>3. AfterDigits(s, i) /\ InDigits[s[i - 1]] = n
      BY <1>7, <2>1, <3>2, ReadDigits DEF AfterDigits
    <3> QED BY <1>7, <3>3 DEF IsSegment, Amount
  <2>2. CASE w \in Seq(Known) /\ WordsToNumber(w) = n /\ \E k \in 1..Len(w) : w[k] \in NumberWords
    <3>1. \A k \in 1..b : w[k] \in Known
      BY <2>2, ElementOfSeq DEF b
    <3>2. ~AfterDigits(s, i)
      <4>1. s[i - 1] \in Known
        BY <1>1, <1>2, <1>7, <3>1
      <4> QED BY <4>1, WordClasses DEF AfterDigits
    <3>3. \A k \in 1..b : s[a + k] = w[k]
      <4> SUFFICES ASSUME NEW k \in 1..b PROVE s[a + k] = w[k]
        OBVIOUS
      <4>1. k \in 1..(b + 1)
        BY <1>1
      <4>2. v[k] = w[k]
        BY <1>3
      <4> QED BY <1>4, <4>1, <4>2
    <3>4. Run(s, i) = SubSeq(s, a + 1, i - 1)
      <4>1. a + 1 \in 1..i
        BY <1>1, <1>4
      <4>2. \A k \in (a + 1)..(i - 1) : s[k] \in Known
        <5>1. \A k \in (a + 1)..(i - 1) : k - a \in 1..b /\ a + (k - a) = k
          BY <1>1, <1>7
        <5> QED BY <3>1, <3>3, <5>1
      <4>3. a + 1 > 1 => s[(a + 1) - 1] \notin Known
        <5>1. a + 1 > 1 => a \in 1..a /\ (a + 1) - 1 = a /\ Len(m) > 0
          BY <1>1 DEF a
        <5> QED BY <1>4, <5>1 DEF a
      <4> QED BY <1>7, <4>1, <4>2, <4>3, RunIs
    <3>5. SubSeq(s, a + 1, i - 1) = w
      <4> DEFINE t == SubSeq(s, a + 1, i - 1)
      <4>1. a + 1 \in Int /\ i - 1 \in Int /\ \A k \in (a + 1)..(i - 1) : s[k] \in Known
        <5>1. \A k \in (a + 1)..(i - 1) : k - a \in 1..b /\ a + (k - a) = k
          BY <1>1, <1>7
        <5>2. \A k \in (a + 1)..(i - 1) : s[k] \in Known
          BY <3>1, <3>3, <5>1
        <5>3. a + 1 \in Int /\ i - 1 \in Int
          BY <1>1, <1>7
        <5> QED BY <5>2, <5>3
      <4>2. /\ t \in Seq(Known)
            /\ Len(t) = IF a + 1 <= i - 1 THEN (i - 1) - (a + 1) + 1 ELSE 0
            /\ \A k \in 1..((i - 1) - (a + 1) + 1) : t[k] = s[((a + 1) + k) - 1]
        BY ONLY <4>1, SubSeqProperties
      <4> HIDE DEF t
      <4>3. Len(t) = b /\ \A k \in 1..b : t[k] = s[a + k]
        <5>1. /\ a + 1 <= i - 1 /\ (i - 1) - (a + 1) + 1 = b
              /\ \A k \in 1..b : ((a + 1) + k) - 1 = a + k
          BY <1>1, <1>2, <1>7
        <5> QED BY <4>2, <5>1
      <4>4. w \in Seq(Known) /\ Len(t) = Len(w) /\ \A k \in 1..Len(t) : t[k] = w[k]
        BY <2>2, <3>3, <4>3 DEF b
      <4>5. t = w
        BY ONLY <4>2, <4>4, SeqEqual
      <4> QED BY <4>5 DEF t
    <3>6. DOMAIN w = 1..Len(w)
      BY <2>2, LenProperties
    <3>7. \E k \in DOMAIN Run(s, i) : Run(s, i)[k] \in NumberWords
      BY <2>2, <3>4, <3>5, <3>6
    <3> QED BY <1>7, <2>2, <3>2, <3>4, <3>5, <3>7 DEF IsSegment, Amount
  <2> QED BY <2>1, <2>2 DEF Says
<1>10. Total(s)[i - 1] = Total(s)[a]
  <2>1. \A k \in (a + 1)..(i - 1) : ~IsSegment(s, k)
    <3>1. \A k \in (a + 1)..(i - 1) : s[k] \in Y
      BY <1>7, <1>8
    <3> QED BY <3>1, WordClasses DEF IsSegment
  <2>2. Len(s) \in Nat /\ a \in 0..Len(s) /\ i - 1 \in a..Len(s)
    BY <1>1, <1>2, <1>4, <1>7 DEF i
  <2> QED BY <2>1, <2>2, TotalOver
<1>11. Total(s)[i] = SumStep(s, Total(s)[i - 1], i)
  <2>1. Len(s) \in Nat /\ i \in 1..Len(s)
    BY <1>7 DEF i
  <2> QED BY <2>1, TotalIs
<1>12. Total(s)[i] = Total(m)[a] + n * UnitSeconds[unit]
  BY <1>6, <1>7, <1>9, <1>10, <1>11 DEF SumStep
<1>13. i > a
  BY <1>1, <1>4
<1> QED BY <1>3, <1>4, <1>7, <1>9, <1>12, <1>13 DEF v, s, a, i

LEMMA SecondsAre ==
    ASSUME NEW X, NEW m, m \in Seq(X), Len(m) > 0, IsSegment(m, Len(m))
    PROVE  Seconds(m) = Total(m)[Len(m)]
<1>1. DOMAIN m = 1..Len(m) /\ Len(m) \in Nat
  BY LenProperties
<1>2. Len(m) \in DOMAIN m
  BY <1>1
<1>3. \E i \in DOMAIN m : IsSegment(m, i)
  BY <1>2, Zenon
<1> QED BY <1>3, Zenon DEF Seconds

LEMMA NothingTotal == Total(<<>>)[0] = 0
<1>1. Len(<<>>) \in Nat
  BY EmptySeq
<1> QED BY <1>1, TotalIs

LEMMA JointsKnown == <<>> \in Seq(Known) /\ <<"and">> \in Seq(Known)
  BY KnownWords, OneWord, EmptySeq

\* Numbers in digits say what they are, also after "and".
LEMMA DigitsSay ==
    ASSUME NEW n, n \in 0..MaxNumber, NEW joint, joint \in Seq(Known)
    PROVE  Says(joint \o <<ToString(n)>>, n)
  BY DEF Says

\* A message of one or two amounts in digits.
LEMMA ToldOne ==
    ASSUME NEW n, n \in 0..MaxNumber, NEW u, u \in Units
    PROVE  /\ <<ToString(n), u>> \in Seq(AmountWords) /\ Len(<<ToString(n), u>>) = 2
           /\ Total(<<ToString(n), u>>)[2] = n * UnitSeconds[u]
           /\ Seconds(<<ToString(n), u>>) = n * UnitSeconds[u]
<1> DEFINE d == <<ToString(n)>>
           w == <<>> \o d
           s == <<ToString(n), u>>
           A == AmountWords
<1>1. ToString(n) \in A /\ u \in A /\ n \in Nat
  BY ReadDigits, DigitsAssumption DEF AmountWords
<1> HIDE DEF A
<1>2. /\ d \in Seq(A) /\ <<u>> \in Seq(A) /\ s \in Seq(A) /\ Len(s) = 2 /\ s[2] = u
      /\ s = d \o <<u>> /\ <<>> \in Seq(A) /\ Len(<<>>) = 0
  BY <1>1, EmptySeq
<1>3. w = d /\ <<>> \o s = s
  BY <1>2, ConcatEmptySeq
<1>4. Says(d, n)
  BY <1>3, DigitsSay, JointsKnown
<1>5. LET t == <<>> \o (d \o <<u>>)
      IN  /\ IsSegment(t, Len(t)) /\ t \in Seq(A)
          /\ Total(t)[Len(t)] = Total(<<>>)[Len(<<>>)] + n * UnitSeconds[u]
  <2> DEFINE e == <<>>
  <2>1. /\ AmountWords \subseteq A /\ e \in Seq(A) /\ (Len(e) > 0 => e[Len(e)] \notin Known)
        /\ n \in Nat /\ Says(d, n) /\ u \in Units
    BY <1>1, <1>2, <1>4 DEF A
  <2> HIDE DEF d, e
  <2>2. LET t == e \o (d \o <<u>>)
        IN  /\ IsSegment(t, Len(t)) /\ t \in Seq(A)
            /\ Total(t)[Len(t)] = Total(e)[Len(e)] + n * UnitSeconds[u]
    BY ONLY <2>1, SayMore
  <2> QED BY <2>2 DEF e
<1>6. n * UnitSeconds[u] \in Int
  <2>1. UnitSeconds[u] \in Int
    BY WordClasses
  <2> QED BY <1>1, <2>1
<1>7. IsSegment(s, 2) /\ Total(s)[2] = n * UnitSeconds[u]
  <2>1. <<>> \o (d \o <<u>>) = s
    BY <1>2, <1>3
  <2>2. IsSegment(s, Len(s)) /\ Total(s)[Len(s)] = Total(<<>>)[Len(<<>>)] + n * UnitSeconds[u]
    BY <1>5, <2>1
  <2>3. Total(<<>>)[Len(<<>>)] = 0
    BY <1>2, NothingTotal
  <2> HIDE DEF s
  <2> QED BY <1>2, <1>6, <2>2, <2>3
<1>8. Seconds(s) = Total(s)[2]
  <2> HIDE DEF s
  <2>1. s \in Seq(A) /\ Len(s) > 0 /\ IsSegment(s, Len(s))
    BY <1>2, <1>7
  <2> QED BY <1>2, <2>1, SecondsAre
<1> QED BY <1>2, <1>7, <1>8 DEF A

LEMMA ToldTwo ==
    ASSUME NEW n, n \in 0..MaxNumber, NEW u, u \in Units,
           NEW k, k \in 0..MaxNumber, NEW v, v \in Units
    PROVE  Seconds(<<ToString(n), u>> \o (<<"and">> \o <<ToString(k), v>>))
              = n * UnitSeconds[u] + k * UnitSeconds[v]
<1> DEFINE m == <<ToString(n), u>>
           a == <<"and">>
           d == <<ToString(k)>>
           w == a \o d
           s == m \o (w \o <<v>>)
           A == AmountWords
<1>1. m \in Seq(A) /\ Len(m) = 2 /\ Total(m)[2] = n * UnitSeconds[u] /\ m[2] \notin Known
  <2>1. u \notin Known /\ m[2] = u
    BY WordClasses
  <2> QED BY <2>1, ToldOne
<1>2. Says(w, k)
  BY DigitsSay, JointsKnown
<1>3. /\ s \in Seq(A) /\ Len(s) > Len(m) /\ IsSegment(s, Len(s))
      /\ Total(s)[Len(s)] = Total(m)[Len(m)] + k * UnitSeconds[v]
  <2>1. /\ AmountWords \subseteq A /\ m \in Seq(A) /\ (Len(m) > 0 => m[Len(m)] \notin Known)
        /\ k \in Nat /\ Says(w, k) /\ v \in Units
    BY <1>1, <1>2, DigitsAssumption
  <2> HIDE DEF m, w, A
  <2> QED BY ONLY <2>1, SayMore DEF s
<1>4. s = m \o (<<"and">> \o <<ToString(k), v>>)
  <2>1. <<ToString(k), v>> = d \o <<v>>
    OBVIOUS
  <2>2. a \in Seq(A) /\ d \in Seq(A) /\ <<v>> \in Seq(A)
    <3>1. "and" \in A /\ ToString(k) \in A /\ v \in A
      BY KnownWords, ReadDigits DEF AmountWords
    <3> HIDE DEF A
    <3> QED BY <3>1
  <2>3. w \o <<v>> = a \o (d \o <<v>>)
    BY ONLY <2>2, ConcatAssociative
  <2> QED BY <2>1, <2>3
<1>5. Seconds(s) = Total(s)[Len(s)]
  <2> HIDE DEF s
  <2>1. s \in Seq(A) /\ Len(s) > 0 /\ IsSegment(s, Len(s))
    BY <1>1, <1>3
  <2> QED BY <2>1, SecondsAre
<1>6. Seconds(s) = n * UnitSeconds[u] + k * UnitSeconds[v]
  <2> HIDE DEF s, m
  <2> QED BY <1>1, <1>3, <1>5
<1> QED BY <1>4, <1>6

-----------------------------------------------------------------------------
(* The confirmation                                                        *)

LEMMA FormatIs ==
    ASSUME NEW n, n \in 0..MaxNumber, NEW unit, unit \in {"hour", "minute", "second"}
    PROVE  \E u \in Units : /\ FormatUnit(n, unit) = <<ToString(n), u>>
                            /\ UnitSeconds[u] = UnitSeconds[unit]
<1> DEFINE u == IF n = 1 THEN unit ELSE Plural[unit]
<1>1. FormatUnit(n, unit) = <<ToString(n), u>>
  BY DEF FormatUnit
<1>2. u \in Units /\ UnitSeconds[u] = UnitSeconds[unit]
  BY DEF Units, UnitSeconds, Plural
<1> QED BY <1>1, <1>2

LEMMA HumanizeOne ==
    ASSUME NEW s, s \in Nat, s > 0, NEW n, n \in 0..MaxNumber,
           NEW unit, unit \in {"hour", "minute", "second"},
           Parts(s) = << [n |-> n, unit |-> unit] >>
    PROVE  Seconds(Humanize(s)) = n * UnitSeconds[unit]
<1>1. PICK u \in Units : FormatUnit(n, unit) = <<ToString(n), u>> /\ UnitSeconds[u] = UnitSeconds[unit]
  BY FormatIs
<1>2. Humanize(s) = FormatUnit(n, unit) \o <<>>
  <2> DEFINE p == Parts(s)
  <2>1. p[1].n = n /\ p[1].unit = unit /\ Len(p) = 1
    OBVIOUS
  <2>2. ~(s <= 0)
    OBVIOUS
  <2> HIDE DEF p
  <2> QED BY <2>1, <2>2 DEF Humanize, p
<1>3. <<ToString(n), u>> \in Seq(AmountWords) /\ Seconds(<<ToString(n), u>>) = n * UnitSeconds[u]
  BY ToldOne
<1>4. Humanize(s) = <<ToString(n), u>>
  BY <1>1, <1>2, <1>3, ConcatEmptySeq
<1> QED BY <1>1, <1>3, <1>4

LEMMA HumanizeTwo ==
    ASSUME NEW s, s \in Nat, s > 0, NEW n, n \in 0..MaxNumber, NEW k, k \in 0..MaxNumber,
           NEW unit, unit \in {"hour", "minute", "second"},
           NEW next, next \in {"hour", "minute", "second"},
           Len(Parts(s)) # 1, Parts(s)[1] = [n |-> n, unit |-> unit],
           Parts(s)[2] = [n |-> k, unit |-> next]
    PROVE  Seconds(Humanize(s)) = n * UnitSeconds[unit] + k * UnitSeconds[next]
<1>1. PICK u \in Units : FormatUnit(n, unit) = <<ToString(n), u>> /\ UnitSeconds[u] = UnitSeconds[unit]
  BY FormatIs
<1>2. PICK v \in Units : FormatUnit(k, next) = <<ToString(k), v>> /\ UnitSeconds[v] = UnitSeconds[next]
  BY FormatIs
<1>3. Humanize(s) = FormatUnit(n, unit) \o (<<"and">> \o FormatUnit(k, next))
  <2> DEFINE p == Parts(s)
  <2>1. p[1].n = n /\ p[1].unit = unit /\ p[2].n = k /\ p[2].unit = next /\ Len(p) # 1
    OBVIOUS
  <2>2. ~(s <= 0)
    OBVIOUS
  <2> HIDE DEF p
  <2> QED BY <2>1, <2>2 DEF Humanize, p
<1>4. Seconds(<<ToString(n), u>> \o (<<"and">> \o <<ToString(k), v>>))
         = n * UnitSeconds[u] + k * UnitSeconds[v]
  BY ToldTwo
<1> QED BY <1>1, <1>2, <1>3, <1>4

LEMMA PairIs ==
    ASSUME NEW X, NEW x \in X, NEW y \in X
    PROVE  /\ <<x>> \o <<y>> \in Seq(X) /\ Len(<<x>> \o <<y>>) = 2
           /\ (<<x>> \o <<y>>)[1] = x /\ (<<x>> \o <<y>>)[2] = y
<1> DEFINE a == <<x>>
           b == <<y>>
<1>1. a \in Seq(X) /\ b \in Seq(X) /\ Len(a) = 1 /\ Len(b) = 1 /\ a[1] = x /\ b[1] = y
  OBVIOUS
<1> HIDE DEF a, b
<1>2. a \o b \in Seq(X) /\ Len(a \o b) = 2 /\ (a \o b)[1] = a[1] /\ (a \o b)[2] = b[1]
  BY <1>1, ConcatProperties
<1> QED BY <1>1, <1>2 DEF a, b

LEMMA TripleStarts ==
    ASSUME NEW X, NEW s \in Seq(X), Len(s) = 2, NEW y \in X
    PROVE  Len(s \o <<y>>) = 3 /\ (s \o <<y>>)[1] = s[1] /\ (s \o <<y>>)[2] = s[2]
<1> DEFINE b == <<y>>
<1>1. b \in Seq(X) /\ Len(b) = 1
  OBVIOUS
<1> HIDE DEF b
<1>2. /\ Len(s \o b) = Len(s) + Len(b)
      /\ \A i \in 1..Len(s) + Len(b) : (s \o b)[i] = IF i <= Len(s) THEN s[i] ELSE b[i - Len(s)]
  BY <1>1, ConcatProperties
<1>3. (s \o b)[1] = s[1] /\ (s \o b)[2] = s[2]
  <2>1. 1 \in 1..Len(s) + Len(b) /\ 2 \in 1..Len(s) + Len(b)
    BY <1>1
  <2> QED BY <1>2, <2>1
<1> QED BY <1>1, <1>2, <1>3 DEF b

\* The parts p are the numbers of hours, minutes and seconds that are not 0.
PartsSay(h, m, c, p) ==
    LET Hours == [n |-> h, unit |-> "hour"]
        Minutes == [n |-> m, unit |-> "minute"]
        Rem == [n |-> c, unit |-> "second"]
    IN  /\ h # 0 /\ m # 0 => p[1] = Hours /\ p[2] = Minutes /\ Len(p) # 1
        /\ h # 0 /\ m = 0 /\ c # 0 => p[1] = Hours /\ p[2] = Rem /\ Len(p) # 1
        /\ h # 0 /\ m = 0 /\ c = 0 => p = <<Hours>>
        /\ h = 0 /\ m # 0 /\ c # 0 => p[1] = Minutes /\ p[2] = Rem /\ Len(p) # 1
        /\ h = 0 /\ m # 0 /\ c = 0 => p = <<Minutes>>
        /\ h = 0 /\ m = 0 /\ c # 0 => p = <<Rem>>

LEMMA PartsAre ==
    ASSUME NEW h, NEW m, NEW c, NEW p,
           p = (Part(h, "hour") \o Part(m, "minute")) \o Part(c, "second")
    PROVE  PartsSay(h, m, c, p)
<1> DEFINE Hours == [n |-> h, unit |-> "hour"]
           Minutes == [n |-> m, unit |-> "minute"]
           Rem == [n |-> c, unit |-> "second"]
           X == {Hours, Minutes, Rem}
<1>1. p = (Part(h, "hour") \o Part(m, "minute")) \o Part(c, "second")
  OBVIOUS
<1>2. /\ Part(h, "hour") = IF h = 0 THEN <<>> ELSE <<Hours>>
      /\ Part(m, "minute") = IF m = 0 THEN <<>> ELSE <<Minutes>>
      /\ Part(c, "second") = IF c = 0 THEN <<>> ELSE <<Rem>>
  BY DEF Part
<1>3. Hours \in X /\ Minutes \in X /\ Rem \in X
  OBVIOUS
<1> HIDE DEF Hours, Minutes, Rem, X
<1>4. /\ <<Hours>> \in Seq(X) /\ <<Minutes>> \in Seq(X) /\ <<Rem>> \in Seq(X)
      /\ <<Hours, Minutes>> \in Seq(X) /\ <<>> \in Seq(X)
  BY <1>3, EmptySeq
<1>5. /\ <<Hours>> \o <<>> = <<Hours>> /\ <<>> \o <<Minutes>> = <<Minutes>>
      /\ <<>> \o <<>> = <<>> /\ <<>> \o <<Rem>> = <<Rem>> /\ <<Minutes>> \o <<>> = <<Minutes>>
  BY <1>4, ConcatEmptySeq
<1> DEFINE HM == <<Hours>> \o <<Minutes>>
<1>a. HM \in Seq(X) /\ Len(HM) = 2 /\ HM[1] = Hours /\ HM[2] = Minutes
  BY <1>3, PairIs
<1>b. LET q == <<Hours>> \o <<Rem>> IN q[1] = Hours /\ q[2] = Rem /\ Len(q) # 1
  BY <1>3, PairIs
<1>c. LET q == <<Minutes>> \o <<Rem>> IN q[1] = Minutes /\ q[2] = Rem /\ Len(q) # 1
  BY <1>3, PairIs
<1>6. h # 0 /\ m # 0 => p[1] = Hours /\ p[2] = Minutes /\ Len(p) # 1
  <2> SUFFICES ASSUME h # 0, m # 0
               PROVE  p[1] = Hours /\ p[2] = Minutes /\ Len(p) # 1
    OBVIOUS
  <2>1. p = HM \o (IF c = 0 THEN <<>> ELSE <<Rem>>)
    BY <1>1, <1>2
  <2> HIDE DEF HM
  <2>2. CASE c = 0
    <3> DEFINE e == <<>>
    <3>1. p = HM \o e
      BY <2>1, <2>2
    <3>2. HM \o e = HM
      BY <1>a, ConcatEmptySeq
    <3> HIDE DEF e
    <3>3. p = HM
      BY ONLY <3>1, <3>2
    <3> QED BY ONLY <1>a, <3>3
  <2>3. CASE c # 0
    BY <1>3, <1>a, <2>1, <2>3, TripleStarts
  <2> QED BY <2>2, <2>3
<1>7. h # 0 /\ m = 0 /\ c # 0 => p[1] = Hours /\ p[2] = Rem /\ Len(p) # 1
  BY <1>1, <1>2, <1>5, <1>b
<1>8. h # 0 /\ m = 0 /\ c = 0 => p = <<Hours>>
  BY <1>1, <1>2, <1>5
<1>9. h = 0 /\ m # 0 /\ c # 0 => p[1] = Minutes /\ p[2] = Rem /\ Len(p) # 1
  BY <1>1, <1>2, <1>5, <1>c
<1>10. h = 0 /\ m # 0 /\ c = 0 => p = <<Minutes>>
  BY <1>1, <1>2, <1>5
<1>11. h = 0 /\ m = 0 /\ c # 0 => p = <<Rem>>
  BY <1>1, <1>2, <1>5
<1> QED BY <1>6, <1>7, <1>8, <1>9, <1>10, <1>11 DEF PartsSay, Hours, Minutes, Rem
\* What timer_confirmation says of a number of seconds, read again: at most two
\* parts are named, so that after hours and minutes the seconds are left out.
THEOREM ConfirmationReadBack ==
    \A s \in Nat : s > 0 /\ s \div 3600 <= MaxNumber =>
        LET told == Seconds(Humanize(s))
        IN  told = s \/ (s >= 3600 /\ s % 3600 >= 60 /\ told = 60 * (s \div 60))
<1> SUFFICES ASSUME NEW s, s \in Nat, s > 0, s \div 3600 <= MaxNumber
             PROVE  \/ Seconds(Humanize(s)) = s
                    \/ /\ s >= 3600 /\ s % 3600 >= 60
                       /\ Seconds(Humanize(s)) = 60 * (s \div 60)
  OBVIOUS
<1> DEFINE h == s \div 3600
           m == (s % 3600) \div 60
           c == (s % 3600) % 60
           told == Seconds(Humanize(s))
<1>1. MaxNumber \in Nat /\ MaxNumber >= 59
  BY DigitsAssumption, BoundsAssumption
<1>2. h \in 0..MaxNumber /\ m \in 0..MaxNumber /\ c \in 0..MaxNumber
  BY <1>1
<1>3. s = 3600 * h + 60 * m + c /\ m \in 0..59 /\ c \in 0..59 /\ h \in Nat
  OBVIOUS
<1>4. /\ h > 0 => s >= 3600
      /\ m > 0 => s % 3600 >= 60
      /\ 60 * (s \div 60) = 3600 * h + 60 * m
  OBVIOUS
<1>p. PartsSay(h, m, c, Parts(s))
  <2> DEFINE p == Parts(s)
  <2>1. p = (Part(h, "hour") \o Part(m, "minute")) \o Part(c, "second")
    BY DEF Parts
  <2> HIDE DEF h, m, c, p
  <2>2. PartsSay(h, m, c, p)
    BY ONLY <2>1, PartsAre
  <2> QED BY <2>2 DEF p
<1>5. UnitSeconds["hour"] = 3600 /\ UnitSeconds["minute"] = 60 /\ UnitSeconds["second"] = 1
  BY DEF UnitSeconds
<1> HIDE DEF h, m, c
<1>6. CASE h # 0 /\ m # 0
  <2>1. Parts(s)[1] = [n |-> h, unit |-> "hour"] /\ Parts(s)[2] = [n |-> m, unit |-> "minute"]
        /\ Len(Parts(s)) # 1
    BY <1>p, <1>6 DEF PartsSay
  <2>2. told = h * UnitSeconds["hour"] + m * UnitSeconds["minute"]
    <3> QED BY <1>2, <2>1, HumanizeTwo
  <2> HIDE DEF told
  <2>3. told = 60 * (s \div 60) /\ s >= 3600 /\ s % 3600 >= 60
    <3>1. h > 0 /\ m > 0
      BY <1>3, <1>6
    <3>2. told = 3600 * h + 60 * m
      <4> QED BY <1>3, <1>5, <2>2
    <3> QED BY <1>4, <3>1, <3>2
  <2> QED BY <2>3 DEF told
<1>7. CASE h # 0 /\ m = 0 /\ c # 0
  <2>1. Parts(s)[1] = [n |-> h, unit |-> "hour"] /\ Parts(s)[2] = [n |-> c, unit |-> "second"]
        /\ Len(Parts(s)) # 1
    BY <1>p, <1>7 DEF PartsSay
  <2>2. told = h * UnitSeconds["hour"] + c * UnitSeconds["second"]
    BY <1>2, <2>1, HumanizeTwo
  <2> QED BY <1>3, <1>5, <1>7, <2>2
<1>8. CASE h # 0 /\ m = 0 /\ c = 0
  <2>1. Parts(s) = << [n |-> h, unit |-> "hour"] >>
    BY <1>p, <1>8 DEF PartsSay
  <2>2. told = h * UnitSeconds["hour"]
    BY <1>2, <2>1, HumanizeOne
  <2> QED BY <1>3, <1>5, <1>8, <2>2
<1>9. CASE h = 0 /\ m # 0 /\ c # 0
  <2>1. Parts(s)[1] = [n |-> m, unit |-> "minute"] /\ Parts(s)[2] = [n |-> c, unit |-> "second"]
        /\ Len(Parts(s)) # 1
    BY <1>p, <1>9 DEF PartsSay
  <2>2. told = m * UnitSeconds["minute"] + c * UnitSeconds["second"]
    BY <1>2, <2>1, HumanizeTwo
  <2> QED BY <1>3, <1>5, <1>9, <2>2
<1>10. CASE h = 0 /\ m # 0 /\ c = 0
  <2>1. Parts(s) = << [n |-> m, unit |-> "minute"] >>
    BY <1>p, <1>10 DEF PartsSay
  <2>2. told = m * UnitSeconds["minute"]
    BY <1>2, <2>1, HumanizeOne
  <2> QED BY <1>3, <1>5, <1>10, <2>2
<1>11. CASE h = 0 /\ m = 0 /\ c # 0
  <2>1. Parts(s) = << [n |-> c, unit |-> "second"] >>
    BY <1>p, <1>11 DEF PartsSay
  <2>2. told = c * UnitSeconds["second"]
    BY <1>2, <2>1, HumanizeOne
  <2> QED BY <1>3, <1>5, <1>11, <2>2
<1>12. ~(h = 0 /\ m = 0 /\ c = 0)
  BY <1>3
<1> QED BY <1>6, <1>7, <1>8, <1>9, <1>10, <1>11, <1>12 DEF told
-----------------------------------------------------------------------------
(* The amounts of the specification                                        *)

LEMMA WordsSay ==
    ASSUME NEW joint, joint \in Seq(Known), NEW e, Starts(e), NEW n,
           WordsToNumber(joint \o e) = n
    PROVE  Says(joint \o e, n)
<1> DEFINE w == joint \o e
<1>1. e \in Seq(Known) /\ Len(e) >= 1 /\ e[1] \in NumberWords /\ Len(joint) \in Nat /\ Len(e) \in Nat
  BY LenProperties DEF Starts
<1>2. /\ w \in Seq(Known) /\ Len(w) = Len(joint) + Len(e)
      /\ \A i \in 1..(Len(joint) + Len(e)) : w[i] = IF i <= Len(joint) THEN joint[i] ELSE e[i - Len(joint)]
  BY <1>1, ConcatProperties
<1> HIDE DEF w
<1>3. Len(joint) + 1 \in 1..Len(w) /\ w[Len(joint) + 1] = e[1]
  BY <1>1, <1>2
<1>4. \E k \in 1..Len(w) : w[k] \in NumberWords
  BY <1>1, <1>3
<1> QED BY <1>2, <1>4 DEF Says, w

\* What goes between two amounts.
Connectives == {<<>>, <<"and">>}

LEMMA JointsRead ==
    ASSUME NEW joint, joint \in Connectives
    PROVE  joint \in Seq(Known) /\ WordsToNumber(joint) = 0
<1>1. CASE joint = <<>>
  BY <1>1, ReadNothing, JointsKnown
<1>2. CASE joint = <<"and">>
  <2> DEFINE e == <<>>
             a == <<"and">>
  <2>1. e \in Seq(Known) /\ a \in Seq(Known) /\ WordsToNumber(e) = 0 /\ 0 \in Nat
    BY ReadNothing, JointsKnown
  <2>2. e \o a = a
    BY <2>1, ConcatEmptySeq
  <2> HIDE DEF e
  <2>3. WordsToNumber(e \o a) = WordsToNumber(e)
    BY <2>1, ReadAnd
  <2> HIDE DEF a
  <2>4. WordsToNumber(a) = 0
    BY <2>1, <2>2, <2>3
  <2> QED BY <1>2, <2>1, <2>4 DEF a
<1> QED BY <1>1, <1>2 DEF Connectives

\* A numeral says its number, also after "and".
LEMMA NumeralSays ==
    ASSUME NEW joint, joint \in Connectives, NEW n, n \in 0..999, NEW e, e \in Numeral(n)
    PROVE  Says(joint \o e, n)
<1>1. joint \in Seq(Known) /\ WordsToNumber(joint) = 0
  BY JointsRead
<1>2. CASE e \in English(n)
  <2>1. Starts(e) /\ WordsToNumber(joint \o e) = n
    <3>1. joint \in Seq(Known) /\ WordsToNumber(joint) = 0 /\ n \in 0..999 /\ e \in English(n)
      BY <1>1, <1>2
    <3> QED BY ONLY <3>1, ReadEnglish, ZenonT(40)
  <2> QED BY <1>1, <2>1, WordsSay
<1>3. CASE n <= MaxNumber /\ e = <<ToString(n)>>
  <2>1. n \in 0..MaxNumber
    <3>1. MaxNumber \in Nat /\ n <= MaxNumber
      BY <1>3, DigitsAssumption, Zenon
    <3> QED BY ONLY <3>1, n \in 0..999
  <2> QED BY <1>1, <1>3, <2>1, DigitsSay
<1>4. ASSUME NEW w \in Articles, n = 1, e = <<w>> PROVE Says(joint \o e, n)
  <2>1. w \in NumberWords /\ w \in Known
    BY KnownWords
  <2>2. Starts(e)
    BY <1>4, <2>1, OneWord DEF Starts
  <2>3. WordsToNumber(joint \o <<w>>) = NumberStep(WordsToNumber(joint), w)
    BY <1>1, <2>1, ReadWord
  <2>4. NumberStep(0, w) = 1
    <3>1. NumberStep(0, w) = 0 + 1
      BY StepIs
    <3> QED BY <3>1
  <2>5. WordsToNumber(joint \o e) = n
    <3>1. WordsToNumber(joint \o <<w>>) = 1
      BY <1>1, <2>3, <2>4
    <3> QED BY <1>4, <3>1
  <2> QED BY <1>1, <2>2, <2>5, WordsSay
<1>5. "a" \in Articles /\ "an" \in Articles
  BY DEF Articles
<1> QED BY <1>2, <1>3, <1>4, <1>5 DEF Numeral
LEMMA NumeralIsSeq ==
    ASSUME NEW n, n \in 0..999, NEW e, e \in Numeral(n)
    PROVE  e \in Seq(Known \cup DigitStrings)
<1> DEFINE Y == Known \cup DigitStrings
<1>2. CASE e \in English(n)
  <2> DEFINE b == <<>>
  <2>1. b \in Seq(Known) /\ WordsToNumber(b) = 0
    BY ReadNothing, JointsKnown
  <2> HIDE DEF b
  <2>2. Starts(e)
    BY <1>2, <2>1, ReadEnglish, ZenonT(40)
  <2>3. e \in Seq(Known) /\ Known \subseteq Y
    BY <2>2 DEF Starts
  <2> QED BY <2>3, SeqMonotonic
<1>3. CASE n <= MaxNumber /\ e = <<ToString(n)>>
  <2>1. ToString(n) \in Y
    <3>1. MaxNumber \in Nat /\ n <= MaxNumber
      BY <1>3, DigitsAssumption, Zenon
    <3>2. n \in 0..MaxNumber
      BY ONLY <3>1, n \in 0..999
    <3> QED BY <3>2, ReadDigits
  <2> HIDE DEF Y
  <2> DEFINE d == <<ToString(n)>>
  <2>2. d \in Seq(Y)
    BY <2>1, OneWord
  <2>3. e = d
    BY <1>3
  <2> HIDE DEF d
  <2> QED BY ONLY <2>2, <2>3 DEF Y
<1>4. CASE e \in {<<"a">>, <<"an">>}
  <2>1. "a" \in Y /\ "an" \in Y
    BY KnownWords DEF Articles
  <2> HIDE DEF Y
  <2> DEFINE a == <<"a">>
             an == <<"an">>
  <2>2. a \in Seq(Y) /\ an \in Seq(Y)
    BY <2>1, OneWord
  <2>3. e = a \/ e = an
    BY <1>4
  <2> HIDE DEF a, an
  <2> QED BY ONLY <2>2, <2>3 DEF Y
<1> QED BY <1>2, <1>3, <1>4 DEF Numeral

\* The words of the messages that say how long a timer runs.
LengthWords == {"start", "a", "timer", "for"} \cup AmountWords

\* What was heard ends in an amount and comes to s seconds.
Heard(m, s) ==
    /\ m \in Seq(LengthWords) /\ Len(m) > 0
    /\ m[Len(m)] \in Units /\ IsSegment(m, Len(m)) /\ Total(m)[Len(m)] = s

\* The whole answer is a number of minutes.
Bare(m, s) == \E n \in 0..MaxNumber : m = <<ToString(n)>> /\ s = 60 * n

LengthInv ==
    /\ amounts \in 0..MaxAmounts /\ meant \in Nat /\ meant \div 3600 <= MaxNumber
    /\ amounts = 0 => meant = 0
    /\ amounts > 0 => \/ Heard(message, meant)
                      \/ amounts = MaxAmounts /\ Bare(message, meant)
\* A timer's request or answer grows by an amount, and what it comes to grows by
\* the amount's seconds.
LEMMA AmountHeard ==
    ASSUME NEW m, m \in Seq(LengthWords), Len(m) > 0 => m[Len(m)] \notin Known,
           NEW s, s = Total(m)[Len(m)],
           NEW joint, joint \in Connectives, NEW n, n \in 0..999,
           NEW e, e \in Numeral(n), NEW unit, unit \in Units
    PROVE  Heard(((m \o joint) \o e) \o <<unit>>, s + n * UnitSeconds[unit])
<1> DEFINE w == joint \o e
           u == <<unit>>
           v == m \o (w \o u)
           X == LengthWords
<1>1. Says(w, n) /\ n \in Nat
  <2>1. joint \in Connectives /\ n \in 0..999 /\ e \in Numeral(n)
    OBVIOUS
  <2>2. Says(joint \o e, n)
    BY ONLY <2>1, NumeralSays
  <2> QED BY <2>2
<1>2. AmountWords \subseteq X
  BY DEF LengthWords
<1>3. /\ v \in Seq(X) /\ Len(v) > Len(m) /\ v[Len(v)] = unit /\ IsSegment(v, Len(v))
      /\ Total(v)[Len(v)] = Total(m)[Len(m)] + n * UnitSeconds[unit]
  <2>1. /\ AmountWords \subseteq X /\ m \in Seq(X) /\ (Len(m) > 0 => m[Len(m)] \notin Known)
        /\ n \in Nat /\ Says(w, n) /\ unit \in Units
    BY <1>1, <1>2
  <2> HIDE DEF w, X
  <2> QED BY ONLY <2>1, SayMore DEF v, u
<1>4. /\ m \in Seq(X) /\ joint \in Seq(X) /\ e \in Seq(X) /\ u \in Seq(X)
  <2>1. joint \in Seq(Known) /\ Known \subseteq X /\ Units \subseteq X
    BY <1>2, JointsRead DEF AmountWords
  <2>2. unit \in X
    BY <2>1
  <2>3. joint \in Seq(X)
    BY <2>1, SeqMonotonic
  <2>4. e \in Seq(X)
    <3>1. e \in Seq(Known \cup DigitStrings)
      BY NumeralIsSeq
    <3>2. Known \cup DigitStrings \subseteq X
      BY <1>2 DEF AmountWords
    <3> QED BY <3>1, <3>2, SeqMonotonic
  <2> HIDE DEF X
  <2> QED BY <2>2, <2>3, <2>4, OneWord DEF X
<1>5. ((m \o joint) \o e) \o u = v
  <2> HIDE DEF u, X
  <2>1. (m \o joint) \o e = m \o w
    <3>1. (m \o joint) \o e = m \o (joint \o e)
      BY ONLY <1>4, ConcatAssociative
    <3> QED BY <3>1
  <2>2. w \in Seq(X)
    BY <1>4, ConcatProperties
  <2> HIDE DEF w
  <2>3. (m \o w) \o u = m \o (w \o u)
    <3>1. m \in Seq(X) /\ w \in Seq(X) /\ u \in Seq(X)
      BY <1>4, <2>2
    <3> QED BY ONLY <3>1, ConcatAssociative
  <2> QED BY <2>1, <2>3
<1>6. Len(m) \in Nat /\ Len(v) \in Nat /\ Len(v) > 0
  <2>1. Len(m) \in Nat /\ Len(v) \in Nat
    <3> HIDE DEF v, X
    <3> QED BY <1>3, <1>4, LenProperties
  <2> HIDE DEF v
  <2> QED BY <1>3, <2>1
<1>7. Heard(v, s + n * UnitSeconds[unit])
  <2> HIDE DEF v
  <2> QED BY <1>3, <1>6 DEF Heard
<1> QED BY <1>5, <1>7
\* "start a timer for" says no amount yet.
LEMMA StartsFromNothing ==
    ASSUME NEW m, m \in {<<>>, StartTimer}
    PROVE  /\ m \in Seq(LengthWords) /\ Len(m) \in Nat
           /\ Len(m) > 0 => m[Len(m)] \notin Known
           /\ Total(m)[Len(m)] = 0
<1>1. CASE m = <<>>
  <2>1. Len(m) = 0 /\ m \in Seq(LengthWords)
    BY <1>1, EmptySeq
  <2>2. Total(m)[0] = 0
    BY <1>1, NothingTotal
  <2> QED BY <2>1, <2>2
<1>2. CASE m = StartTimer
  <2>1. Len(m) = 4 /\ m[1] = "start" /\ m[2] = "a" /\ m[3] = "timer" /\ m[4] = "for"
    BY <1>2 DEF StartTimer
  <2>2. m \in Seq(LengthWords)
    <3> DEFINE X == LengthWords
    <3>1. "start" \in X /\ "a" \in X /\ "timer" \in X /\ "for" \in X
      BY DEF LengthWords
    <3> HIDE DEF X
    <3>2. <<"start", "a", "timer", "for">> \in Seq(X)
      BY <3>1
    <3> QED BY <1>2, <3>2 DEF StartTimer, X
  <2>3. \A i \in 1..4 : ~IsSegment(m, i)
    <3>1. {"start", "a", "timer", "for"} \cap Units = {}
      BY DEF Units, UnitSeconds
    <3>2. \A i \in 1..4 : m[i] \in {"start", "a", "timer", "for"}
      BY <2>1
    <3> QED BY <3>1, <3>2 DEF IsSegment
  <2>4. Total(m)[4] = Total(m)[0]
    <3>1. Len(m) \in Nat /\ 0 \in 0..Len(m) /\ 4 \in 0..Len(m)
      BY <2>1
    <3>2. \A i \in (0 + 1)..4 : ~IsSegment(m, i)
      BY <2>3
    <3> QED BY <3>1, <3>2, TotalOver
  <2>5. Total(m)[0] = 0
    BY <2>1, TotalIs
  <2>6. m[4] \notin Known
    BY <2>1, WordClasses
  <2> QED BY <2>1, <2>2, <2>4, <2>5, <2>6
<1> QED BY <1>1, <1>2

\* What is meant stays within what a confirmation can say.
LEMMA MeantBounded == ASSUME NEW t \in Nat, t <= MaxSeconds PROVE t \div 3600 <= MaxNumber
<1>1. MaxSeconds \in Nat /\ MaxSeconds \div 3600 <= MaxNumber /\ MaxNumber \in Nat
  BY BoundsAssumption, DigitsAssumption
<1> QED BY ONLY <1>1, t \in Nat, t <= MaxSeconds

LEMMA LengthInvHolds == MCSpec => []LengthInv
<1>1. MCInit => LengthInv
  <2>1. MaxNumber \in Nat /\ MaxAmounts \in Nat \ {0}
    BY DigitsAssumption, AmountsAssumption
  <2> QED BY <2>1 DEF MCInit, LengthInv
<1>2. LengthInv /\ [MCNext]_mcvars => LengthInv'
  <2> SUFFICES ASSUME LengthInv, [MCNext]_mcvars PROVE LengthInv'
    OBVIOUS
  <2>a. MaxAmounts \in Nat \ {0}
    BY AmountsAssumption
  <2>1. ASSUME NEW w \in Words, Say(w) PROVE LengthInv'
    BY <2>1 DEF LengthInv, Say
  <2>2. CASE FirstAmount
    <3> DEFINE joint == <<>>
    <3>a. PICK n \in Counts, unit \in Units : \E e \in Numeral(n) : SayAmount(n, unit, e, joint)
      BY <2>2 DEF FirstAmount
    <3>1. PICK e \in Numeral(n) : SayAmount(n, unit, e, joint)
      BY <3>a
    <3>b. e \in Numeral(n) /\ unit \in Units
      OBVIOUS
    <3>2. Counts \subseteq 0..999
      BY AmountsAssumption
    <3>3. amounts = 0 /\ message \in {<<>>, StartTimer} /\ meant = 0
      BY <2>2 DEF FirstAmount, LengthInv
    <3>4. /\ message \in Seq(LengthWords) /\ (Len(message) > 0 => message[Len(message)] \notin Known)
          /\ Total(message)[Len(message)] = meant /\ meant \in Nat
      BY <3>3, StartsFromNothing
    <3>5. joint \in Connectives /\ n \in 0..999
      BY <3>2 DEF Connectives
    <3> HIDE DEF joint
    <3>6. Heard(message', meant') /\ meant' \in Nat /\ meant' \div 3600 <= MaxNumber
      <4>1. /\ message' = ((message \o joint) \o e) \o <<unit>>
            /\ meant' = meant + n * UnitSeconds[unit] /\ meant' <= MaxSeconds
        BY <3>1 DEF SayAmount
      <4> DEFINE said == ((message \o joint) \o e) \o <<unit>>
                 sum == meant + n * UnitSeconds[unit]
      <4>2. Heard(said, sum)
        BY ONLY <3>4, <3>5, <3>b, AmountHeard, ZenonT(30)
      <4>3. sum \in Nat /\ sum \div 3600 <= MaxNumber
        <5>1. sum = meant + n * UnitSeconds[unit] /\ sum <= MaxSeconds
          BY <4>1
        <5>2. UnitSeconds[unit] \in {1, 60, 3600} /\ n \in Nat /\ meant \in Nat
          BY <3>4, <3>5, <3>b, WordClasses
        <5>3. sum \in Nat
          <6> HIDE DEF sum
          <6> QED BY ONLY <5>1, <5>2
        <5> HIDE DEF sum
        <5> QED BY <5>1, <5>3, MeantBounded
      <4>4. message' = said /\ meant' = sum
        BY <4>1
      <4> HIDE DEF said, sum
      <4> QED BY <4>2, <4>3, <4>4
    <3>7. amounts' = 1
      BY <3>1, <3>3 DEF SayAmount
    <3> QED BY <2>a, <3>6, <3>7 DEF LengthInv
  <2>3. CASE LaterAmount
    <3>1. PICK n \in LaterCounts, unit \in LaterUnits :
             \E e \in Numeral(n), joint \in Connectives : SayAmount(n, unit, e, joint)
      BY <2>3 DEF LaterAmount, Connectives
    <3>2. PICK e \in Numeral(n), joint \in Connectives : SayAmount(n, unit, e, joint)
      BY <3>1
    <3>b. e \in Numeral(n) /\ joint \in Connectives
      OBVIOUS
    <3>3. n \in 0..999 /\ unit \in Units
      BY AmountsAssumption
    <3>4. /\ message \in Seq(LengthWords) /\ (Len(message) > 0 => message[Len(message)] \notin Known)
          /\ Total(message)[Len(message)] = meant /\ meant \in Nat
      <4>1. amounts > 0 /\ amounts # MaxAmounts
        BY <2>3, <2>a DEF LaterAmount
      <4>2. Heard(message, meant) /\ meant \in Nat
        BY <4>1 DEF LengthInv
      <4> QED BY <4>2, WordClasses DEF Heard
    <3>5. Heard(message', meant') /\ meant' \in Nat /\ meant' \div 3600 <= MaxNumber
      <4>1. /\ message' = ((message \o joint) \o e) \o <<unit>>
            /\ meant' = meant + n * UnitSeconds[unit] /\ meant' <= MaxSeconds
        BY <3>2 DEF SayAmount
      <4> DEFINE said == ((message \o joint) \o e) \o <<unit>>
                 sum == meant + n * UnitSeconds[unit]
      <4>2. Heard(said, sum)
        BY ONLY <3>3, <3>4, <3>b, AmountHeard, ZenonT(30)
      <4>3. sum \in Nat /\ sum \div 3600 <= MaxNumber
        <5>1. sum = meant + n * UnitSeconds[unit] /\ sum <= MaxSeconds
          BY <4>1
        <5>2. UnitSeconds[unit] \in {1, 60, 3600} /\ n \in Nat /\ meant \in Nat
          BY <3>3, <3>4, <3>b, WordClasses
        <5>3. sum \in Nat
          <6> HIDE DEF sum
          <6> QED BY ONLY <5>1, <5>2
        <5> HIDE DEF sum
        <5> QED BY <5>1, <5>3, MeantBounded
      <4>4. message' = said /\ meant' = sum
        BY <4>1
      <4> HIDE DEF said, sum
      <4> QED BY <4>2, <4>3, <4>4
    <3>6. amounts' \in 1..MaxAmounts
      BY <2>3, <2>a, <3>2 DEF SayAmount, LaterAmount
    <3> QED BY <3>5, <3>6 DEF LengthInv
  <2>4. CASE BareNumber
    <3>1. PICK n \in 0..MaxNumber : message' = <<ToString(n)>> /\ meant' = 60 * n
      BY <2>4 DEF BareNumber
    <3>2. Bare(message, meant)' /\ amounts' = MaxAmounts
      BY <2>4, <3>1 DEF Bare, BareNumber
    <3>3. meant' \in Nat /\ meant' \div 3600 <= MaxNumber
      <4>1. MaxNumber \in Nat
        BY DigitsAssumption
      <4> QED BY <3>1, <4>1
    <3> QED BY <2>a, <3>2, <3>3 DEF LengthInv
  <2>5. CASE UNCHANGED mcvars
    BY <2>5 DEF mcvars, LengthInv, Heard, Bare, IsSegment
  <2> QED BY <2>1, <2>2, <2>3, <2>4, <2>5 DEF MCNext
<1> QED BY <1>1, <1>2, PTL DEF MCSpec

\* What timer_confirmation says of a timer's length, read by the rules that read
\* a request, is the length that was set; what may be left out is the seconds
\* after hours and minutes.
THEOREM ConfirmationTrue == MCSpec => []ConfirmedAsSet
<1>1. LengthInv => ConfirmedAsSet
  BY ConfirmationReadBack DEF LengthInv, ConfirmedAsSet
<1> QED BY <1>1, LengthInvHolds, PTL

\* A request for a timer is about nothing else: none of its words is one that
\* stops, lists, renames or watches.
LEMMA RequestIsForTimer ==
    ASSUME NEW m, m \in Seq(LengthWords), Begins(m, StartTimer)
    PROVE  Decide(m, 0, 0, FALSE) = Interaction("timer")
<1> DEFINE n == Normalized(m)
           Others == StopwatchWords \cup CancelWords \cup StatusWords
                     \cup {"watch", "all", "rename"}
           T == TimerRules(m, 0, 0)
           O == OtherRules(m)
<1>1. Others \cap LengthWords = {}
  <2>1. Others \cap {"start", "a", "timer", "for"} = {}
    BY DEF StopwatchWords, CancelWords, StatusWords
  <2>2. Others \cap (Known \cup Units) = {}
    BY DEF StopwatchWords, CancelWords, StatusWords, Known, NumberWords, SmallNumbers, Tens,
           Articles, Joints, Units, UnitSeconds
  <2>3. Others \cap DigitStrings = {}
    <3>1. Others \subseteq Words
      BY DEF Words
    <3>2. Others \cap Numbers = {}
      BY DEF Numbers, StopwatchWords, CancelWords, StatusWords
    <3> HIDE DEF Others
    <3> QED BY <3>1, <3>2, WordsAssumption
  <2> HIDE DEF Others
  <2> QED BY <2>1, <2>2, <2>3 DEF LengthWords, AmountWords
<1>2. DOMAIN m = 1..Len(m) /\ Len(m) \in Nat /\ \A i \in DOMAIN m : m[i] \in LengthWords
  BY LenProperties, ElementOfSeq
<1>3. \A W : W \subseteq Others => ~Has(m, W)
  <2> HIDE DEF Others
  <2> QED BY <1>1, <1>2 DEF Has
<1>4. DOMAIN n = DOMAIN m /\ \A i \in DOMAIN m : n[i] = m[i]
  <2>1. \A i \in DOMAIN m : m[i] # "stop"
    <3>1. "stop" \in Others
      BY DEF CancelWords
    <3> QED BY <1>1, <1>2, <3>1
  <2> QED BY <2>1 DEF Normalized
<1>5. \A W : W \subseteq Others => ~Has(n, W)
  <2> HIDE DEF n, Others
  <2> QED BY <1>3, <1>4 DEF Has
<1>6. Len(m) >= 4 /\ m[1] = "start" /\ m[3] = "timer"
  <2>1. Len(StartTimer) = 4 /\ DOMAIN StartTimer = 1..4 /\ StartTimer[1] = "start" /\ StartTimer[3] = "timer"
    BY DEF StartTimer
  <2> QED BY <2>1 DEF Begins
<1>7. ~HasCancelKeyword(m) /\ ~HasCancelKeyword(n) /\ ~Has(n, StatusWords)
  BY <1>3, <1>5 DEF HasCancelKeyword
<1>8. ~HasStopwatchTrigger(m) /\ ~HasStopwatchTrigger(n)
  <2>1. ~Has(m, {"watch"}) /\ ~Has(n, {"watch"}) /\ ~Has(m, StopwatchWords) /\ ~Has(n, StopwatchWords)
    BY <1>3, <1>5
  <2> HIDE DEF n
  <2> QED BY <2>1 DEF HasStopwatchTrigger, Phrase, Has
<1>9. HasTimerTrigger(m) /\ HasStartKeyword(m)
  <2>1. 1 \in DOMAIN m /\ 3 \in DOMAIN m
    BY <1>2, <1>6
  <2> QED BY <1>6, <2>1 DEF HasTimerTrigger, HasStartKeyword, Has, TimerWords, StartWords
<1>10. \A j \in 1..10 : ~T[j].applies
  <2>1. ~IsTimerStatus(m) /\ ~IsClearAll(m) /\ ~IsStopwatchStop(m) /\ ~IsTimerCancel(m)
    BY <1>7 DEF IsTimerStatus, IsClearAll, IsStopwatchStop, IsTimerCancel
  <2>2. ASSUME NEW kind PROVE ~RenamesById(m, kind) /\ ~RenamesByLabel(m, kind)
    <3>1. ~RenamesById(m, kind)
      <4> SUFFICES ASSUME NEW k, Begins(m, <<"rename", kind, k, "to">>) PROVE FALSE
        BY DEF RenamesById
      <4>1. 1 \in DOMAIN <<"rename", kind, k, "to">> /\ <<"rename", kind, k, "to">>[1] = "rename"
        OBVIOUS
      <4>2. m[1] = "rename"
        BY <4>1 DEF Begins
      <4> QED BY <1>6, <4>2
    <3>2. ~RenamesByLabel(m, kind)
      <4> SUFFICES ASSUME NEW old, NEW new, m = <<"rename", "the", kind, old, "to", new>> PROVE FALSE
        BY DEF RenamesByLabel
      <4>1. m[1] = "rename"
        OBVIOUS
      <4> QED BY <1>6, <4>1
    <3> QED BY <3>1, <3>2
  <2>3. ~IsStopwatchRename(m) /\ ~IsTimerRename(m)
    BY <2>2 DEF IsStopwatchRename, IsTimerRename
  <2>4. ~StopsById(m) /\ ~CancelsById(m)
    BY <2>1, StopByIdStops, CancelByIdCancels
  <2>5. ~IsAmbiguousStop(m) /\ ~IsAmbiguousCancel(m)
    BY <2>1 DEF IsAmbiguousStop, IsAmbiguousCancel
  <2>6. /\ ~T[1].applies /\ ~T[2].applies /\ ~T[3].applies /\ ~T[4].applies /\ ~T[5].applies
        /\ ~T[6].applies /\ ~T[7].applies /\ ~T[8].applies /\ ~T[9].applies /\ ~T[10].applies
    BY <2>1, <2>3, <2>4, <2>5 DEF TimerRules, Rule
  <2> HIDE DEF T
  <2> QED BY <2>6
<1>11. ~O[1].applies /\ O[2].applies /\ O[2].decision = Interaction("timer")
  <2>1. ~IsStopwatchStart(m) /\ IsTimerStart(m)
    BY <1>7, <1>8, <1>9 DEF IsStopwatchStart, IsTimerStart
  <2> QED BY <2>1 DEF OtherRules, Rule
<1>12. \E i \in 1..14 : /\ Decide(m, 0, 0, FALSE) = O[i].decision /\ O[i].applies
                        /\ \A j \in 1..(i - 1) : ~O[j].applies
  BY <1>10, DecidedBy
<1> HIDE DEF O
<1>13. PICK i \in 1..14 : /\ Decide(m, 0, 0, FALSE) = O[i].decision /\ O[i].applies
                          /\ \A j \in 1..(i - 1) : ~O[j].applies
  BY <1>12
<1>14. i = 2
  BY <1>11, <1>13
<1> QED BY <1>11, <1>13, <1>14

\* A timer lasts as long as was said: whatever the length, in digits or in
\* English, in one amount or in several, a request for it is routed to the timer flow,
\* is not asked back for a duration and is read as the seconds that were meant,
\* and so is the answer to "how long?", where a number alone is minutes.
THEOREM LengthsKept == MCSpec => []TimerLastsAsSaid
<1>1. LengthInv => TimerLastsAsSaid
  <2> SUFFICES ASSUME LengthInv, amounts > 0 PROVE TimerLastsAsSaid
    BY DEF TimerLastsAsSaid
  <2>1. Heard(message, meant) \/ Bare(message, meant)
    BY DEF LengthInv
  <2>2. meant \in Nat
    BY DEF LengthInv
  <2>3. CASE Heard(message, meant)
    <3>1. Seconds(message) = meant
      BY <2>3, SecondsAre DEF Heard
    <3>2. Seconds(message) # NoDuration
      BY <2>2, <3>1 DEF NoDuration
    <3>3. AnswerSeconds(message) = meant /\ ~NeedsTimerDuration(message)
      BY <3>1, <3>2 DEF AnswerSeconds, NeedsTimerDuration
    <3>4. Begins(message, StartTimer) => Decide(message, 0, 0, FALSE) = Interaction("timer")
      BY <2>3, RequestIsForTimer DEF Heard
    <3> QED BY <3>1, <3>3, <3>4 DEF TimerLastsAsSaid
  <2>4. CASE Bare(message, meant)
    <3>1. PICK n \in 0..MaxNumber : message = <<ToString(n)>> /\ meant = 60 * n
      BY <2>4 DEF Bare
    <3>2. ToString(n) \in DigitStrings /\ InDigits[ToString(n)] = n
      BY ReadDigits
    <3>3. Len(message) = 1 /\ DOMAIN message = {1} /\ message[1] = ToString(n)
      BY <3>1
    <3>4. message[1] \notin Units /\ message[1] \notin Letters
      <4>1. Letters \subseteq Units
        BY DEF Letters, Units, UnitSeconds
      <4> QED BY <3>2, <3>3, <4>1, WordClasses
    <3>5. Seconds(message) = NoDuration
      <4>1. ~\E i \in DOMAIN message : IsSegment(message, i)
        BY <3>3, <3>4 DEF IsSegment
      <4>2. SelectInSeq(message, LAMBDA w : w \in Letters) = 0
        BY <3>3, <3>4 DEF SelectInSeq
      <4> QED BY <4>1, <4>2 DEF Seconds
    <3>6. AnswerSeconds(message) = meant
      BY <3>1, <3>2, <3>3, <3>5 DEF AnswerSeconds
    <3>7. ~Begins(message, StartTimer)
      <4>1. Len(StartTimer) = 4
        BY DEF StartTimer
      <4> QED BY <3>3, <4>1 DEF Begins
    <3> QED BY <3>6, <3>7 DEF TimerLastsAsSaid
  <2> QED BY <2>1, <2>3, <2>4
<1> QED BY <1>1, LengthInvHolds, PTL
=============================================================================
