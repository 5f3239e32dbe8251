------------------------------ MODULE Routing ------------------------------
(***************************************************************************)
(* How a message is understood: the predicates of timers/parsing.py and    *)
(* rules/intents.py, the router that tries them in order, and the gate     *)
(* that decides whether a tool the model asks for fits the message.  The   *)
(* two use the same predicates in different ways, and nothing but their    *)
(* order keeps them in step.                                               *)
(*                                                                         *)
(* A message is a sequence of words, as it is after lower-casing and       *)
(* trimming; a regular expression is a condition on its words.  A word     *)
(* stands for the others of its list: "start" for set, create, add, ...    *)
(* A keyword the code looks for inside words ("check" in "checklist",      *)
(* "event" in "seventy") is the set of the words that contain it.          *)
(***************************************************************************)
EXTENDS Durations

TimerWords == {"timer", "timers"}
StopwatchWords == {"stopwatch", "stopwatches"}
StartWords == {"start", "schedule"}
CancelWords == {"cancel", "stop", "clear"}
StatusWords == {"running", "check", "list", "checklist"}
Numbers == {"3"}
Names == {"'tea'"}   \* a name in quotes
LongWords == {"stopwatches", "capabilities"}   \* ten characters: a Drive file id

Words == TimerWords \cup StopwatchWords \cup StartWords \cup CancelWords \cup StatusWords
         \cup Numbers \cup Names \cup LongWords \cup
         {"m", "watch", "all", "rename", "the", "to",
          "yes", "memory", "restart", "nano", "yourself", "pi", "system", "update", "health",
          "analysis", "internal notes", "who are you", "help", "weather", "file", "calculate"}

\* A number in digits is no other word.
ASSUME WordsAssumption == DigitStrings \cap Words \subseteq Numbers

Has(m, W) == \E i \in DOMAIN m : m[i] \in W
Then(m, V, W) == \E i, j \in DOMAIN m : i < j /\ m[i] \in V /\ m[j] \in W
Phrase(m, v, w) == \E i \in DOMAIN m : i + 1 \in DOMAIN m /\ m[i] = v /\ m[i + 1] = w
Begins(m, s) == Len(m) >= Len(s) /\ \A i \in DOMAIN s : m[i] = s[i]

-----------------------------------------------------------------------------
(* timers/parsing.py                                                       *)

\* _normalize_stopwatch_spelling: "stop watch" is one word, and the place of its
\* second half is left blank.
Normalized(m) ==
    [i \in DOMAIN m |->
        CASE m[i] = "watch" /\ i - 1 \in DOMAIN m /\ m[i - 1] = "stop" -> "blank"
          [] m[i] = "stop" /\ i + 1 \in DOMAIN m /\ m[i + 1] = "watch" -> "stopwatch"
          [] OTHER -> m[i]]

HasTimerTrigger(m) == Has(m, TimerWords)
HasStopwatchTrigger(m) == Has(m, StopwatchWords) \/ Phrase(m, "stop", "watch")
HasStartKeyword(m) == Has(m, StartWords)
HasCancelKeyword(m) == Has(m, CancelWords)

\* The silent commands of the user interface, each for one row.
RenamesById(m, kind) == Len(m) > 4 /\ \E n \in Numbers : Begins(m, <<"rename", kind, n, "to">>)
RenamesByLabel(m, kind) ==
    \E old, new \in Names : m = <<"rename", "the", kind, old, "to", new>>
IsTimerRename(m) == RenamesById(m, "timer") \/ RenamesByLabel(m, "timer")
IsStopwatchRename(m) == RenamesById(m, "stopwatch") \/ RenamesByLabel(m, "stopwatch")
CancelsById(m) == \E n \in Numbers : m = <<"cancel", "timer", n>>
StopsById(m) ==
    \E n \in Numbers : Normalized(m) \in {<<"stop", "stopwatch", n>>, <<"stop", "stopwatch", "blank", n>>}
IsSilentCommand(m) ==
    IsTimerRename(m) \/ IsStopwatchRename(m) \/ CancelsById(m) \/ StopsById(m)

IsTimerStatus(m) ==
    LET n == Normalized(m)
    IN  /\ ~HasCancelKeyword(n)
        /\ HasStopwatchTrigger(n) \/ HasTimerTrigger(n)
        /\ Has(n, StatusWords)

IsClearAll(m) == HasCancelKeyword(m) /\ Has(m, {"all"}) /\ HasTimerTrigger(m)

\* Mutant of IsStopwatchStop: any of the cancel keywords.
AnyStop(m) == HasCancelKeyword(Normalized(m))

IsStopwatchStop(m) ==
    LET n == Normalized(m) IN HasStopwatchTrigger(n) /\ HasCancelKeyword(n)

\* Mutant of IsTimerCancel: only several timers at once.
IsPluralCancel(m) == ~Has(m, {"rename"}) /\ Has(m, {"timers"}) /\ HasCancelKeyword(m)

IsTimerCancel(m) == ~Has(m, {"rename"}) /\ HasTimerTrigger(m) /\ HasCancelKeyword(m)

IsAmbiguousStop(m) ==
    LET n == Normalized(m)
    IN  /\ ~StopsById(m) /\ IsStopwatchStop(m)
        /\ ~Has(n, {"stopwatches"}) /\ Has(n, {"stopwatch"})

IsAmbiguousCancel(m) ==
    /\ ~CancelsById(m) /\ IsTimerCancel(m)
    /\ ~Has(m, {"timers"}) /\ Has(m, {"timer"})
    /\ Seconds(m) = NoDuration

IsStopwatchStart(m) ==
    /\ HasCancelKeyword(m) => HasStopwatchTrigger(m)
    /\ HasStopwatchTrigger(m) /\ HasStartKeyword(m)

NeedsTimerDuration(m) ==
    ~HasCancelKeyword(m) /\ HasTimerTrigger(m) /\ HasStartKeyword(m)
    /\ Seconds(m) = NoDuration

IsTimerStart(m) ==
    /\ ~HasStopwatchTrigger(m) /\ ~HasCancelKeyword(m)
    /\ HasTimerTrigger(m) /\ HasStartKeyword(m)

-----------------------------------------------------------------------------
(* rules/intents.py                                                        *)

NeedsWipe(m) == Has(m, {"clear"}) /\ Has(m, {"memory", "yourself"})

NeedsServiceRestart(m) ==
    /\ ~Has(m, {"pi", "system"})
    /\ \/ Then(m, {"restart"}, {"yourself", "nano"})
       \/ Then(m, {"yourself", "nano"}, {"restart"})
       \/ m = <<"restart">>

NeedsUpdate(m) ==
    \/ Then(m, {"check"}, {"update"})
    \/ Then(m, {"update"}, {"nano", "yourself"})
    \/ m = <<"update">>

NeedsReboot(m) == Then(m, {"restart"}, {"pi", "system"}) \/ Then(m, {"pi"}, {"restart"})

IsHealthCheck(m) ==
    Phrase(m, "health", "check") \/ Phrase(m, "check", "yourself") \/ Phrase(m, "system", "check")
IsSystemAnalysis(m) == Phrase(m, "system", "analysis")
IsNoteList(m) ==
    Then(m, {"list"}, {"internal notes"}) \/ Then(m, {"internal notes"}, {"list"})
IsCapability(m) == Has(m, {"capabilities"})
IsIdentity(m) == Has(m, {"who are you"})
AnswersWithoutTools(m) == Has(m, {"help"})

\* The tools, and the words by which a message asks for one that has no
\* predicate of its own.
FlowOwned == {"start_timer", "start_stopwatch", "list_timers", "cancel_timers",
              "stop_stopwatches", "clear_all_timers"}
TimerTools == FlowOwned \cup {"rename_timer", "rename_stopwatch"}
Keywords == [run_python |-> {"calculate"}, read_file |-> {"file"},
             write_file |-> {"file", "update"}, get_current_weather |-> {"weather"},
             list_upcoming_calendar_events |-> {"schedule", "seventeen", "seventy"},
             read_google_drive_file |-> {}]
Tools == TimerTools \cup {"check_health", "analyze_system", "list_internal_notes"}
         \cup DOMAIN Keywords

IsDriveReference(m) == Len(m) = 1 /\ m[1] \in LongWords

\* A name that is no tool's matches: running it reports the mistake.  No word of the
\* model is a sum ("2 + 3", which admits run_python) or a Drive URL.
ToolMatches(m, t) ==
    CASE t = "start_timer"         -> IsTimerStart(m)
      [] t = "start_stopwatch"     -> IsStopwatchStart(m)
      [] t = "stop_stopwatches"    -> IsStopwatchStop(m)
      [] t = "rename_timer"        -> IsTimerRename(m)
      [] t = "rename_stopwatch"    -> IsStopwatchRename(m)
      [] t = "clear_all_timers"    -> IsClearAll(m)
      [] t = "list_timers"         -> IsTimerStatus(m)
      [] t = "cancel_timers"       -> IsTimerCancel(m)
      [] t = "check_health"        -> IsHealthCheck(m)
      [] t = "analyze_system"      -> IsSystemAnalysis(m)
      [] t = "list_internal_notes" -> IsNoteList(m)
      [] t \in DOMAIN Keywords     ->
            Has(m, Keywords[t]) \/ (t = "read_google_drive_file" /\ IsDriveReference(m))
      [] t \notin Tools            -> TRUE

MatchesAnyTool(m) == \E t \in Tools : ToolMatches(m, t)

-----------------------------------------------------------------------------
(* AgentRouter.decide.  A target says how many rows a tool is pointed at.  *)

Decision(mode, name, target) == [mode |-> mode, name |-> name, target |-> target]
Tool(name, target) == Decision("tool", name, target)
Interaction(name) == Decision("interaction", name, "none")
Mode(mode) == Decision(mode, "none", "none")
Rule(applies, decision) == [applies |-> applies, decision |-> decision]

\* Mutant of TimerRules: "cancel timer 3" is taken for "cancel timer".
TimerRulesByIdLast(m, countdowns, stopwatches) ==
    << Rule(IsTimerStatus(m), Tool("list_timers", "none")),
       Rule(IsClearAll(m), Tool("clear_all_timers", "all")),
       Rule(IsStopwatchRename(m), Tool("rename_stopwatch", "one")),
       Rule(IsTimerRename(m), Tool("rename_timer", "one")),
       Rule(IsAmbiguousStop(m) /\ stopwatches > 1, Mode("direct")),
       Rule(IsStopwatchStop(m), Tool("stop_stopwatches", "all")),
       Rule(IsTimerCancel(m), Tool("cancel_timers", "all")),
       Rule(CancelsById(m), Tool("cancel_timers", "one")) >>

\* The rules that come before a pending question, and clear it.
TimerRules(m, countdowns, stopwatches) ==
    << Rule(IsTimerStatus(m), Tool("list_timers", "none")),
       Rule(IsClearAll(m), Tool("clear_all_timers", "all")),
       Rule(IsStopwatchRename(m), Tool("rename_stopwatch", "one")),
       Rule(IsTimerRename(m), Tool("rename_timer", "one")),
       Rule(StopsById(m), Tool("stop_stopwatches", "one")),
       Rule(IsAmbiguousStop(m) /\ stopwatches > 1, Mode("direct")),
       Rule(IsStopwatchStop(m), Tool("stop_stopwatches", "all")),
       Rule(CancelsById(m), Tool("cancel_timers", "one")),
       Rule(IsAmbiguousCancel(m) /\ countdowns > 1, Mode("direct")),
       Rule(IsTimerCancel(m), Tool("cancel_timers", "all")) >>

\* Mutant of OtherRules: timers are left to the planner.
OtherRulesPlanned(m) ==
    << Rule(IsStopwatchStart(m), Tool("start_stopwatch", "none")),
       Rule(IsHealthCheck(m), Tool("check_health", "none")),
       Rule(IsSystemAnalysis(m), Tool("analyze_system", "none")),
       Rule(IsNoteList(m), Tool("list_internal_notes", "none")),
       Rule(MatchesAnyTool(m), Mode("planner")),
       Rule(TRUE, Mode("confused")) >>

OtherRules(m) ==
    << Rule(IsStopwatchStart(m), Tool("start_stopwatch", "none")),
       Rule(NeedsTimerDuration(m) \/ IsTimerStart(m), Interaction("timer")),
       Rule(NeedsWipe(m), Interaction("wipe")),
       Rule(NeedsServiceRestart(m), Interaction("service_restart")),
       Rule(NeedsUpdate(m), Interaction("update")),
       Rule(NeedsReboot(m), Interaction("reboot")),
       Rule(IsHealthCheck(m), Tool("check_health", "none")),
       Rule(IsSystemAnalysis(m), Tool("analyze_system", "none")),
       Rule(IsNoteList(m), Tool("list_internal_notes", "none")),
       Rule(IsCapability(m), Mode("capabilities")),
       Rule(IsIdentity(m), Mode("identity")),
       Rule(AnswersWithoutTools(m), Mode("answer")),
       Rule(MatchesAnyTool(m), Mode("planner")),
       Rule(TRUE, Mode("confused")) >>

\* The first rule that applies.
Decide(m, countdowns, stopwatches, pending) ==
    LET rules == TimerRules(m, countdowns, stopwatches)
                 \o <<Rule(pending, Mode("pending"))>> \o OtherRules(m)
    IN  rules[SelectInSeq(rules, LAMBDA r : r.applies)].decision
=============================================================================
