----------------------------- MODULE MCRouting -----------------------------
(***************************************************************************)
(* Every message of at most MaxWords words, every command that renames a   *)
(* row to a name of at most two words, and timers whose length is said in  *)
(* at most MaxAmounts amounts, built up a word or an amount at a time.     *)
(***************************************************************************)
EXTENDS Routing

CONSTANTS
    MaxWords, MaxSeconds, MaxAmounts,
    Counts,       \* the numbers of a first amount
    LaterCounts,  \* those of a later one
    LaterUnits,   \* and its units
    Continued     \* the sums that a later amount is added to

\* The numbers that can be written hold what a confirmation says.
ASSUME BoundsAssumption ==
    MaxSeconds \in Nat /\ MaxNumber >= 59 /\ MaxSeconds \div 3600 <= MaxNumber

ASSUME AmountsAssumption ==
    /\ MaxAmounts \in Nat \ {0}
    /\ Counts \subseteq 0..999 /\ LaterCounts \subseteq 0..999 /\ LaterUnits \subseteq Units

VARIABLES
    message,
    meant,    \* the seconds of the amounts said
    amounts   \* how many amounts were said

mcvars == <<message, meant, amounts>>

Openings == {<<>>, <<"rename", "timer", "3", "to">>, <<"rename", "stopwatch", "3", "to">>,
             <<"rename", "the", "timer", "'tea'", "to">>}
Room(opening) == Len(opening) + (IF opening = <<>> THEN MaxWords ELSE 2)
StartTimer == <<"start", "a", "timer", "for">>

\* A number in English: "a hundred and twenty-five", "one hundred twenty-five".
Word(n, words) == CHOOSE w \in DOMAIN words : words[w] = n
BelowHundred(n) ==
    IF n < 20 THEN <<Word(n, SmallNumbers)>>
    ELSE <<Word(10 * (n \div 10), Tens)>> \o
         (IF n % 10 = 0 THEN <<>> ELSE <<"hyphen", Word(n % 10, SmallNumbers)>>)
Rest(n) == {<<"and">> \o BelowHundred(n), BelowHundred(n)}
Hundreds(n) == IF n = 1 THEN {<<"one", "hundred">>, <<"a", "hundred">>}
               ELSE {<<Word(n, SmallNumbers), "hundred">>}
English(n) ==
    IF n < 100 THEN {BelowHundred(n)}
    ELSE IF n % 100 = 0 THEN Hundreds(n \div 100)
    ELSE {h \o r : h \in Hundreds(n \div 100), r \in Rest(n % 100)}
Numeral(n) == English(n) \cup (IF n <= MaxNumber THEN {<<ToString(n)>>} ELSE {})
                         \cup (IF n = 1 THEN {<<"a">>, <<"an">>} ELSE {})

MCInit == message \in Openings \cup {StartTimer} /\ meant = 0 /\ amounts = 0

Say(w) ==
    /\ amounts = 0
    /\ \E o \in Openings : Begins(message, o) /\ Len(message) < Room(o)
    /\ message' = Append(message, w)
    /\ UNCHANGED <<meant, amounts>>

SayAmount(n, unit, numeral, joint) ==
    /\ meant' = meant + n * UnitSeconds[unit] /\ meant' <= MaxSeconds
    /\ amounts' = amounts + 1
    /\ message' = message \o joint \o numeral \o <<unit>>

FirstAmount ==
    /\ amounts = 0 /\ message \in {<<>>, StartTimer}
    /\ \E n \in Counts, unit \in Units :
          \E numeral \in Numeral(n) : SayAmount(n, unit, numeral, <<>>)

LaterAmount ==
    /\ amounts \in 1..(MaxAmounts - 1) /\ meant \in Continued
    /\ \E n \in LaterCounts, unit \in LaterUnits :
          \E numeral \in Numeral(n), joint \in {<<>>, <<"and">>} :
             SayAmount(n, unit, numeral, joint)

\* The whole answer to "how long?" is a number: no amount follows.
BareNumber ==
    /\ amounts = 0 /\ message = <<>>
    /\ \E n \in 0..MaxNumber : message' = <<ToString(n)>> /\ meant' = 60 * n
    /\ amounts' = MaxAmounts

MCNext == (\E w \in Words : Say(w)) \/ FirstAmount \/ LaterAmount \/ BareNumber

MCSpec == MCInit /\ [][MCNext]_mcvars

\* For TLC: every shape of a number below a thousand, 60 and 3600 crossed.
MCCounts == 0..130 \cup {199, 200, 211, 365, 720, 999}

-----------------------------------------------------------------------------
Decisions == {Decide(message, c, s, p) : c \in {1, 2}, s \in {1, 2}, p \in BOOLEAN}

\* The tool the router chooses is one the planner's gate lets the same message
\* use: agent_router.py and tool_matches_request read a message alike, though
\* the router parses ids first and looks at what runs.
RouterToolAccepted == \A d \in Decisions : d.mode = "tool" => ToolMatches(message, d.name)

\* A message that reaches the planner matches no timer tool, and none of the
\* tools that have a rule of their own: whatever the model asks for, it cannot
\* start, rename or delete a timer behind the router's back.
PlannerLeavesTimersAlone ==
    Decide(message, 0, 0, FALSE).mode = "planner" =>
        \A t \in Tools \ DOMAIN Keywords : ~ToolMatches(message, t)

\* A command of the user interface that cancels or stops the row with an id is
\* pointed at that row, whatever else runs and whatever question is open.
IdCommandHitsItsTarget ==
    /\ CancelsById(message) => Decisions = {Tool("cancel_timers", "one")}
    /\ StopsById(message) => Decisions = {Tool("stop_stopwatches", "one")}

\* Only a message about timers or stopwatches is taken from the question that
\* is open: "yes", "no", "stop" and "cancel" reach it.
OnlyTimersPreempt ==
    Decide(message, 0, 0, TRUE).mode # "pending" =>
        HasTimerTrigger(message) \/ HasStopwatchTrigger(Normalized(message))

\* A timer lasts as long as was said, in digits or in words, in one amount or
\* several: the request for it is routed to the timer flow and is not asked back
\* for a duration, and the answer to "how long?" is read alike (flows/timer.py).
TimerLastsAsSaid ==
    amounts > 0 =>
       IF Begins(message, StartTimer)
       THEN /\ Decide(message, 0, 0, FALSE) = Interaction("timer")
            /\ ~NeedsTimerDuration(message) /\ Seconds(message) = meant
       ELSE AnswerSeconds(message) = meant

\* What timer_confirmation tells the user, read by the same rules, is what was
\* set; only the seconds after hours and minutes are left out.
ConfirmedAsSet ==
    LET told == Seconds(Humanize(meant))
    IN  amounts > 0 /\ meant > 0 =>
           \/ told = meant
           \/ meant >= 3600 /\ meant % 3600 >= 60 /\ told = 60 * (meant \div 60)
=============================================================================
