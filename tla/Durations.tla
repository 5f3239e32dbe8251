----------------------------- MODULE Durations -----------------------------
(***************************************************************************)
(* How long a timer runs: common/duration.py reads the durations of a      *)
(* message and puts a number of seconds into words.                        *)
(*                                                                         *)
(* A message is a sequence of words; a hyphen is a word of its own, and so *)
(* is what follows an apostrophe.  Of the spellings of a unit its letter,  *)
(* singular and plural are kept; "sec", "min" and "hr" read like them.     *)
(*                                                                         *)
(* The loops of the code are recursive functions of the place in the       *)
(* message, not folds, so that they can be proved about.                   *)
(***************************************************************************)
EXTENDS Integers, Sequences, SequencesExt

CONSTANT MaxNumber   \* bound: numbers written in digits

NoDuration == -1     \* None

UnitSeconds == [s |-> 1, second |-> 1, seconds |-> 1, m |-> 60, minute |-> 60,
                minutes |-> 60, h |-> 3600, hour |-> 3600, hours |-> 3600]
Units == DOMAIN UnitSeconds
Letters == {"s", "m", "h"}

SmallNumbers ==
    [zero |-> 0, one |-> 1, two |-> 2, three |-> 3, four |-> 4, five |-> 5, six |-> 6,
     seven |-> 7, eight |-> 8, nine |-> 9, ten |-> 10, eleven |-> 11, twelve |-> 12,
     thirteen |-> 13, fourteen |-> 14, fifteen |-> 15, sixteen |-> 16, seventeen |-> 17,
     eighteen |-> 18, nineteen |-> 19]
Tens == [twenty |-> 20, thirty |-> 30, forty |-> 40, fifty |-> 50, sixty |-> 60,
         seventy |-> 70, eighty |-> 80, ninety |-> 90]
Articles == {"a", "an"}
NumberWords == DOMAIN SmallNumbers \cup DOMAIN Tens \cup Articles \cup {"hundred"}
Joints == {"and", "hyphen"}

DigitStrings == {ToString(n) : n \in 0..MaxNumber}
InDigits == [w \in DigitStrings |-> CHOOSE n \in 0..MaxNumber : ToString(n) = w]

\* Numbers are written differently, and none is written as a word.
ASSUME DigitsAssumption ==
    /\ MaxNumber \in Nat
    /\ \A i, k \in 0..MaxNumber : ToString(i) = ToString(k) => i = k
    /\ DigitStrings \cap (Units \cup NumberWords \cup Joints) = {}

-----------------------------------------------------------------------------
(* _words_to_number                                                        *)

\* Mutant of AddWord: a hundred is added like the other words.
AddWordFlat(current, w) ==
    CASE w \in DOMAIN SmallNumbers -> current + SmallNumbers[w]
      [] w \in DOMAIN Tens         -> current + Tens[w]
      [] w \in Articles            -> current + 1
      [] w = "hundred"             -> current + 100

AddWord(current, w) ==
    CASE w \in DOMAIN SmallNumbers -> current + SmallNumbers[w]
      [] w \in DOMAIN Tens         -> current + Tens[w]
      [] w \in Articles            -> current + 1
      [] w = "hundred"             -> 100 * (IF current = 0 THEN 1 ELSE current)

\* What the first i words come to.
Current(words) ==
    LET current[i \in 0..Len(words)] ==
          IF i = 0 THEN 0
          ELSE IF words[i] \in Joints THEN current[i - 1]
          ELSE AddWord(current[i - 1], words[i])
    IN  current

WordsToNumber(words) == Current(words)[Len(words)]

-----------------------------------------------------------------------------
(* _iter_duration_segments: every unit that a number goes before.          *)

\* The words up to a unit that the expression for spoken numbers takes in.
Run(m, i) ==
    LET from == CHOOSE j \in 1..i :
                   /\ \A k \in j..(i - 1) : m[k] \in NumberWords \cup Joints
                   /\ j > 1 => m[j - 1] \notin NumberWords \cup Joints
    IN  SubSeq(m, from, i - 1)

AfterDigits(m, i) == i > 1 /\ m[i - 1] \in DigitStrings

IsSegment(m, i) ==
    /\ m[i] \in Units
    /\ AfterDigits(m, i) \/ \E k \in DOMAIN Run(m, i) : Run(m, i)[k] \in NumberWords

Amount(m, i) == IF AfterDigits(m, i) THEN InDigits[m[i - 1]] ELSE WordsToNumber(Run(m, i))

\* _segment_to_seconds, for the segments that end in the first i words.
Total(m) ==
    LET total[i \in 0..Len(m)] ==
          IF i = 0 THEN 0
          ELSE IF IsSegment(m, i) THEN total[i - 1] + Amount(m, i) * UnitSeconds[m[i]]
          ELSE total[i - 1]
    IN  total

\* extract_duration_seconds: the sum of the segments; without one, the first
\* letter that is a unit.
Seconds(m) ==
    LET letter == SelectInSeq(m, LAMBDA w : w \in Letters)
    IN  IF \E i \in DOMAIN m : IsSegment(m, i) THEN Total(m)[Len(m)]
        ELSE IF letter # 0 THEN UnitSeconds[m[letter]] ELSE NoDuration

\* The answer to "how long?", where a number alone is minutes.
AnswerSeconds(m) ==
    IF Seconds(m) = NoDuration /\ Len(m) = 1 /\ m[1] \in DigitStrings
    THEN 60 * InDigits[m[1]] ELSE Seconds(m)

-----------------------------------------------------------------------------
(* humanize_duration_seconds: at most two parts.                           *)

Plural == [hour |-> "hours", minute |-> "minutes", second |-> "seconds"]

FormatUnit(amount, unit) ==
    <<ToString(amount), IF amount = 1 THEN unit ELSE Plural[unit]>>

Part(n, unit) == IF n = 0 THEN <<>> ELSE << [n |-> n, unit |-> unit] >>

\* Mutant of Parts: the minutes are not what the hours leave.
PartsOfAll(seconds) ==
    Part(seconds \div 3600, "hour") \o Part(seconds \div 60, "minute")
    \o Part(seconds % 60, "second")

Parts(seconds) ==
    LET remainder == seconds % 3600
    IN  Part(seconds \div 3600, "hour") \o Part(remainder \div 60, "minute")
        \o Part(remainder % 60, "second")

Humanize(seconds) ==
    IF seconds <= 0 THEN <<"less", "than", "a", "second">>
    ELSE LET p == Parts(seconds)
         IN  FormatUnit(p[1].n, p[1].unit)
             \o (IF Len(p) = 1 THEN <<>> ELSE <<"and">> \o FormatUnit(p[2].n, p[2].unit))
=============================================================================
