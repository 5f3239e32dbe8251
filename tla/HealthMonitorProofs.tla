------------------------ MODULE HealthMonitorProofs ------------------------
(***************************************************************************)
(* Theorems about HealthMonitor for every list of checks, every number of  *)
(* threads that announce and everything they say: types, an outage that is *)
(* announced once and silenced only as a repetition, and a voice that was  *)
(* heard and is not blamed.                                                *)
(*                                                                         *)
(* OutageToldOnce speaks of the end of a run; the strengthening says how   *)
(* far the run has come.  VoiceNotBlamed rests on the voice being cached   *)
(* before anything is played.                                              *)
(***************************************************************************)
EXTENDS HealthMonitor, TLAPS

\* The checks the run has behind it: run, or in the second pass reported.
Behind == {Checks[i] : i \in {j \in Indices : j < at}}

\* A run has a result for every check it has behind it.
RunResults == pc = "check" => \A n \in Behind : result[n] # "unknown"

\* A check whose last result was a failure was announced once in this outage, and the
\* hub took it or had said last that this check fails.
FailedTold ==
    \A n \in Names :
       IF status[n] = "failing" THEN calls[n] = 1 /\ Told(n) ELSE calls[n] = 0

\* What was found failing is remembered as failing once the report has passed it.
ReportedFailing ==
    \A n \in Names :
       /\ result[n] = "failing"
       /\ \/ pc = "idle"
          \/ pc = "report" /\ n \in Behind
          \/ pc = "announced" /\ n \in Behind \cup {Checks[at]}
       => status[n] = "failing"

\* Nothing is played, now or earlier in this process, but by the cached voice.
HeardCached ==
    /\ heard => tts
    /\ \A s \in Speakers : speaker[s].pc = "play" => tts

\* A thread with a line it has to play or publish.
Spoken == [pc : {"synthesize", "play", "publish"}, line : said]

IInv == TypeOK /\ RunResults /\ FailedTold /\ ReportedFailing /\ HeardCached

-----------------------------------------------------------------------------
LEMMA ChecksType ==
    /\ Len(Checks) \in Nat /\ Indices = 1..Len(Checks) /\ 1 \in Indices
    /\ \A i \in Indices : Checks[i] \in Names
    /\ Len(Checks) \in Indices
<1>1. Len(Checks) \in Nat /\ DOMAIN Checks = 1..Len(Checks)
  BY HealthAssumption
<1>2. PICK i \in Indices : Checks[i] = VoiceCheck
  BY HealthAssumption DEF Names
<1> QED BY <1>1, <1>2 DEF Indices, Names

\* The second pass ends with every check behind it.
LEMMA LastCheck ==
    ASSUME at \in Indices, at = Len(Checks)
    PROVE  Names = Behind \cup {Checks[at]}
<1>1. \A i \in Indices : i < at \/ i = at
  BY ChecksType
<1> QED BY <1>1 DEF Names, Behind

\* One check further, one more is behind.
LEMMA NextCheck ==
    ASSUME at \in Indices, at # Len(Checks), at' = at + 1
    PROVE  at' \in Indices /\ Behind' = Behind \cup {Checks[at]}
<1>1. at' \in Indices /\ \A i \in Indices : i < at' <=> i < at \/ i = at
  BY ChecksType
<1> QED BY <1>1 DEF Behind

LEMMA NothingBehind ==
    ASSUME at = 1
    PROVE  Behind = {}
  BY ChecksType DEF Behind

LEMMA QuietType == Quiet.pc = "quiet"
  BY DEF Quiet

LEMMA InitIInv == Init => IInv
<1> SUFFICES ASSUME Init PROVE IInv
  OBVIOUS
<1>a. AnnounceTypeOK
  <2>1. {tts, heard} \subseteq BOOLEAN
    BY DEF Init, AnnounceInit
  <2>2. last = Silence /\ said = {} /\ glados \in Glados
        /\ speaker \in [Speakers -> {Quiet}]
    BY DEF Init, AnnounceInit
  <2> QED BY <2>1, <2>2 DEF AnnounceTypeOK
<1>b. /\ pc = "idle" /\ at \in Indices /\ restarts \in 0..MaxRestarts
      /\ speaker[Monitor] = Quiet
  BY ChecksType, HealthAssumption DEF Init, AnnounceInit
<1>1. TypeOK
  BY <1>a, <1>b DEF Init, TypeOK, Unknown
<1>2. RunResults /\ FailedTold /\ ReportedFailing
  BY DEF Init, RunResults, FailedTold, ReportedFailing, Unknown
<1>3. HeardCached
  BY QuietType DEF Init, AnnounceInit, HeardCached
<1> QED BY <1>1, <1>2, <1>3 DEF IInv

-----------------------------------------------------------------------------
(* Announcements *)

\* What announce_voice takes or drops has been said.
LEMMA AnnounceStep ==
    ASSUME AnnounceTypeOK, NEW s \in Speakers, NEW line \in Lines, Announce(s, line)
    PROVE  /\ AnnounceTypeOK'
           /\ said' = said \cup {line}
           /\ \A t \in Speakers \ {s} : speaker'[t] = speaker[t]
           /\ HeardCached => HeardCached'
<1>1. UNCHANGED <<tts, glados, heard>>
  BY DEF Announce
<1>2. CASE line = last
  <2>1. line \in said
    BY <1>2, AnnouncementAssumption DEF AnnounceTypeOK
  <2> QED BY <1>1, <1>2, <2>1 DEF Announce, AnnounceTypeOK, HeardCached
<1>3. CASE line # last
  <2> DEFINE pc1 == IF Local THEN "synthesize" ELSE "publish"
  <2>1. /\ last' = line /\ said' = said \cup {line} /\ line # Silence
        /\ speaker' = [speaker EXCEPT ![s] = [pc |-> pc1, line |-> line]]
    BY <1>3, AnnouncementAssumption DEF Announce
  <2>2. pc1 \in {"synthesize", "publish"}
    OBVIOUS
  <2>3. [pc |-> pc1, line |-> line] \in Spoken' /\ Spoken \subseteq Spoken'
    BY <2>1, <2>2 DEF Spoken
  <2> HIDE DEF pc1
  <2>4. speaker' \in [Speakers -> {Quiet} \cup Spoken']
    BY <2>1, <2>3 DEF AnnounceTypeOK, Spoken
  <2>5. {tts, heard}' \subseteq BOOLEAN
    BY <1>1, Zenon DEF AnnounceTypeOK
  <2>6. AnnounceTypeOK'
    BY <1>1, <2>1, <2>4, <2>5 DEF AnnounceTypeOK, Spoken
  <2>7. speaker'[s].pc # "play"
    BY <2>1, <2>2 DEF AnnounceTypeOK
  <2>8. HeardCached => HeardCached'
    BY <1>1, <2>1, <2>7 DEF AnnounceTypeOK, HeardCached
  <2> QED BY <2>1, <2>6, <2>8
<1> QED BY <1>2, <1>3

\* The rest of announce_voice: what is played is played by the cached voice.
LEMMA SpeakStep ==
    ASSUME AnnounceTypeOK, HeardCached, NEW s \in Speakers, Speak(s)
    PROVE  /\ AnnounceTypeOK' /\ HeardCached'
           /\ said' = said
           /\ \A t \in Speakers \ {s} : speaker'[t] = speaker[t]
           /\ speaker[s] # Quiet
<1>1. UNCHANGED <<last, said, glados>>
  BY DEF Speak, Synthesize, Play, Publish
<1>2. speaker[s] \in Spoken
  BY QuietType DEF AnnounceTypeOK, Spoken, Speak, Synthesize, Play, Publish
<1> DEFINE Moves(pc1) == /\ speaker' \in [Speakers -> {Quiet} \cup Spoken]
                         /\ speaker'[s].pc = pc1
                         /\ \A t \in Speakers \ {s} : speaker'[t] = speaker[t]
<1>3. \A pc1 \in {"synthesize", "play", "publish"} : Goto(s, pc1) => Moves(pc1)
  BY <1>2 DEF Goto, AnnounceTypeOK, Spoken
<1>4. Done(s) => Moves("quiet")
  BY QuietType DEF Done, AnnounceTypeOK, Spoken
<1>b. /\ tts \in BOOLEAN /\ heard \in BOOLEAN
      /\ Ready \in BOOLEAN /\ (tts => Ready)
  BY Zenon DEF AnnounceTypeOK, Ready
<1> HIDE DEF Moves
<1>5. \E pc1 \in {"quiet", "synthesize", "play", "publish"} :
         Moves(pc1) /\ (pc1 = "play" => tts')
  <2>1. CASE Synthesize(s)
    <3>1. CASE Ready
      <4>1. tts' /\ Goto(s, "play")
        BY <2>1, <3>1, <1>b, Zenon DEF Synthesize
      <4> QED BY <4>1, <1>3
    <3>2. CASE ~Ready
      BY <2>1, <3>2, <1>3 DEF Synthesize
    <3> QED BY <3>1, <3>2
  <2>2. CASE Play(s)
    BY <2>2, <1>3 DEF Play
  <2>3. CASE Publish(s)
    BY <2>3, <1>4 DEF Publish
  <2> QED BY <2>1, <2>2, <2>3 DEF Speak
<1>6. /\ tts' \in BOOLEAN /\ heard' \in BOOLEAN
      /\ tts => tts'
      /\ heard' => heard \/ speaker[s].pc = "play"
  <2>1. CASE Synthesize(s)
    BY <2>1, <1>b, Zenon DEF Synthesize
  <2>2. CASE Play(s)
    BY <2>2, <1>b, Zenon DEF Play
  <2>3. CASE Publish(s)
    BY <2>3, <1>b, Zenon DEF Publish
  <2> QED BY <2>1, <2>2, <2>3 DEF Speak
<1>7. {tts, heard}' \subseteq BOOLEAN
  BY <1>6, Zenon
<1>8. AnnounceTypeOK'
  BY <1>1, <1>5, <1>7 DEF AnnounceTypeOK, Moves, Spoken
<1>9. HeardCached'
  BY <1>5, <1>6 DEF HeardCached, Moves
<1> QED BY <1>1, <1>2, <1>5, <1>8, <1>9, QuietType DEF Moves, Spoken

-----------------------------------------------------------------------------
(* The job *)

\* A step that leaves the announcements alone.
LEMMA AnnounceSame ==
    ASSUME AnnounceTypeOK, HeardCached, UNCHANGED announceVars
    PROVE  AnnounceTypeOK' /\ HeardCached'
  BY DEF announceVars, AnnounceTypeOK, HeardCached

LEMMA StartRunStep == IInv /\ StartRun => IInv'
<1> SUFFICES ASSUME IInv, StartRun PROVE IInv'
  OBVIOUS
<1>1. AnnounceTypeOK' /\ HeardCached'
  BY AnnounceSame DEF IInv, TypeOK, StartRun
<1>2. TypeOK'
  BY <1>1, ChecksType DEF IInv, TypeOK, StartRun, Unknown, announceVars
<1>3. RunResults'
  BY ChecksType DEF RunResults, StartRun, Behind
<1>4. FailedTold'
  BY DEF IInv, FailedTold, StartRun, Told, announceVars
<1>5. ReportedFailing'
  BY DEF ReportedFailing, StartRun
<1> QED BY <1>1, <1>2, <1>3, <1>4, <1>5 DEF IInv

\* The next check is run: the voice's loads the voice if it can.
LEMMA RunCheckStep == IInv /\ RunCheck => IInv'
<1> SUFFICES ASSUME IInv, RunCheck PROVE IInv'
  OBVIOUS
<1> DEFINE n == Checks[at]
<1>1. /\ at \in Indices /\ n \in Names
      /\ UNCHANGED <<last, speaker, glados, said, heard, broken, status, calls, told, restarts>>
  BY ChecksType DEF IInv, TypeOK, RunCheck, Checked
<1>2. PICK verdict \in {"ok", "failing"} : result' = [result EXCEPT ![n] = verdict]
  BY DEF RunCheck, Checked, Verdict
<1>3. tts' \in BOOLEAN /\ (tts => tts')
  BY Zenon DEF IInv, TypeOK, AnnounceTypeOK, RunCheck, Checked, Ready
<1>4. {tts, heard}' \subseteq BOOLEAN
  BY <1>1, <1>3, Zenon DEF IInv, TypeOK, AnnounceTypeOK
<1>5. AnnounceTypeOK' /\ HeardCached'
  BY <1>1, <1>3, <1>4 DEF IInv, TypeOK, AnnounceTypeOK, HeardCached
<1>6. FailedTold'
  BY <1>1 DEF IInv, FailedTold, Told
<1>7. \A m \in Behind \cup {n} : result'[m] # "unknown"
  BY <1>1, <1>2 DEF IInv, TypeOK, RunResults, RunCheck, Behind, Names
<1>8. CASE at = Len(Checks)
  <2>1. pc' = "report" /\ at' = 1 /\ at' \in Indices /\ Behind' = {}
    BY <1>8, ChecksType DEF RunCheck, Checked, Behind
  <2>2. \A m \in Names : result'[m] # "unknown"
    BY <1>1, <1>7, <1>8, LastCheck
  <2>3. TypeOK'
    BY <1>1, <1>2, <1>5, <2>1, <2>2 DEF IInv, TypeOK, RunCheck
  <2> QED BY <1>5, <1>6, <2>1, <2>3 DEF IInv, RunResults, ReportedFailing
<1>9. CASE at # Len(Checks)
  <2>1. pc' = "check" /\ at' \in Indices /\ Behind' = Behind \cup {n}
    BY <1>1, <1>9, NextCheck DEF RunCheck, Checked
  <2>2. TypeOK'
    BY <1>1, <1>2, <1>5, <2>1 DEF IInv, TypeOK, RunCheck
  <2> QED BY <1>5, <1>6, <1>7, <2>1, <2>2 DEF IInv, RunResults, ReportedFailing
<1> QED BY <1>8, <1>9

LEMMA RunRaisesStep == IInv /\ RunRaises => IInv'
<1> SUFFICES ASSUME IInv, RunRaises PROVE IInv'
  OBVIOUS
<1>1. AnnounceTypeOK' /\ HeardCached'
  BY AnnounceSame DEF IInv, TypeOK, RunRaises
<1>2. TypeOK'
  BY <1>1, ChecksType DEF IInv, TypeOK, RunRaises, Unknown, announceVars
<1>3. FailedTold'
  BY DEF IInv, FailedTold, RunRaises, Told, announceVars
<1>4. RunResults' /\ ReportedFailing'
  BY DEF RunResults, ReportedFailing, RunRaises, Unknown
<1> QED BY <1>1, <1>2, <1>3, <1>4 DEF IInv

\* The report goes on to the next result, or ends the run.
LEMMA AdvanceStep ==
    ASSUME TypeOK, pc \in {"report", "announced"}, Advance, UNCHANGED result,
           \A n \in Behind \cup {Checks[at]} :
              result[n] = "failing" => status'[n] = "failing"
    PROVE  /\ pc' \in {"idle", "report"} /\ at' \in Indices
           /\ RunResults' /\ ReportedFailing'
<1>1. CASE at = Len(Checks)
  <2>1. pc' = "idle" /\ at' = 1 /\ at' \in Indices
    BY <1>1, ChecksType DEF Advance
  <2>2. \A n \in Names : result[n] = "failing" => status'[n] = "failing"
    BY <1>1, LastCheck DEF TypeOK
  <2> QED BY <2>1, <2>2 DEF RunResults, ReportedFailing
<1>2. CASE at # Len(Checks)
  <2>1. pc' = "report" /\ at' \in Indices /\ Behind' = Behind \cup {Checks[at]}
    BY <1>2, NextCheck DEF Advance, TypeOK
  <2> QED BY <2>1 DEF RunResults, ReportedFailing
<1> QED BY <1>1, <1>2

\* What the report had passed, and remembers.
LEMMA PassedFailing ==
    ASSUME IInv, pc \in {"report", "announced"}
    PROVE  /\ \A n \in Behind : n \in Names /\ (result[n] = "failing" => status[n] = "failing")
           /\ Checks[at] \in Names
  BY ChecksType DEF IInv, TypeOK, ReportedFailing, Behind, Names

LEMMA ReportOkStep == IInv /\ ReportOk => IInv'
<1> SUFFICES ASSUME IInv, ReportOk PROVE IInv'
  OBVIOUS
<1> DEFINE n == Checks[at]
<1>1. AnnounceTypeOK' /\ HeardCached'
  BY AnnounceSame DEF IInv, TypeOK, ReportOk
<1>2. n \in Names /\ result[n] = "ok" /\ pc = "report" /\ result' = result
  BY PassedFailing DEF ReportOk
<1>3. /\ status' = [status EXCEPT ![n] = "ok"] /\ calls' = [calls EXCEPT ![n] = 0]
      /\ told' = [told EXCEPT ![n] = "no"]
      /\ UNCHANGED <<speaker, broken, restarts>>
  BY DEF ReportOk, announceVars
<1>4. \A m \in Behind \cup {n} : result[m] = "failing" => status'[m] = "failing"
  BY <1>2, <1>3, PassedFailing DEF IInv, TypeOK
<1>5. pc' \in {"idle", "report"} /\ at' \in Indices /\ RunResults' /\ ReportedFailing'
  BY <1>2, <1>4, AdvanceStep DEF IInv, ReportOk
<1>6. TypeOK'
  BY <1>1, <1>2, <1>3, <1>5 DEF IInv, TypeOK
<1>7. FailedTold'
  BY <1>2, <1>3 DEF IInv, TypeOK, FailedTold, Told
<1> QED BY <1>1, <1>5, <1>6, <1>7 DEF IInv

\* A check that fails still.
LEMMA ReportFailingStep == IInv /\ ReportFailing => IInv'
<1> SUFFICES ASSUME IInv, ReportFailing PROVE IInv'
  OBVIOUS
<1>1. AnnounceTypeOK' /\ HeardCached'
  BY AnnounceSame DEF IInv, TypeOK, ReportFailing
<1>2. /\ pc = "report" /\ status[Checks[at]] = "failing"
      /\ UNCHANGED <<result, status, calls, told, speaker, broken, restarts>>
  BY DEF ReportFailing, announceVars
<1>3. \A m \in Behind \cup {Checks[at]} : result[m] = "failing" => status'[m] = "failing"
  BY <1>2, PassedFailing
<1>4. pc' \in {"idle", "report"} /\ at' \in Indices /\ RunResults' /\ ReportedFailing'
  BY <1>2, <1>3, AdvanceStep DEF IInv, ReportFailing
<1>5. TypeOK'
  BY <1>1, <1>2, <1>4 DEF IInv, TypeOK
<1>6. FailedTold'
  BY <1>2 DEF IInv, FailedTold, Told
<1> QED BY <1>1, <1>4, <1>5, <1>6 DEF IInv

\* announce_voice has returned.
LEMMA NextResultStep == IInv /\ NextResult => IInv'
<1> SUFFICES ASSUME IInv, NextResult PROVE IInv'
  OBVIOUS
<1>1. AnnounceTypeOK' /\ HeardCached'
  BY AnnounceSame DEF IInv, TypeOK, NextResult
<1>2. /\ pc = "announced" /\ speaker[Monitor] = Quiet
      /\ UNCHANGED <<result, status, calls, told, speaker, broken, restarts>>
  BY DEF NextResult, announceVars
<1>3. \A m \in Behind \cup {Checks[at]} : result[m] = "failing" => status'[m] = "failing"
  BY <1>2, PassedFailing DEF IInv, ReportedFailing
<1>4. pc' \in {"idle", "report"} /\ at' \in Indices /\ RunResults' /\ ReportedFailing'
  BY <1>2, <1>3, AdvanceStep DEF IInv, NextResult
<1>5. TypeOK'
  BY <1>1, <1>2, <1>4 DEF IInv, TypeOK
<1>6. FailedTold'
  BY <1>2 DEF IInv, FailedTold, Told
<1> QED BY <1>1, <1>4, <1>5, <1>6 DEF IInv

\* A check that fails anew is announced: it was not since it was last ok.
LEMMA ReportNewFailureStep == IInv /\ ReportNewFailure => IInv'
<1> SUFFICES ASSUME IInv, ReportNewFailure PROVE IInv'
  OBVIOUS
<1> DEFINE n == Checks[at]
<1>1. /\ n \in Names /\ pc = "report" /\ pc' = "announced" /\ status[n] # "failing"
      /\ status' = [status EXCEPT ![n] = "failing"]
      /\ calls' = [calls EXCEPT ![n] = calls[n] + 1]
      /\ UNCHANGED <<at, broken, result, restarts>>
  BY PassedFailing DEF ReportNewFailure
<1>2. PICK line \in SaysOf[n] :
        /\ Announce(Monitor, line)
        /\ told' = [told EXCEPT ![n] = IF speaker'[Monitor] # Quiet THEN "taken"
                                      ELSE IF last \in SaysOf[n] THEN "repeats"
                                      ELSE "lost"]
  BY DEF ReportNewFailure
<1>3. line \in Lines
  BY <1>1, <1>2, HealthAssumption
<1>4. AnnounceTypeOK' /\ HeardCached'
  BY <1>2, <1>3, AnnounceStep, HealthAssumption DEF IInv, TypeOK
<1>5. /\ told' \in [Names -> {"no", "taken", "repeats", "lost"}]
      /\ Told(n)' /\ \A m \in Names : Told(m) => Told(m)'
  <2>1. told \in [Names -> {"no", "taken", "repeats", "lost"}]
    BY DEF IInv, TypeOK
  <2>2. CASE line = last
    <3>1. told'[n] \in {"taken", "repeats"}
      BY <1>1, <1>2, <2>1, <2>2
    <3> QED BY <1>1, <1>2, <2>1, <2>2, <3>1 DEF Told
  <2>3. CASE line # last
    <3>1. speaker'[Monitor] # Quiet
      BY <1>2, <2>3, HealthAssumption DEF Announce, IInv, TypeOK, AnnounceTypeOK, Quiet
    <3> QED BY <1>1, <1>2, <2>1, <3>1 DEF Told
  <2> QED BY <2>2, <2>3
<1>6. calls[n] = 0
  BY <1>1 DEF IInv, FailedTold
<1>7. TypeOK'
  <2>1. status' \in [Names -> {"unknown", "ok", "failing"}]
    BY <1>1 DEF IInv, TypeOK
  <2>2. calls' \in [Names -> Nat]
    BY <1>1 DEF IInv, TypeOK
  <2>3. /\ broken' \subseteq Names \ {VoiceCheck} /\ restarts' \in 0..MaxRestarts
        /\ at' \in Indices /\ result' \in [Names -> {"unknown", "ok", "failing"}]
        /\ \A m \in Names : result'[m] # "unknown"
    BY <1>1 DEF IInv, TypeOK
  <2> QED BY <1>1, <1>4, <1>5, <2>1, <2>2, <2>3 DEF TypeOK
<1>8. FailedTold'
  BY <1>1, <1>5, <1>6 DEF IInv, TypeOK, FailedTold
<1>9. Behind' = Behind
  BY <1>1 DEF Behind
<1>10. ReportedFailing'
  BY <1>1, <1>9, PassedFailing DEF IInv, TypeOK, ReportedFailing
<1>11. RunResults'
  BY <1>1 DEF RunResults
<1> QED BY <1>4, <1>7, <1>8, <1>10, <1>11 DEF IInv

-----------------------------------------------------------------------------
(* Everything else *)

\* What others say and do leaves the job where it stood.
LEMMA ElsewhereStep ==
    ASSUME IInv, AnnounceTypeOK', HeardCached', UNCHANGED monitorVars,
           broken' \subseteq Names \ {VoiceCheck}, UNCHANGED restarts,
           speaker'[Monitor] # Quiet => pc = "announced"
    PROVE  IInv'
<1>1. UNCHANGED <<pc, at, result, status, calls, told>>
  BY DEF monitorVars
<1>2. TypeOK'
  BY <1>1 DEF IInv, TypeOK
<1>4. FailedTold'
  BY <1>1 DEF IInv, FailedTold, Told
<1>5. Behind' = Behind
  BY <1>1 DEF Behind
<1>6. RunResults' /\ ReportedFailing'
  BY <1>1, <1>5 DEF IInv, RunResults, ReportedFailing
<1> QED BY <1>2, <1>4, <1>6 DEF IInv

LEMMA AnnounceOtherStep == IInv /\ AnnounceOther => IInv'
<1> SUFFICES ASSUME IInv, AnnounceOther PROVE IInv'
  OBVIOUS
<1>1. PICK s \in Others, line \in Lines : Announce(s, line)
  BY DEF AnnounceOther
<1>2. UNCHANGED <<broken, monitorVars, restarts>>
  BY DEF AnnounceOther
<1>3. /\ AnnounceTypeOK' /\ HeardCached'
      /\ speaker'[Monitor] = speaker[Monitor]
  BY <1>1, AnnounceStep, HealthAssumption DEF IInv, TypeOK, Others
<1> QED BY <1>2, <1>3, ElsewhereStep DEF IInv, TypeOK, Quiet

LEMMA SpeakingStep ==
    ASSUME NEW s \in Speakers
    PROVE  IInv /\ Speaking(s) => IInv'
<1> SUFFICES ASSUME IInv, Speaking(s) PROVE IInv'
  OBVIOUS
<1>1. Speak(s) /\ UNCHANGED <<broken, monitorVars, restarts>>
  BY DEF Speaking
<1>2. /\ AnnounceTypeOK' /\ HeardCached' /\ said' = said
      /\ \A t \in Speakers \ {s} : speaker'[t] = speaker[t]
      /\ speaker[s] # Quiet
  BY <1>1, SpeakStep DEF IInv, TypeOK
<1>3. speaker'[Monitor] # Quiet => pc = "announced"
  BY <1>2, HealthAssumption DEF IInv, TypeOK
<1> QED BY <1>1, <1>2, <1>3, ElsewhereStep DEF IInv, TypeOK

LEMMA SystemChangesStep == IInv /\ SystemChanges => IInv'
<1> SUFFICES ASSUME IInv, SystemChanges PROVE IInv'
  OBVIOUS
<1>1. AnnounceTypeOK' /\ HeardCached'
  BY AnnounceSame DEF IInv, TypeOK, SystemChanges
<1>2. broken' \subseteq Names \ {VoiceCheck} /\ UNCHANGED <<announceVars, monitorVars, restarts>>
  BY DEF IInv, TypeOK, SystemChanges
<1> QED BY <1>1, <1>2, ElsewhereStep DEF IInv, TypeOK, announceVars

LEMMA VoiceElsewhereStep == IInv /\ VoiceElsewhere => IInv'
<1> SUFFICES ASSUME IInv, VoiceElsewhere PROVE IInv'
  OBVIOUS
<1>1. UNCHANGED <<last, speaker, said, broken, monitorVars, restarts>>
  BY DEF VoiceElsewhere, VoiceChanges, VoiceUsed
<1>2. /\ tts' \in BOOLEAN /\ heard' \in BOOLEAN
      /\ tts => tts'
      /\ heard' => heard \/ tts'
  <2>1. tts \in BOOLEAN /\ heard \in BOOLEAN
    BY Zenon DEF IInv, TypeOK, AnnounceTypeOK
  <2>2. CASE VoiceChanges
    BY <2>1, <2>2, Zenon DEF VoiceChanges
  <2>3. CASE VoiceUsed
    BY <2>1, <2>3, Zenon DEF VoiceUsed
  <2> QED BY <2>2, <2>3 DEF VoiceElsewhere
<1>3. {tts, heard}' \subseteq BOOLEAN
  BY <1>2, Zenon
<1>4. glados' \in Glados
  BY DEF IInv, TypeOK, AnnounceTypeOK, VoiceElsewhere, VoiceChanges, VoiceUsed
<1>5. AnnounceTypeOK' /\ HeardCached'
  BY <1>1, <1>2, <1>3, <1>4 DEF IInv, TypeOK, AnnounceTypeOK, HeardCached
<1> QED BY <1>1, <1>5, ElsewhereStep DEF IInv, TypeOK

LEMMA RestartStep == IInv /\ Restart => IInv'
<1> SUFFICES ASSUME IInv, Restart PROVE IInv'
  OBVIOUS
<1>1. {tts, heard}' \subseteq BOOLEAN
  BY Zenon DEF Restart, AnnounceRestart
<1>2. AnnounceTypeOK'
  BY <1>1 DEF IInv, TypeOK, AnnounceTypeOK, Restart, AnnounceRestart
<1>3. HeardCached'
  BY QuietType DEF HeardCached, Restart, AnnounceRestart
<1>4. TypeOK'
  BY <1>2, ChecksType, HealthAssumption DEF IInv, TypeOK, Restart, AnnounceRestart, Unknown
<1>5. RunResults' /\ FailedTold' /\ ReportedFailing'
  BY DEF Restart, RunResults, FailedTold, ReportedFailing, Unknown
<1> QED BY <1>2, <1>3, <1>4, <1>5 DEF IInv

-----------------------------------------------------------------------------
(* Theorems *)

LEMMA StutterStep == IInv /\ UNCHANGED vars => IInv'
<1> SUFFICES ASSUME IInv, UNCHANGED vars PROVE IInv'
  OBVIOUS
<1>1. UNCHANGED announceVars /\ UNCHANGED monitorVars /\ UNCHANGED <<broken, restarts>>
  BY DEF vars
<1>2. AnnounceTypeOK' /\ HeardCached' /\ UNCHANGED <<speaker, said>>
  BY <1>1, AnnounceSame DEF IInv, TypeOK, announceVars
<1> QED BY <1>1, <1>2, ElsewhereStep DEF IInv, TypeOK

LEMMA NextIInv == IInv /\ [Next]_vars => IInv'
<1> SUFFICES ASSUME IInv, [Next]_vars PROVE IInv'
  OBVIOUS
<1>1. CASE StartRun
  BY <1>1, StartRunStep
<1>2. CASE CheckSystemHealth
  BY <1>2, RunCheckStep, RunRaisesStep, ReportOkStep, ReportFailingStep,
     ReportNewFailureStep, NextResultStep DEF CheckSystemHealth
<1>3. CASE AnnounceOther
  BY <1>3, AnnounceOtherStep
<1>4. CASE \E s \in Speakers : Speaking(s)
  BY <1>4, SpeakingStep
<1>5. CASE SystemChanges
  BY <1>5, SystemChangesStep
<1>6. CASE VoiceElsewhere
  BY <1>6, VoiceElsewhereStep
<1>7. CASE Restart
  BY <1>7, RestartStep
<1>8. CASE UNCHANGED vars
  BY <1>8, StutterStep
<1> QED BY <1>1, <1>2, <1>3, <1>4, <1>5, <1>6, <1>7, <1>8 DEF Next

LEMMA Invariance == Spec => []IInv
  BY InitIInv, NextIInv, PTL DEF Spec

\* For every list of checks and every number of threads that announce, every
\* variable holds a value of its type.
THEOREM TypeCorrect == Spec => []TypeOK
<1>1. IInv => TypeOK
  BY DEF IInv
<1> QED BY <1>1, Invariance, PTL

\* For every list of checks, and whatever they and the other speakers do: each outage
\* is announced once, and the hub takes that announcement unless the last thing it
\* said is that this check fails.
THEOREM ToldOnce == Spec => []OutageToldOnce
<1>1. IInv => OutageToldOnce
  BY DEF IInv, FailedTold, ReportedFailing, OutageToldOnce
<1> QED BY <1>1, Invariance, PTL

\* Once Nano has been heard, no later check of that process blames the voice.
THEOREM NotBlamed == Spec => VoiceNotBlamed
<1>1. IInv /\ [Next]_vars =>
         [heard => ~(result[VoiceCheck] = "unknown" /\ result'[VoiceCheck] = "failing")]_vars
  <2> SUFFICES ASSUME IInv, Next, heard, result[VoiceCheck] = "unknown"
               PROVE  result'[VoiceCheck] # "failing"
    OBVIOUS
  <2>1. Ready
    BY DEF IInv, HeardCached, Ready
  <2>2. CASE RunCheck
    <3>1. Verdict(VoiceCheck) = "ok"
      BY <2>1 DEF Verdict, Failing
    <3>2. result' = [result EXCEPT ![Checks[at]] = Verdict(Checks[at])]
      BY <2>2 DEF RunCheck, Checked
    <3> QED BY <3>1, <3>2 DEF IInv, TypeOK
  <2>3. CASE ~RunCheck
    <3>1. UNCHANGED result \/ result' = Unknown
      BY <2>3 DEF Next, StartRun, CheckSystemHealth, RunRaises, ReportOk, ReportFailing,
                  ReportNewFailure, NextResult, AnnounceOther, Speaking, SystemChanges,
                  VoiceElsewhere, Restart, monitorVars
    <3> QED BY <3>1, HealthAssumption DEF Unknown
  <2> QED BY <2>2, <2>3
<1> QED BY <1>1, Invariance, PTL DEF Spec, VoiceNotBlamed
=============================================================================
