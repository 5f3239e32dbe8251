---------------------------- MODULE HealthMonitor ----------------------------
(***************************************************************************)
(* The interval job that runs the health checks and reports what changed   *)
(* (scheduler/jobs.py, health/checks.py), speaking through announce_voice  *)
(* beside the other jobs and requests that announce.                       *)
(*                                                                         *)
(* The checks are run one after another and their results are reported     *)
(* one after another, while the system changes and others speak.  The      *)
(* error shown for every failing check is ActivityHub's Report.  All but   *)
(* one of the checks look at something outside of this model (broken); the *)
(* voice check asks for the same cached voice that announcements use.      *)
(***************************************************************************)
EXTENDS Announcements, Sequences

CONSTANTS
    Checks,       \* _HEALTH_CHECKS, in order
    VoiceCheck,   \* the one of the voice
    SaysOf,       \* what may be said when a check fails: its name and a detail
    Monitor,      \* the job's thread
    MaxRestarts   \* bound: restarts of the process

Indices == DOMAIN Checks
Names == {Checks[i] : i \in Indices}
Others == Speakers \ {Monitor}

ASSUME HealthAssumption ==
    /\ Checks \in Seq(STRING) /\ VoiceCheck \in Names
    /\ Monitor \in Speakers /\ MaxRestarts \in Nat
    /\ SaysOf \in [Names -> SUBSET Lines]

VARIABLES
    broken,   \* the checks that would fail now, the voice's apart
    pc,       \* where the job stands
    at,       \* in which of the checks
    result,   \* the results of the run
    status,   \* _LAST_HEALTH_STATUS
    calls,    \* ghost: times a failure was announced since a run found the check ok
    told,     \* ghost: what became of that announcement
    restarts

monitorVars == <<pc, at, result, status, calls, told>>
vars == <<announceVars, broken, monitorVars, restarts>>

-----------------------------------------------------------------------------
Unknown == [n \in Names |-> "unknown"]
Failing(n) == IF n = VoiceCheck THEN ~Ready ELSE n \in broken
CheckRaises == Checks[at] = VoiceCheck /\ Raises
Verdict(n) == IF Failing(n) THEN "failing" ELSE "ok"
AllOk == \A n \in Names : result[n] = "ok"

Init ==
    /\ AnnounceInit
    /\ broken \in SUBSET (Names \ {VoiceCheck})
    /\ pc = "idle" /\ at = 1 /\ result = Unknown /\ status = Unknown
    /\ calls = [n \in Names |-> 0] /\ told = [n \in Names |-> "no"]
    /\ restarts = 0

-----------------------------------------------------------------------------
(* check_system_health                                                     *)

\* The interval job, which max_instances keeps from running twice.
StartRun ==
    /\ pc = "idle"
    /\ pc' = "check" /\ at' = 1 /\ result' = Unknown
    /\ UNCHANGED <<announceVars, broken, status, calls, told, restarts>>

Checked(n, verdict) ==
    /\ result' = [result EXCEPT ![n] = verdict]
    /\ tts' = IF n = VoiceCheck THEN Ready ELSE tts
    /\ IF at = Len(Checks) THEN pc' = "report" /\ at' = 1 ELSE at' = at + 1 /\ UNCHANGED pc
    /\ UNCHANGED <<last, speaker, glados, said, heard, broken, status, calls, told, restarts>>

\* Mutants of RunCheck: a check that was last ok is not run again; the voice
\* check loads the voice anew.
RunCheckOnce ==
    /\ pc = "check" /\ ~CheckRaises
    /\ LET n == Checks[at]
       IN  Checked(n, IF status[n] = "ok" THEN "ok" ELSE Verdict(n))
RunCheckLoads ==
    /\ pc = "check" /\ ~CheckRaises
    /\ LET n == Checks[at]
       IN  Checked(n, IF n = VoiceCheck /\ glados # "works" THEN "failing" ELSE Verdict(n))

\* run_health_checks: the next check; the voice's loads the voice.
RunCheck ==
    /\ pc = "check" /\ ~CheckRaises
    /\ Checked(Checks[at], Verdict(Checks[at]))

\* Mutant of RunRaises: what the checks before it found is reported.
RunRaisesReports ==
    /\ pc = "check" /\ CheckRaises
    /\ pc' = "report" /\ at' = 1
    /\ UNCHANGED <<announceVars, broken, result, status, calls, told, restarts>>

\* An exception ends the run, with what the checks before it found.
RunRaises ==
    /\ pc = "check" /\ CheckRaises
    /\ pc' = "idle" /\ at' = 1 /\ result' = Unknown
    /\ UNCHANGED <<announceVars, broken, status, calls, told, restarts>>

Advance == IF at = Len(Checks) THEN pc' = "idle" /\ at' = 1 ELSE at' = at + 1 /\ pc' = "report"

\* Mutant of ReportOk: while another check fails it is passed over.
ReportOkNotYet ==
    /\ pc = "report" /\ result[Checks[at]] = "ok"
    /\ status' = IF AllOk THEN [status EXCEPT ![Checks[at]] = "ok"] ELSE status
    /\ calls' = [calls EXCEPT ![Checks[at]] = 0] /\ told' = [told EXCEPT ![Checks[at]] = "no"]
    /\ Advance
    /\ UNCHANGED <<announceVars, broken, result, restarts>>

\* A check that is ok; that it recovered is logged only if all of them are.
ReportOk ==
    /\ pc = "report" /\ result[Checks[at]] = "ok"
    /\ status' = [status EXCEPT ![Checks[at]] = "ok"]
    /\ calls' = [calls EXCEPT ![Checks[at]] = 0] /\ told' = [told EXCEPT ![Checks[at]] = "no"]
    /\ Advance
    /\ UNCHANGED <<announceVars, broken, result, restarts>>

\* A check that fails still is shown as an error and not announced again.
ReportFailing ==
    /\ pc = "report" /\ result[Checks[at]] = "failing" /\ status[Checks[at]] = "failing"
    /\ Advance
    /\ UNCHANGED <<announceVars, broken, result, status, calls, told, restarts>>

\* A check that fails anew, also for the first time, is announced.
ReportNewFailure ==
    LET n == Checks[at]
    IN  /\ pc = "report" /\ result[n] = "failing" /\ status[n] # "failing"
        /\ status' = [status EXCEPT ![n] = "failing"]
        /\ calls' = [calls EXCEPT ![n] = @ + 1]
        /\ \E line \in SaysOf[n] :
              /\ Announce(Monitor, line)
              /\ told' = [told EXCEPT ![n] = IF speaker'[Monitor] # Quiet THEN "taken"
                                            ELSE IF last \in SaysOf[n] THEN "repeats"
                                            ELSE "lost"]
        /\ pc' = "announced"
        /\ UNCHANGED <<at, broken, result, restarts>>

\* announce_voice has returned.
NextResult ==
    /\ pc = "announced" /\ speaker[Monitor] = Quiet
    /\ Advance
    /\ UNCHANGED <<announceVars, broken, result, status, calls, told, restarts>>

CheckSystemHealth ==
    RunCheck \/ RunRaises \/ ReportOk \/ ReportFailing \/ ReportNewFailure \/ NextResult

-----------------------------------------------------------------------------
\* Everything else that announces: timers, reminders, tools, an update offered.
AnnounceOther ==
    /\ \E s \in Others :
          \E line \in Lines \ UNION {SaysOf[n] : n \in Names} : Announce(s, line)
    /\ UNCHANGED <<broken, monitorVars, restarts>>

Speaking(s) == Speak(s) /\ UNCHANGED <<broken, monitorVars, restarts>>

\* The database's file and its size get worse or better.
SystemChanges ==
    /\ \E n \in Names \ {VoiceCheck} : broken' = (broken \cup {n}) \ (broken \cap {n})
    /\ UNCHANGED <<announceVars, monitorVars, restarts>>
VoiceElsewhere == (VoiceChanges \/ VoiceUsed) /\ UNCHANGED <<broken, monitorVars, restarts>>

Restart ==
    /\ restarts < MaxRestarts /\ restarts' = restarts + 1
    /\ AnnounceRestart
    /\ pc' = "idle" /\ at' = 1 /\ result' = Unknown /\ status' = Unknown
    /\ calls' = [n \in Names |-> 0] /\ told' = [n \in Names |-> "no"]
    /\ UNCHANGED broken

Next ==
    \/ StartRun \/ CheckSystemHealth
    \/ AnnounceOther \/ \E s \in Speakers : Speaking(s)
    \/ SystemChanges \/ VoiceElsewhere \/ Restart

\* The interval job is run again and again, and a clip that is played ends.
Fairness ==
    /\ WF_vars(StartRun) /\ WF_vars(CheckSystemHealth)
    /\ WF_vars(Speaking(Monitor))

Spec == Init /\ [][Next]_vars /\ Fairness

-----------------------------------------------------------------------------
\* Every variable holds a value of its type; while a run reports, every check has
\* its result.
TypeOK ==
    /\ AnnounceTypeOK
    /\ broken \subseteq Names \ {VoiceCheck} /\ restarts \in 0..MaxRestarts
    /\ pc \in {"idle", "check", "report", "announced"} /\ at \in Indices
    /\ result \in [Names -> {"unknown", "ok", "failing"}]
    /\ status \in [Names -> {"unknown", "ok", "failing"}] /\ calls \in [Names -> Nat]
    /\ told \in [Names -> {"no", "taken", "repeats", "lost"}]
    /\ pc \in {"report", "announced"} => \A n \in Names : result[n] # "unknown"
    /\ speaker[Monitor] # Quiet => pc = "announced"

\* The hub took the announcement of this very outage, or it kept silent when the
\* last thing it had said was an earlier outage of the same check.
Told(n) == told[n] \in {"taken", "repeats"}

\* An outage is announced once: when a run has ended that found a check failing,
\* announce_voice has been called for this outage, never twice, also when others fail
\* and recover meanwhile.  The hub may silence that call as a repetition (the second
\* of two outages in a row), but never because of what another check or any other
\* speaker said.
OutageToldOnce ==
    \A n \in Names :
       /\ calls[n] <= 1
       /\ pc = "idle" /\ result[n] = "failing" => calls[n] = 1 /\ Told(n)

\* Once Nano has been heard, no later check of that process blames the voice:
\* check and announcements use one cached voice.
VoiceNotBlamed ==
    [][heard => ~(result[VoiceCheck] = "unknown" /\ result'[VoiceCheck] = "failing")]_vars

\* "DB, LLM, voice checks; log/announce failures" (docs/README.md): a check that
\* keeps failing is known and its outage told, if only as a repetition the hub keeps
\* to itself, whatever else changes and speaks; but not as long as the voice check
\* raises, which hides the failures of all the others.
LastingFailureTold ==
    \A n \in Names :
       <>[](Failing(n) /\ ~Raises) => <>[](status[n] = "failing" /\ Told(n))
=============================================================================
