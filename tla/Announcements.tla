---------------------------- MODULE Announcements ----------------------------
(***************************************************************************)
(* What Nano says of its own accord: ActivityHub.announce_voice, called by *)
(* jobs, polls and requests in threads of their own, and the GLaDOS voice  *)
(* behind it (voice/service.py).                                           *)
(*                                                                         *)
(* The line announced last is tested and set under the hub's lock; it is   *)
(* then played, and handed to browsers, outside of it, so that lines may   *)
(* be played in another order than they were taken, or together.  A line   *)
(* that cannot be played is lost and still counts as announced.            *)
(***************************************************************************)
EXTENDS Integers

CONSTANTS
    Speakers,   \* threads that announce
    Lines,      \* what they say
    Silence,    \* nothing announced since the process started
    Local       \* voice_playback_mode is local or both

ASSUME AnnouncementAssumption ==
    Silence \notin Lines /\ Local \in BOOLEAN

VARIABLES
    last,       \* ActivityHub._last_voice_announcement
    speaker,    \* where each thread stands in announce_voice, and with what
    tts,        \* _get_glados_tts has its backend cached
    glados,     \* whether GLaDOS can be imported and started now
    said,       \* ghost: the lines that were not dropped, in this process
    heard       \* ghost: something was played in this process

announceVars == <<last, speaker, tts, glados, said, heard>>

-----------------------------------------------------------------------------
Glados == {"works", "missing", "raises"}
Quiet == [pc |-> "quiet", line |-> Silence]
Goto(s, pc) == speaker' = [speaker EXCEPT ![s].pc = pc]
Done(s) == speaker' = [speaker EXCEPT ![s] = Quiet]

AnnounceInit ==
    /\ last = Silence /\ said = {} /\ heard = FALSE
    /\ speaker = [s \in Speakers |-> Quiet]
    /\ tts = FALSE /\ glados \in Glados

\* Whether _get_glados_tts returns: what is cached is not tried again, a failure
\* is not cached.  An import that fails in another way than by ImportError raises
\* what announce_voice catches and the voice's health check does not.
Ready == tts \/ glados = "works"
Raises == ~tts /\ glados = "raises"

\* announce_voice up to the release of the lock.
Announce(s, line) ==
    /\ speaker[s] = Quiet
    /\ IF line = last
       THEN UNCHANGED <<last, speaker, said>>
       ELSE /\ last' = line /\ said' = said \cup {line}
            /\ speaker' = [speaker EXCEPT ![s] =
                  [pc |-> IF Local THEN "synthesize" ELSE "publish", line |-> line]]
    /\ UNCHANGED <<tts, glados, heard>>

\* synthesize_wav: loads the voice when it is not cached yet; its exceptions are
\* swallowed by announce_voice.
Synthesize(s) ==
    /\ speaker[s].pc = "synthesize"
    /\ tts' = Ready
    /\ IF Ready THEN Goto(s, "play") ELSE Goto(s, "publish")
    /\ UNCHANGED <<last, glados, said, heard>>

\* _play_wav_bytes: aplay plays the clip to its end, or fails.
Play(s) ==
    /\ speaker[s].pc = "play"
    /\ heard' \in {heard, TRUE}
    /\ Goto(s, "publish")
    /\ UNCHANGED <<last, tts, glados, said>>

\* The log event that browsers play (ActivityHub), if they are to; announce_voice
\* returns.
Publish(s) ==
    /\ speaker[s].pc = "publish"
    /\ Done(s)
    /\ UNCHANGED <<last, tts, glados, said, heard>>

Speak(s) == Synthesize(s) \/ Play(s) \/ Publish(s)

\* The listener's answers, synthesis for a browser, GET /api/health and the tool
\* of that name use the same cached voice.
VoiceUsed ==
    /\ Ready /\ tts' = TRUE
    /\ heard' \in {heard, TRUE}
    /\ UNCHANGED <<last, speaker, glados, said>>

\* The vendored voice is installed, or breaks.
VoiceChanges ==
    /\ glados' \in Glados \ {glados}
    /\ UNCHANGED <<last, speaker, tts, said, heard>>

AnnounceRestart ==
    /\ last' = Silence /\ said' = {} /\ heard' = FALSE
    /\ speaker' = [s \in Speakers |-> Quiet]
    /\ tts' = FALSE
    /\ UNCHANGED glados

AnnounceTypeOK ==
    /\ said \subseteq Lines /\ last \in said \cup {Silence}
    /\ last = Silence <=> said = {}
    /\ {tts, heard} \subseteq BOOLEAN /\ glados \in Glados
    /\ speaker \in [Speakers -> {Quiet} \cup
                       [pc : {"synthesize", "play", "publish"}, line : said]]
=============================================================================
