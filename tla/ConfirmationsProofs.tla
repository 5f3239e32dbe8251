------------------------- MODULE ConfirmationsProofs -------------------------
(***************************************************************************)
(* Theorems about Confirmations for any number of threads, messages,       *)
(* prompts, versions and restarts: types; no message reaches a question    *)
(* that was answered; and, as long as no message is sent while another is  *)
(* being answered, only what the user agreed to is done, the question on   *)
(* the screen is the one in the slot, and a dismissed version is not       *)
(* offered again.                                                          *)
(*                                                                         *)
(* Slot, screen and what a thread has read are three copies of a question. *)
(* The strengthening says how they relate at each step of a handler, and   *)
(* what the update check, which runs whenever it likes, can do to them.    *)
(***************************************************************************)
EXTENDS Confirmations, TLAPS

\* A yes given while question was on the screen is one to kind, or one of the two
\* is an update and the scheduler offers updates.
Matches(question, kind) == question = kind \/ (CheckerEnabled /\ "update" \in {kind, question})

\* Nothing is in the slot, or what the scheduler has put there meanwhile.
FreeSlot == Empty \/ (CheckerEnabled /\ slot.kind = "update")

Active(t) == req[t].pc # "idle"
Quiescent == \A t \in Threads : ~Active(t)

\* The screen shows what the slot holds: an answer reaches what it was given to.
Shows(question) ==
    /\ Empty \/ Matches(question, slot.kind)
    /\ question \in Kinds \ {"update"} => slot.kind \in {question, "update"}

\* Before a prompt is read from the slot.
Unread == {"idle", "decide", "redecide", "start", "resume", "drop", "offer", "mark", "set"}

\* What an actor has read is what the handlers take it for.
Reads ==
    /\ \A t \in Threads :
          /\ Active(t) => req[t].turn # 0
          /\ req[t].pc \in {"reject", "dismiss", "clear", "act"} => req[t].prompt \in Prompt
          /\ req[t].pc \in Unread => req[t].prompt.n = 0
    /\ req[Checker].pc \in {"idle", "offer", "mark", "set", "reply"}
    /\ Active(Checker) => CheckerEnabled
    /\ req[Checker].pc = "reply" => req[Checker].show = "update"
    /\ req[Checker].prompt.n = 0

\* Numbers tell prompts apart, and a prompt that is acted upon, but for a wipe,
\* has left the slot.
Numbers ==
    /\ slot.n <= prompts
    /\ \A s \in settled : s.n <= prompts
    /\ \A t \in Threads :
          /\ req[t].prompt.n <= prompts
          /\ req[t].prompt.n = slot.n /\ ~Empty => req[t].prompt = slot
          /\ req[t].pc = "act" /\ req[t].prompt.kind # "wipe" => req[t].prompt.n # slot.n

\* Where a thread stands while no other is at work.
Consistent(t) ==
    /\ req[t].pc \in {"decide", "resume"} => Empty \/ Matches(req[t].seen, slot.kind)
    /\ req[t].pc \in {"clear", "act"} => Matches(req[t].seen, req[t].prompt.kind)
    /\ req[t].pc \in {"drop", "redecide", "start", "offer", "mark", "set", "dismiss"} => FreeSlot
    /\ req[t].pc = "act" /\ req[t].prompt.kind \notin {"wipe", "timer"} => FreeSlot
    /\ req[t].pc = "reply" => Shows(req[t].show)
    /\ req[t].pc \in {"offer", "mark", "set"} => req[t].prompt.version # dismissed

\* As long as no message was sent while another was being answered.
OneAtATime ==
    overlaps = 0 =>
       /\ \A t, u \in Threads : Active(t) /\ Active(u) => t = u
       /\ \A t \in Threads : Consistent(t)
       /\ Quiescent => Empty \/ Matches(shown, slot.kind)
       /\ Quiescent /\ restarts = 0 /\ shown \in Kinds \ {"update"} =>
             slot.kind \in {shown, "update"}
       /\ \A s \in settled : s.outcome = "done" => Matches(s.seen, s.kind)

IInv == TypeOK /\ Reads /\ Numbers /\ AnsweredLeaves /\ OneAtATime
-----------------------------------------------------------------------------
(* Types                                                                   *)

Settlement == [n : 1..MaxPrompts, kind : Kinds, seen : Questions,
               turn : 1..MaxMessages, outcome : {"done", "rejected"}]

LEMMA KindsAre == Kinds = {"timer", "wipe", "restart", "reboot", "update"}
  BY DEF Kinds, Ask

LEMMA Parameters ==
    /\ CheckerEnabled \in BOOLEAN /\ RebootEnabled \in BOOLEAN /\ RestartEnabled \in BOOLEAN
    /\ MaxMessages \in Nat /\ MaxOverlaps \in Nat /\ MaxPrompts \in Nat /\ MaxRestarts \in Nat
    /\ MaxVersion \in Nat \ {0} /\ Checker \notin Threads /\ Checker \in Actors
<1>1. CheckerEnabled \in BOOLEAN /\ RebootEnabled \in BOOLEAN /\ RestartEnabled \in BOOLEAN
  BY ParametersAssumption, Zenon
<1> QED BY <1>1, ParametersAssumption DEF Checker, Actors

LEMMA IdleType ==
    /\ Idle \in Request /\ Idle.pc = "idle" /\ Idle.msg = "none" /\ Idle.turn = 0
    /\ Idle.seen = "none" /\ Idle.prompt = NoPrompt /\ Idle.show = "none" /\ NoPrompt.n = 0
  BY Parameters DEF Idle, Request, Pcs, Questions, NoPrompt, NoVersion

\* What is in the slot has a number; nothing has none.
LEMMA SlotType ==
    ASSUME TypeOK
    PROVE  /\ Empty => slot.n = 0
           /\ ~Empty => slot \in Prompt /\ slot.n \in 1..MaxPrompts /\ slot.kind \in Kinds
           /\ ~Empty => slot.n # 0
           /\ slot.n \in 0..MaxPrompts
           /\ "none" \notin Kinds
<1>1. Empty => slot.n = 0
  BY DEF Empty, NoPrompt
<1>2. ~Empty => slot \in Prompt /\ slot.n \in 1..MaxPrompts /\ slot.kind \in Kinds
  BY DEF TypeOK, Empty, Prompt
<1> QED BY <1>1, <1>2, Parameters, KindsAre

\* Actor a goes to pc with prompt p, about to show q.
Moved(a, pc, p, q) ==
    /\ req' \in [Actors -> Request]
    /\ \A b \in Actors \ {a} : req'[b] = req[b]
    /\ req'[a].pc = pc /\ req'[a].prompt = p /\ req'[a].show = q
    /\ req'[a].msg = req[a].msg /\ req'[a].turn = req[a].turn /\ req'[a].seen = req[a].seen

LEMMA GotoMoves ==
    ASSUME TypeOK, NEW a \in Actors, NEW pc \in Pcs, Goto(a, pc)
    PROVE  Moved(a, pc, req[a].prompt, req[a].show)
<1>1. req \in [Actors -> Request] /\ req' = [req EXCEPT ![a] = [req[a] EXCEPT !.pc = pc]]
  BY DEF TypeOK, Goto
<1>2. [req[a] EXCEPT !.pc = pc] \in Request
  BY <1>1 DEF Request
<1> QED BY <1>1, <1>2 DEF Moved, Request

LEMMA AnswerMoves ==
    ASSUME TypeOK, NEW a \in Actors, NEW q \in Questions, Answer(a, q)
    PROVE  Moved(a, "reply", req[a].prompt, q)
<1> DEFINE x == [req[a] EXCEPT !.pc = "reply", !.show = q]
<1>1. req \in [Actors -> Request] /\ req' = [req EXCEPT ![a] = x]
  BY DEF TypeOK, Answer
<1>2. "reply" \in Pcs
  BY DEF Pcs
<1>3. x \in Request
  BY <1>1, <1>2 DEF Request
<1> QED BY <1>1, <1>3 DEF Moved, Request

\* An actor at pc with a prompt of a version of its own, not in the slot.
LEMMA OfferMoves ==
    ASSUME TypeOK, NEW a \in Actors, NEW v \in 0..MaxVersion,
           req' = [req EXCEPT ![a].pc = "offer", ![a].prompt.version = v]
    PROVE  \E p : /\ Moved(a, "offer", p, req[a].show)
                  /\ p.n = req[a].prompt.n /\ p.version = v
<1> DEFINE p == [req[a].prompt EXCEPT !.version = v]
           x == [req[a] EXCEPT !.pc = "offer", !.prompt = p]
<1>1. req \in [Actors -> Request] /\ req' = [req EXCEPT ![a] = x]
  BY DEF TypeOK
<1>2. "offer" \in Pcs
  BY DEF Pcs
<1>3. x \in Request /\ p.n = req[a].prompt.n /\ p.version = v
  BY <1>1, <1>2 DEF Request
<1>4. Moved(a, "offer", p, req[a].show)
  BY <1>1, <1>3 DEF Moved, Request
<1> QED BY <1>3, <1>4

\* Taking the prompt from the slot.
LEMMA ReadMoves ==
    ASSUME TypeOK, NEW a \in Actors, NEW pc \in Pcs, ~Empty,
           req' = [req EXCEPT ![a].pc = pc, ![a].prompt = slot]
    PROVE  Moved(a, pc, slot, req[a].show)
<1> DEFINE x == [req[a] EXCEPT !.pc = pc, !.prompt = slot]
<1>1. req \in [Actors -> Request] /\ req' = [req EXCEPT ![a] = x]
  BY DEF TypeOK
<1>2. slot \in [kind : Questions, n : 0..MaxPrompts, version : 0..MaxVersion]
  BY SlotType, Parameters DEF Prompt, Questions
<1>3. x \in Request
  BY <1>1, <1>2 DEF Request
<1> QED BY <1>1, <1>3 DEF Moved, Request

\* Types are kept by a step that leaves the versions, the screen and the counts.
LEMMA TypeStep ==
    ASSUME TypeOK, req' \in [Actors -> Request], slot' \in Prompt \cup {NoPrompt},
           prompts' \in 0..MaxPrompts, settled' \subseteq Settlement,
           UNCHANGED <<shown, counts, updateVars, bootVars>>
    PROVE  TypeOK'
  BY DEF TypeOK, Settlement, counts, updateVars, bootVars

LEMMA SetSlotType ==
    ASSUME TypeOK, NEW k \in Kinds, NEW v \in 0..MaxVersion, SetSlot(k, v)
    PROVE  /\ slot' \in Prompt /\ slot'.n = prompts' /\ slot'.kind = k
           /\ slot'.version = v /\ slot' # NoPrompt
           /\ prompts' \in 1..MaxPrompts /\ prompts' = prompts + 1
<1>1. prompts \in Nat /\ prompts' = prompts + 1 /\ prompts' \in 1..MaxPrompts
  BY Parameters DEF TypeOK, SetSlot
<1>2. slot' = [kind |-> k, n |-> prompts + 1, version |-> v]
  BY DEF SetSlot
<1> QED BY <1>1, <1>2 DEF Prompt, NoPrompt

LEMMA SettlementNumber == \A s \in Settlement : s.n \in Nat /\ s.n # 0
  BY Parameters DEF Settlement

\* Types of what is counted and numbered.
LEMMA NumberTypes ==
    ASSUME TypeOK
    PROVE  /\ prompts \in Nat /\ settled \subseteq Settlement
           /\ 0 <= prompts
           /\ \A s \in settled : s.n \in Nat /\ s.n # 0
           /\ \A a \in Actors : req[a] \in Request /\ req[a].prompt.n \in Nat
           /\ \A t \in Threads : t \in Actors /\ t # Checker
<1>1. prompts \in Nat
  BY Parameters DEF TypeOK
<1>2. settled \subseteq Settlement
  BY DEF TypeOK, Settlement
<1>3. \A s \in settled : s.n \in Nat /\ s.n # 0
  BY <1>2, SettlementNumber
<1>4. \A a \in Actors : req[a] \in Request
  BY DEF TypeOK
<1>5. \A a \in Actors : req[a].prompt.n \in Nat
  BY <1>4, Parameters DEF Request
<1> QED BY <1>1, <1>2, <1>3, <1>4, <1>5, Parameters DEF Actors

LEMMA SettleType ==
    ASSUME TypeOK, NEW a \in Actors, req[a].prompt \in Prompt, req[a].turn # 0,
           NEW outcome \in {"done", "rejected"}, Settle(a, outcome)
    PROVE  \E s \in Settlement :
              /\ settled' = settled \cup {s}
              /\ s.n = req[a].prompt.n /\ s.kind = req[a].prompt.kind
              /\ s.outcome = outcome /\ s.seen = req[a].seen
<1> DEFINE s == [n |-> req[a].prompt.n, kind |-> req[a].prompt.kind,
                 outcome |-> outcome, seen |-> req[a].seen, turn |-> req[a].turn]
<1>1. req[a] \in Request
  BY DEF TypeOK
<1>2. req[a].prompt.n \in 1..MaxPrompts /\ req[a].prompt.kind \in Kinds
  BY DEF Prompt
<1>3. req[a].seen \in Questions /\ req[a].turn \in 1..MaxMessages
  BY <1>1, Parameters DEF Request
<1>4. s \in Settlement
  BY <1>2, <1>3 DEF Settlement
<1> QED BY <1>4 DEF Settle

-----------------------------------------------------------------------------
(* What a step of an actor leaves of the invariant                         *)

LEMMA ThreadReads ==
    ASSUME IInv, NEW t \in Threads, Active(t), NEW pc, NEW p, NEW q, Moved(t, pc, p, q),
           pc \in {"reject", "dismiss", "clear", "act"} => p \in Prompt,
           pc \in Unread => p.n = 0
    PROVE  Reads'
<1>1. t \in Actors /\ Checker \in Actors \ {t}
  BY Parameters DEF Actors
<1>2. \A u \in Threads \ {t} : req'[u] = req[u]
  BY DEF Moved, Actors
<1>3. req'[Checker] = req[Checker]
  BY <1>1 DEF Moved
<1>4. req'[t].pc = pc /\ req'[t].prompt = p /\ req'[t].turn = req[t].turn
  BY DEF Moved
<1> QED BY <1>2, <1>3, <1>4 DEF IInv, Reads, Active

\* The slot stays, and its prompt may have been read.
LEMMA NumbersKept ==
    ASSUME IInv, NEW t \in Threads, NEW pc, NEW p, NEW q, Moved(t, pc, p, q),
           UNCHANGED <<slot, prompts, settled>>,
           p = req[t].prompt \/ p = slot \/ p.n = 0,
           pc = "act" => p = slot /\ slot.kind = "wipe",
           req[t].pc # "clear after"
    PROVE  Numbers' /\ AnsweredLeaves'
<1>1. \A u \in Threads \ {t} : req'[u] = req[u]
  BY DEF Moved, Actors
<1>2. req'[t].pc = pc /\ req'[t].prompt = p
  BY DEF Moved
<1>3. /\ p.n <= prompts
      /\ p.n = slot.n /\ ~Empty => p = slot
  <2>1. TypeOK /\ Numbers
    BY DEF IInv
  <2>2. 0 <= prompts
    BY <2>1, NumberTypes
  <2>5. ~Empty => slot.n # 0
    BY <2>1, SlotType
  <2>3. CASE p.n = 0
    BY <2>2, <2>3, <2>5, Zenon
  <2>4. CASE p = req[t].prompt \/ p = slot
    BY <2>1, <2>4 DEF Numbers
  <2> QED BY <2>3, <2>4
<1>4. Numbers'
  BY <1>1, <1>2, <1>3 DEF IInv, Numbers, Empty
<1>5. AnsweredLeaves'
  BY <1>1 DEF IInv, AnsweredLeaves
<1> QED BY <1>4, <1>5

\* The slot is cleared.
LEMMA NumbersCleared ==
    ASSUME IInv, NEW t \in Threads, NEW pc, NEW q, Moved(t, pc, req[t].prompt, q),
           slot' = NoPrompt, prompts' = prompts,
           pc = "act" => req[t].prompt \in Prompt,
           settled' \subseteq Settlement, \A s \in settled' : s.n <= prompts
    PROVE  Numbers' /\ AnsweredLeaves'
<1>1. \A u \in Threads \ {t} : req'[u] = req[u]
  BY DEF Moved, Actors
<1>2. req'[t].pc = pc /\ req'[t].prompt = req[t].prompt
  BY DEF Moved
<1>3. slot'.n = 0 /\ Empty' /\ prompts \in Nat
  BY IdleType, Parameters DEF IInv, TypeOK, Empty
<1>4. \A x \in Prompt : x.n # 0
  BY DEF Prompt
<1>5. \A u \in Threads : req'[u].prompt = req[u].prompt /\
                         (req'[u].pc = "act" => req[u].prompt \in Prompt)
  BY <1>1, <1>2 DEF IInv, Reads
<1>6. Numbers'
  BY <1>3, <1>4, <1>5 DEF IInv, Numbers
<1>7. \A s \in settled' : s.n # 0
  BY DEF Settlement
<1> QED BY <1>3, <1>6, <1>7 DEF AnsweredLeaves

\* The slot is set, by any actor.
LEMMA NumbersSet ==
    ASSUME IInv, NEW k \in Kinds, NEW v \in 0..MaxVersion, SetSlot(k, v), settled' = settled,
           NEW a \in Actors, NEW q, Moved(a, "reply", req[a].prompt, q)
    PROVE  Numbers' /\ AnsweredLeaves'
<1>1. \A u \in Threads : req'[u].prompt = req[u].prompt /\
                         (req'[u].pc = "act" => req[u].pc = "act")
  BY DEF Moved, Actors
<1> TypeOK /\ Numbers
  BY DEF IInv
<1>2. prompts \in Nat /\ prompts' = prompts + 1 /\ slot'.n = prompts + 1
  <2>1. slot'.n = prompts' /\ prompts' = prompts + 1
    BY SetSlotType
  <2> QED BY <2>1, NumberTypes
<1>3. \A s \in settled : s.n \in Nat /\ s.n <= prompts
  BY NumberTypes DEF Numbers
<1>4. \A u \in Threads : req[u].prompt.n \in Nat /\ req[u].prompt.n <= prompts
  BY NumberTypes DEF Numbers
<1>5. Numbers'
  BY <1>1, <1>2, <1>3, <1>4 DEF Numbers
<1>6. \A s \in settled' : s.n # slot'.n
  BY <1>2, <1>3
<1> QED BY <1>5, <1>6 DEF AnsweredLeaves

\* A prompt is acted upon: a wipe's stays in the slot until its thread clears it.
LEMMA NumbersActed ==
    ASSUME IInv, NEW t \in Threads, req[t].pc = "act", NEW pc \in {"clear after", "reply"}, NEW q,
           Moved(t, pc, req[t].prompt, q), UNCHANGED <<slot, prompts>>,
           NEW s \in Settlement, settled' = settled \cup {s}, s.n = req[t].prompt.n,
           req[t].prompt.kind = "wipe" => pc = "clear after"
    PROVE  Numbers' /\ AnsweredLeaves'
<1>1. \A u \in Threads \ {t} : req'[u] = req[u]
  BY DEF Moved, Actors
<1>2. req'[t].pc = pc /\ req'[t].prompt = req[t].prompt
  BY DEF Moved
<1>3. req[t].prompt.n <= prompts
  BY DEF IInv, Numbers
<1>4. Numbers'
  BY <1>1, <1>2, <1>3 DEF IInv, Numbers, Empty
<1>5. CASE \E x \in settled : x.n = slot.n
  <2>1. /\ slot.kind = "wipe"
        /\ \E u \in Threads : req[u].pc = "clear after" /\ req[u].prompt = slot
    BY <1>5, Zenon DEF IInv, AnsweredLeaves
  <2>2. PICK u \in Threads : req[u].pc = "clear after" /\ req[u].prompt = slot
    BY <2>1
  <2>3. u # t
    BY <2>2
  <2>4. req'[u].pc = "clear after" /\ req'[u].prompt = slot'
    BY <1>1, <2>2, <2>3
  <2> QED BY <1>4, <2>1, <2>4 DEF AnsweredLeaves
<1>6. CASE s.n = slot.n
  <2>1. TypeOK /\ Numbers
    BY DEF IInv
  <2>2. s.n # 0
    BY SettlementNumber
  <2>3. ~Empty
    BY <1>6, <2>1, <2>2, SlotType
  <2>4. req[t].prompt = slot
    BY <1>6, <2>1, <2>3 DEF Numbers
  <2>5. slot.kind = "wipe"
    BY <1>6, <2>1, <2>4 DEF Numbers
  <2>6. req'[t].pc = "clear after" /\ req'[t].prompt = slot'
    BY <1>2, <2>4, <2>5
  <2> QED BY <1>4, <2>5, <2>6 DEF AnsweredLeaves
<1>7. CASE ~(\E x \in settled' : x.n = slot'.n)
  BY <1>4, <1>7 DEF AnsweredLeaves
<1> QED BY <1>4, <1>5, <1>6, <1>7

\* A thread that goes on while no other is at work.
LEMMA ThreadAlone ==
    ASSUME IInv, NEW t \in Threads, Active(t), NEW pc, pc # "idle", NEW p, NEW q,
           Moved(t, pc, p, q), overlaps' = overlaps,
           overlaps = 0 => Consistent(t)',
           \A s \in settled' : overlaps = 0 /\ s.outcome = "done" =>
                                  s \in settled \/ Matches(s.seen, s.kind)
    PROVE  OneAtATime'
<1> SUFFICES ASSUME overlaps = 0 PROVE OneAtATime'
  BY DEF OneAtATime
<1>1. \A u \in Threads \ {t} : req'[u] = req[u] /\ req[u].pc = "idle"
  BY DEF Moved, Actors, IInv, OneAtATime, Active
<1>2. req'[t].pc = pc
  BY DEF Moved
<1>3. \A u \in Threads \ {t} : Consistent(u)'
  BY <1>1 DEF Consistent
<1>4. ~Quiescent'
  BY <1>2 DEF Quiescent, Active
<1>5. \A u, w \in Threads : Active(u)' /\ Active(w)' => u = w
  BY <1>1 DEF Active
<1>6. \A s \in settled' : s.outcome = "done" => Matches(s.seen, s.kind)
  BY DEF IInv, OneAtATime
<1> QED BY <1>3, <1>4, <1>5, <1>6 DEF OneAtATime
\* A thread that goes on and leaves everything but its own state.
LEMMA SlotKept ==
    ASSUME IInv, NEW t \in Threads, Active(t), NEW pc, pc # "idle", NEW p, NEW q,
           Moved(t, pc, p, q),
           UNCHANGED <<slot, prompts, shown, counts, updateVars, bootVars, settled>>,
           p = req[t].prompt \/ p = slot \/ p.n = 0,
           pc \in {"reject", "dismiss", "clear", "act"} => p \in Prompt,
           pc \in Unread => p.n = 0,
           pc = "act" => p = slot /\ slot.kind = "wipe",
           req[t].pc # "clear after",
           overlaps = 0 => Consistent(t)'
    PROVE  IInv'
<1>1. TypeOK'
  BY TypeStep DEF IInv, TypeOK, Moved, Settlement
<1>2. Reads'
  BY ThreadReads
<1>3. Numbers' /\ AnsweredLeaves'
  BY NumbersKept
<1>4. OneAtATime'
  <2>1. overlaps' = overlaps /\ settled' = settled
    BY DEF counts
  <2> QED BY <2>1, ThreadAlone
<1> QED BY <1>1, <1>2, <1>3, <1>4 DEF IInv

\* A thread goes to its reply, q, when q agrees with the slot.
LEMMA Answers ==
    ASSUME IInv, NEW t \in Threads, Active(t), NEW q \in Questions, Answer(t, q),
           UNCHANGED <<slot, prompts, shown, counts, updateVars, bootVars, settled>>,
           req[t].pc # "clear after",
           overlaps = 0 => Shows(q)
    PROVE  IInv'
<1>1. TypeOK /\ t \in Actors
  BY DEF IInv, Actors
<1>2. Moved(t, "reply", req[t].prompt, q)
  BY <1>1, AnswerMoves
<1>3. ASSUME overlaps = 0 PROVE Consistent(t)'
  BY <1>2, <1>3 DEF Moved, Consistent, Shows, Empty
<1> QED BY <1>2, <1>3, SlotKept DEF Unread

\* A thread goes on to pc, before it reads the slot.
LEMMA Goes ==
    ASSUME IInv, NEW t \in Threads, Active(t), req[t].pc \in Unread,
           NEW pc \in (Unread \cup {"clear after"}) \ {"idle", "decide"}, Goto(t, pc),
           UNCHANGED <<slot, prompts, shown, counts, updateVars, bootVars, settled>>,
           overlaps = 0 =>
              IF pc = "resume" THEN Empty \/ Matches(req[t].seen, slot.kind)
              ELSE \/ pc = "clear after"
                   \/ /\ FreeSlot
                      /\ pc \in {"offer", "mark", "set"} => req[t].prompt.version # dismissed
    PROVE  IInv'
<1>1. TypeOK /\ t \in Actors /\ pc \in Pcs
  BY DEF IInv, Actors, Pcs, Unread
<1>2. Moved(t, pc, req[t].prompt, req[t].show)
  BY <1>1, GotoMoves
<1>3. ASSUME overlaps = 0 PROVE Consistent(t)'
  BY <1>2, <1>3 DEF Moved, Consistent, FreeSlot, Empty, updateVars, Unread
<1>4. req[t].prompt.n = 0
  BY DEF IInv, Reads
<1> QED BY <1>2, <1>3, <1>4, SlotKept DEF Unread

\* What an empty slot, or one the scheduler has filled, is in agreement with.
LEMMA FreeShows ==
    ASSUME FreeSlot PROVE Shows("none") /\ Shows("update")
  BY KindsAre DEF FreeSlot, Shows, Matches

LEMMA FilledShows == Shows(slot.kind)
  BY DEF Shows, Matches

\* A thread goes on and clears the slot.
LEMMA SlotCleared ==
    ASSUME IInv, NEW t \in Threads, Active(t), NEW pc, pc # "idle", NEW q,
           Moved(t, pc, req[t].prompt, q), slot' = NoPrompt,
           UNCHANGED <<prompts, shown, counts, updateVars, bootVars>>,
           pc \in {"reject", "dismiss", "clear", "act"} => req[t].prompt \in Prompt,
           pc \in Unread => req[t].prompt.n = 0,
           settled' \subseteq Settlement, \A s \in settled' : s.n <= prompts,
           \A s \in settled' : s.outcome = "done" => s \in settled,
           pc \in {"act", "drop", "redecide", "dismiss", "clear after"}
              \/ (pc = "reply" /\ q = "none"),
           overlaps = 0 /\ pc = "act" => Matches(req[t].seen, req[t].prompt.kind)
    PROVE  IInv'
<1>1. TypeOK'
  <2>1. TypeOK
    BY DEF IInv
  <2>2. slot' \in Prompt \cup {NoPrompt}
    OBVIOUS
  <2>3. req' \in [Actors -> Request]
    BY DEF Moved
  <2>4. prompts' \in 0..MaxPrompts
    BY <2>1 DEF TypeOK
  <2> QED BY <2>1, <2>2, <2>3, <2>4, TypeStep
<1>2. Reads'
  BY ThreadReads
<1>3. Numbers' /\ AnsweredLeaves'
  BY NumbersCleared
<1>4. Empty' /\ FreeSlot' /\ Shows("none")'
  BY KindsAre DEF Empty, FreeSlot, Shows, Matches
<1>5. ASSUME overlaps = 0 PROVE Consistent(t)'
  BY <1>4, <1>5 DEF Moved, Consistent
<1>6. OneAtATime'
  <2>1. overlaps' = overlaps
    BY DEF counts
  <2> QED BY <2>1, <1>5, ThreadAlone
<1> QED BY <1>1, <1>2, <1>3, <1>6 DEF IInv
-----------------------------------------------------------------------------
(* The actions of a thread                                                 *)

LEMMA SendSafe ==
    ASSUME IInv, NEW t \in Threads, Send(t)
    PROVE  IInv'
<1> TypeOK /\ t \in Actors
  BY DEF IInv, Actors
<1>1. PICK m \in Messages :
        req' = [req EXCEPT ![t] = [Idle EXCEPT !.pc = "decide", !.msg = m,
                                               !.turn = sent + 1, !.seen = shown]]
  BY DEF Send
<1> DEFINE x == [Idle EXCEPT !.pc = "decide", !.msg = m, !.turn = sent + 1, !.seen = shown]
<1>2. sent + 1 \in 1..MaxMessages
  BY Parameters DEF TypeOK, Send
<1>3. /\ x \in Request /\ x.pc = "decide" /\ x.turn # 0 /\ x.prompt.n = 0
      /\ x.seen = shown /\ x.prompt = NoPrompt
  <2>1. "decide" \in Pcs /\ shown \in Questions /\ sent + 1 \in 0..MaxMessages
    BY <1>2 DEF Pcs, TypeOK
  <2>2. x \in Request
    BY <2>1, IdleType DEF Request
  <2> QED BY <1>2, <2>2, IdleType DEF Idle
<1>4. /\ req' \in [Actors -> Request] /\ req'[t] = x
      /\ \A a \in Actors \ {t} : req'[a] = req[a]
  BY <1>1, <1>3 DEF TypeOK
<1>5. /\ overlaps' \in 0..MaxOverlaps
      /\ overlaps' = 0 => overlaps = 0 /\ Quiescent
  BY Parameters DEF TypeOK, Send, Quiescent, Active
<1>6. TypeOK'
  <2>1. sent' \in 0..MaxMessages
    BY <1>2 DEF Send
  <2> QED BY <1>4, <1>5, <2>1 DEF TypeOK, Send, updateVars, bootVars
<1>7. UNCHANGED <<slot, prompts, shown, dismissed, restarts, settled>>
  BY DEF Send, updateVars, bootVars
<1>8. \A u \in Threads \ {t} : req'[u] = req[u]
  BY <1>4 DEF Actors
<1>9. Reads'
  <2>1. req'[Checker] = req[Checker]
    BY <1>4, Parameters
  <2>2. req'[t].pc = "decide" /\ req'[t].turn # 0 /\ req'[t].prompt.n = 0
    BY <1>3, <1>4
  <2> QED BY <1>8, <2>1, <2>2 DEF IInv, Reads, Active
<1>10. Numbers'
  <2>1. Numbers /\ (~Empty => slot.n # 0) /\ 0 <= prompts
    BY NumberTypes, SlotType DEF IInv
  <2> QED BY <1>3, <1>4, <1>7, <1>8, <2>1 DEF Numbers, Empty
<1>11. AnsweredLeaves'
  <2>1. req[t].pc = "idle"
    BY DEF Send
  <2> QED BY <1>7, <1>8, <2>1 DEF IInv, AnsweredLeaves
<1>12. OneAtATime'
  <2> SUFFICES ASSUME overlaps' = 0 PROVE OneAtATime'
    BY DEF OneAtATime
  <2>1. OneAtATime /\ overlaps = 0 /\ Quiescent
    BY <1>5 DEF IInv
  <2>2. Empty \/ Matches(shown, slot.kind)
    BY <2>1 DEF OneAtATime
  <2>3. Consistent(t)'
    BY <1>3, <1>4, <1>7, <2>2 DEF Consistent, Empty
  <2>4. \A u \in Threads \ {t} : Consistent(u)' /\ ~Active(u)'
    BY <1>7, <1>8, <2>1 DEF Quiescent, Active, Consistent
  <2>5. Active(t)'
    BY <1>3, <1>4 DEF Active
  <2> QED BY <1>7, <2>1, <2>3, <2>4, <2>5 DEF OneAtATime, Quiescent
<1> QED BY <1>6, <1>9, <1>10, <1>11, <1>12 DEF IInv

\* Where a thread stands when no message overlapped another.
LEMMA Alone ==
    ASSUME IInv, NEW t \in Threads, overlaps = 0
    PROVE  Consistent(t)
  BY DEF IInv, OneAtATime

LEMMA RouteSafe ==
    ASSUME IInv, NEW t \in Threads, Route(t)
    PROVE  IInv'
<1>1. TypeOK /\ t \in Actors /\ "none" \in Questions /\ "reply" \in Pcs
  BY DEF IInv, Actors, Questions, Pcs
<1>2. /\ Active(t) /\ req[t].pc \in {"decide", "redecide"}
      /\ UNCHANGED <<prompts, shown, counts, updateVars, bootVars, settled>>
  BY DEF Route, RouteTimerCommand, RoutePending, RouteOther, Active
<1>3. overlaps = 0 => Consistent(t)
  BY Alone
<1>4. CASE RouteTimerCommand(t)
  <2>1. Moved(t, "reply", req[t].prompt, "none") /\ slot' = NoPrompt
    BY <1>1, <1>4, AnswerMoves DEF RouteTimerCommand
  <2>2. settled' = settled /\ settled \subseteq Settlement /\ \A s \in settled : s.n <= prompts
    BY <1>1, <1>2, NumberTypes DEF IInv, Numbers
  <2> QED BY <1>2, <2>1, <2>2, SlotCleared DEF Unread
<1>5. CASE RoutePending(t)
  <2>1. CASE req[t].pc = "decide"
    <3>1. Goto(t, "resume") /\ slot' = slot
      BY <1>5, <2>1 DEF RoutePending
    <3>2. overlaps = 0 => Empty \/ Matches(req[t].seen, slot.kind)
      BY <1>3, <2>1 DEF Consistent
    <3> QED BY <1>2, <3>1, <3>2, Goes DEF Unread
  <2>2. CASE req[t].pc # "decide"
    <3>1. Answer(t, "none") /\ slot' = slot /\ req[t].pc = "redecide"
      BY <1>2, <1>5, <2>2 DEF RoutePending
    <3>2. overlaps = 0 => Shows("none")
      BY <1>3, <3>1, FreeShows DEF Consistent
    <3> QED BY <1>1, <1>2, <3>1, <3>2, Answers
  <2> QED BY <2>1, <2>2
<1>6. CASE RouteOther(t)
  <2>1. Empty /\ FreeSlot /\ slot' = slot
    BY <1>6 DEF RouteOther, FreeSlot
  <2>2. CASE Goto(t, "start")
    BY <1>2, <2>1, <2>2, Goes DEF Unread
  <2>3. CASE Answer(t, "none")
    <3>1. Shows("none")
      BY <2>1, FreeShows
    <3> QED BY <1>1, <1>2, <2>1, <2>3, <3>1, Answers
  <2> QED BY <1>6, <2>2, <2>3 DEF RouteOther
<1> QED BY <1>4, <1>5, <1>6 DEF Route
LEMMA StartPromptSafe ==
    ASSUME IInv, NEW t \in Threads, StartPrompt(t)
    PROVE  IInv'
<1>1. TypeOK /\ t \in Actors /\ Active(t) /\ req[t].pc = "start"
  BY DEF IInv, Actors, Active, StartPrompt
<1>2. PICK k \in Kinds : SetSlot(k, NoVersion) /\ Answer(t, k)
  BY DEF StartPrompt
<1>3. UNCHANGED <<shown, counts, updateVars, bootVars, settled>>
  BY DEF StartPrompt
<1>4. k \in Questions /\ NoVersion \in 0..MaxVersion
  BY Parameters DEF Questions, NoVersion
<1>5. Moved(t, "reply", req[t].prompt, k)
  BY <1>1, <1>2, <1>4, AnswerMoves
<1>6. /\ slot' \in Prompt /\ slot'.kind = k /\ prompts' \in 0..MaxPrompts
  <2>1. slot' \in Prompt /\ slot'.kind = k /\ prompts' \in 1..MaxPrompts
    BY <1>1, <1>2, <1>4, SetSlotType
  <2> QED BY <2>1, Parameters
<1>7. TypeOK'
  <2>1. settled' \subseteq Settlement
    BY <1>1, <1>3, NumberTypes
  <2>2. req' \in [Actors -> Request]
    BY <1>5 DEF Moved
  <2> QED BY <1>1, <1>3, <1>6, <2>1, <2>2, TypeStep
<1>8. Reads'
  BY <1>1, <1>5, ThreadReads DEF Unread
<1>9. Numbers' /\ AnsweredLeaves'
  BY <1>1, <1>2, <1>3, <1>4, <1>5, NumbersSet
<1>10. Consistent(t)'
  BY <1>5, <1>6 DEF Moved, Consistent, Shows, Matches
<1>11. OneAtATime'
  <2>1. overlaps' = overlaps /\ settled' = settled
    BY <1>3 DEF counts
  <2> QED BY <1>1, <1>5, <1>10, <2>1, ThreadAlone
<1> QED BY <1>7, <1>8, <1>9, <1>11 DEF IInv

LEMMA StartUpdateSafe ==
    ASSUME IInv, NEW t \in Threads, StartUpdate(t)
    PROVE  IInv'
<1>1. TypeOK /\ t \in Actors /\ Active(t) /\ req[t].pc = "start"
  BY DEF IInv, Actors, Active, StartUpdate
<1>2. UNCHANGED <<slot, prompts, shown, counts, updateVars, bootVars, settled>>
  BY DEF StartUpdate
<1>3. overlaps = 0 => FreeSlot
  BY <1>1, Alone DEF Consistent
<1>4. {"none", "update"} \subseteq Questions
  BY KindsAre DEF Questions
<1>5. ASSUME NEW q \in {"none", "update"}, Answer(t, q)
      PROVE  IInv'
  <2>1. overlaps = 0 => Shows(q)
    BY <1>3, FreeShows
  <2> QED BY <1>1, <1>2, <1>4, <1>5, <2>1, Answers
<1>6. CASE ShouldPrompt(remote)
           /\ req' = [req EXCEPT ![t].pc = "offer", ![t].prompt.version = remote]
  <2>1. remote \in 0..MaxVersion
    BY <1>1, Parameters DEF TypeOK, Versions
  <2>2. PICK p : /\ Moved(t, "offer", p, req[t].show)
                 /\ p.n = req[t].prompt.n /\ p.version = remote
    BY <1>1, <1>6, <2>1, OfferMoves
  <2>3. p.n = 0
    BY <1>1, <2>2 DEF IInv, Reads, Unread
  <2>4. remote # dismissed
    BY <1>6 DEF ShouldPrompt
  <2>5. ASSUME overlaps = 0 PROVE Consistent(t)'
    BY <1>2, <1>3, <2>2, <2>4, <2>5 DEF Moved, Consistent, FreeSlot, Empty, updateVars
  <2> QED BY <1>1, <1>2, <2>2, <2>3, <2>5, SlotKept DEF Unread
<1> QED BY <1>5, <1>6 DEF StartUpdate

LEMMA StartSafe ==
    ASSUME IInv, NEW t \in Threads, Start(t)
    PROVE  IInv'
<1>1. CASE StartRefused(t)
  <2>1. /\ Active(t) /\ req[t].pc = "start" /\ Answer(t, "none") /\ "none" \in Questions
        /\ UNCHANGED <<slot, prompts, shown, counts, updateVars, bootVars, settled>>
    BY <1>1 DEF StartRefused, Active, Questions
  <2>2. overlaps = 0 => Shows("none")
    BY <2>1, Alone, FreeShows DEF Consistent
  <2> QED BY <2>1, <2>2, Answers
<1>2. CASE StartTimer(t)
  <2>1. /\ Active(t) /\ req[t].pc = "start" /\ Goto(t, "clear after")
        /\ UNCHANGED <<slot, prompts, shown, counts, updateVars, bootVars, settled>>
    BY <1>2 DEF StartTimer, Active
  <2> QED BY <2>1, Goes DEF Unread
<1> QED BY <1>1, <1>2, StartPromptSafe, StartUpdateSafe DEF Start

\* The thread's own offer.
LEMMA OfferSafe ==
    ASSUME IInv, NEW t \in Threads, Offer(t)
    PROVE  IInv'
<1>1. /\ TypeOK /\ t \in Actors /\ t # Checker /\ Active(t)
      /\ req[t].pc \in {"offer", "mark", "set"}
  <2>1. TypeOK
    BY DEF IInv
  <2> QED BY <2>1, NumberTypes DEF Active, Offer, OfferLooks, OfferMarks, OfferSets
<1>2. overlaps = 0 => FreeSlot /\ req[t].prompt.version # dismissed
  BY <1>1, Alone DEF Consistent
<1>3. req[t].prompt.version \in 0..MaxVersion
  BY <1>1 DEF TypeOK, Request
<1>4. "update" \in Kinds /\ "update" \in Questions
  BY KindsAre DEF Questions
<1>5. CASE OfferLooks(t)
  <2>1. UNCHANGED <<slot, prompts, shown, counts, updateVars, bootVars, settled>>
    BY <1>5 DEF OfferLooks
  <2>2. CASE Goto(t, "mark")
    BY <1>1, <1>2, <2>1, <2>2, Goes DEF Unread
  <2>3. CASE Answer(t, "update")
    <3>1. overlaps = 0 => Shows("update")
      BY <1>2, FreeShows
    <3> QED BY <1>1, <1>4, <2>1, <2>3, <3>1, Answers
  <2> QED BY <1>1, <1>5, <2>2, <2>3 DEF OfferLooks
<1>6. CASE OfferMarks(t)
  <2>1. /\ UNCHANGED <<slot, prompts, shown, counts, local, remote, baseline, dismissed,
                       bootVars, settled>>
        /\ offered' = req[t].prompt.version
        /\ Goto(t, "set")
    BY <1>6 DEF OfferMarks
  <2>2. "set" \in Pcs
    BY DEF Pcs
  <2>3. Moved(t, "set", req[t].prompt, req[t].show)
    BY <1>1, <2>1, <2>2, GotoMoves
  <2>4. TypeOK'
    BY <1>1, <1>3, <2>1, <2>3 DEF TypeOK, Moved, counts, bootVars
  <2>5. req[t].prompt.n = 0
    BY <1>1 DEF IInv, Reads, Unread
  <2>6. Reads'
    BY <1>1, <2>3, <2>5, ThreadReads
  <2>7. Numbers' /\ AnsweredLeaves'
    BY <1>1, <2>1, <2>3, <2>5, NumbersKept
  <2>8. ASSUME overlaps = 0 PROVE Consistent(t)'
    BY <1>2, <2>1, <2>3, <2>8 DEF Moved, Consistent, FreeSlot, Empty
  <2>9. OneAtATime'
    <3>1. overlaps' = overlaps /\ settled' = settled
      BY <2>1 DEF counts
    <3> QED BY <1>1, <2>3, <2>8, <3>1, ThreadAlone
  <2> QED BY <2>4, <2>6, <2>7, <2>9 DEF IInv
<1>7. CASE OfferSets(t)
  <2>1. /\ SetSlot("update", req[t].prompt.version) /\ Answer(t, "update")
        /\ UNCHANGED <<shown, counts, updateVars, bootVars, settled>>
    BY <1>7 DEF OfferSets
  <2>2. Moved(t, "reply", req[t].prompt, "update")
    BY <1>1, <1>4, <2>1, AnswerMoves
  <2>3. slot' \in Prompt /\ slot'.kind = "update" /\ prompts' \in 0..MaxPrompts
    <3>1. slot' \in Prompt /\ slot'.kind = "update" /\ prompts' \in 1..MaxPrompts
      BY <1>1, <1>3, <1>4, <2>1, SetSlotType
    <3> QED BY <3>1, Parameters
  <2>4. TypeOK'
    <3>1. settled' \subseteq Settlement
      BY <1>1, <2>1, NumberTypes
    <3>2. req' \in [Actors -> Request]
      BY <2>2 DEF Moved
    <3> QED BY <1>1, <2>1, <2>3, <3>1, <3>2, TypeStep
  <2>5. Reads'
    BY <1>1, <2>2, ThreadReads DEF Unread
  <2>6. Numbers' /\ AnsweredLeaves'
    BY <1>1, <1>3, <1>4, <2>1, <2>2, NumbersSet
  <2>7. Consistent(t)'
    BY <2>2, <2>3 DEF Moved, Consistent, Shows, Matches
  <2>8. OneAtATime'
    <3>1. overlaps' = overlaps /\ settled' = settled
      BY <2>1 DEF counts
    <3> QED BY <1>1, <2>2, <2>7, <3>1, ThreadAlone
  <2> QED BY <2>4, <2>5, <2>6, <2>8 DEF IInv
<1> QED BY <1>5, <1>6, <1>7 DEF Offer
LEMMA ResumeSafe ==
    ASSUME IInv, NEW t \in Threads, Resume(t)
    PROVE  IInv'
<1>1. /\ TypeOK /\ t \in Actors /\ Active(t) /\ req[t].pc \in {"resume", "drop"}
      /\ UNCHANGED <<prompts, shown, counts, updateVars, bootVars, settled>>
  BY DEF IInv, Actors, Active, Resume, ResumeGone, DropPending, ResumeAsksAgain, ResumeSettles
<1>2. overlaps = 0 => Consistent(t)
  BY Alone
<1>3. req[t].prompt.n = 0
  BY <1>1 DEF IInv, Reads, Unread
<1>4. CASE ResumeGone(t)
  <2>1. Goto(t, "drop") /\ slot' = slot /\ FreeSlot
    BY <1>4 DEF ResumeGone, FreeSlot
  <2> QED BY <1>1, <2>1, Goes DEF Unread
<1>5. CASE DropPending(t)
  <2>1. Goto(t, "redecide") /\ slot' = NoPrompt /\ "redecide" \in Pcs
    BY <1>5 DEF DropPending, Pcs
  <2>2. Moved(t, "redecide", req[t].prompt, req[t].show)
    BY <1>1, <2>1, GotoMoves
  <2>3. settled' = settled /\ settled \subseteq Settlement /\ \A s \in settled : s.n <= prompts
    BY <1>1, NumberTypes DEF IInv, Numbers
  <2> QED BY <1>1, <1>3, <2>1, <2>2, <2>3, SlotCleared DEF Unread
<1>6. CASE ResumeAsksAgain(t)
  <2>1. Answer(t, slot.kind) /\ slot' = slot /\ ~Empty
    BY <1>6 DEF ResumeAsksAgain
  <2>2. slot.kind \in Questions
    BY <1>1, <2>1, SlotType DEF Questions
  <2> QED BY <1>1, <2>1, <2>2, FilledShows, Answers
<1>7. CASE ResumeSettles(t)
  <2>1. ~Empty /\ slot' = slot /\ req[t].pc = "resume" /\ slot \in Prompt
    BY <1>1, <1>7, SlotType DEF ResumeSettles
  <2>2. ASSUME NEW pc \in {"reject", "clear", "act"}, pc = "act" => slot.kind = "wipe",
               req' = [req EXCEPT ![t].pc = pc, ![t].prompt = slot]
        PROVE  IInv'
    <3>1. pc \in Pcs
      BY DEF Pcs
    <3>2. Moved(t, pc, slot, req[t].show)
      BY <1>1, <2>1, <2>2, <3>1, ReadMoves
    <3>3. ASSUME overlaps = 0 PROVE Consistent(t)'
      BY <1>2, <2>1, <2>2, <3>2, <3>3 DEF Moved, Consistent
    <3> QED BY <1>1, <2>1, <2>2, <3>2, <3>3, SlotKept DEF Unread
  <2>3. CASE req' = [req EXCEPT ![t].pc = "reject", ![t].prompt = slot]
    BY <2>2, <2>3
  <2>4. CASE req' = [req EXCEPT ![t].prompt = slot,
                                ![t].pc = IF slot.kind = "wipe" THEN "act" ELSE "clear"]
    <3> DEFINE pc == IF slot.kind = "wipe" THEN "act" ELSE "clear"
    <3>1. req' = [req EXCEPT ![t].pc = pc, ![t].prompt = slot]
      BY <1>1, <2>4 DEF TypeOK, Request
    <3> QED BY <2>2, <3>1
  <2> QED BY <1>7, <2>3, <2>4 DEF ResumeSettles
<1> QED BY <1>4, <1>5, <1>6, <1>7 DEF Resume

\* A refusal is recorded, an update's is also remembered.
LEMMA RejectSafe ==
    ASSUME IInv, NEW t \in Threads, RejectPrompt(t)
    PROVE  IInv'
<1>1. /\ TypeOK /\ t \in Actors /\ Active(t) /\ req[t].pc = "reject"
      /\ UNCHANGED <<prompts, shown, counts, updateVars, bootVars>> /\ slot' = NoPrompt
      /\ Settle(t, "rejected")
  BY DEF IInv, Actors, Active, RejectPrompt
<1>2. req[t].prompt \in Prompt /\ req[t].turn # 0
  BY <1>1 DEF IInv, Reads
<1>3. PICK s \in Settlement :
         /\ settled' = settled \cup {s} /\ s.n = req[t].prompt.n /\ s.outcome = "rejected"
  BY <1>1, <1>2, SettleType
<1>4. /\ settled' \subseteq Settlement /\ \A x \in settled' : x.n <= prompts
      /\ \A x \in settled' : x.outcome = "done" => x \in settled
  <2>1. settled \subseteq Settlement
    BY <1>1, NumberTypes
  <2> QED BY <1>3, <2>1 DEF IInv, Numbers
<1>5. CASE Goto(t, "dismiss")
  <2>1. "dismiss" \in Pcs
    BY DEF Pcs
  <2>2. Moved(t, "dismiss", req[t].prompt, req[t].show)
    BY <1>1, <1>5, <2>1, GotoMoves
  <2> QED BY <1>1, <1>2, <1>4, <2>2, SlotCleared DEF Unread
<1>6. CASE Answer(t, "none")
  <2>1. "none" \in Questions
    BY DEF Questions
  <2>2. Moved(t, "reply", req[t].prompt, "none")
    BY <1>1, <1>6, <2>1, AnswerMoves
  <2> QED BY <1>1, <1>2, <1>4, <2>2, SlotCleared DEF Unread
<1> QED BY <1>5, <1>6 DEF RejectPrompt

LEMMA ClearSafe ==
    ASSUME IInv, NEW t \in Threads, ClearPrompt(t) \/ ClearAfter(t)
    PROVE  IInv'
<1>1. /\ TypeOK /\ t \in Actors /\ Active(t) /\ {"reply", "act"} \subseteq Pcs
      /\ UNCHANGED <<prompts, shown, counts, updateVars, bootVars, settled>> /\ slot' = NoPrompt
  BY DEF IInv, Actors, Active, ClearPrompt, ClearAfter, Pcs
<1>2. settled' \subseteq Settlement /\ \A s \in settled' : s.n <= prompts
  BY <1>1, NumberTypes DEF IInv, Numbers
<1>3. CASE ClearPrompt(t)
  <2>1. req[t].pc = "clear" /\ Goto(t, "act")
    BY <1>3 DEF ClearPrompt
  <2>2. Moved(t, "act", req[t].prompt, req[t].show)
    BY <1>1, <2>1, GotoMoves
  <2>3. req[t].prompt \in Prompt
    BY <2>1 DEF IInv, Reads
  <2>4. overlaps = 0 => Matches(req[t].seen, req[t].prompt.kind)
    BY <2>1, Alone DEF Consistent
  <2> QED BY <1>1, <1>2, <2>2, <2>3, <2>4, SlotCleared DEF Unread
<1>4. CASE ClearAfter(t)
  <2>1. Answer(t, "none") /\ "none" \in Questions
    BY <1>4 DEF ClearAfter, Questions
  <2>2. Moved(t, "reply", req[t].prompt, "none")
    BY <1>1, <2>1, AnswerMoves
  <2> QED BY <1>1, <1>2, <2>2, SlotCleared DEF Unread
<1> QED BY <1>3, <1>4

LEMMA DismissSafe ==
    ASSUME IInv, NEW t \in Threads, DismissUpdate(t)
    PROVE  IInv'
<1>1. /\ TypeOK /\ t \in Actors /\ Active(t) /\ req[t].pc = "dismiss"
      /\ dismissed' = req[t].prompt.version /\ offered' = NoVersion /\ Answer(t, "none")
      /\ UNCHANGED <<slot, prompts, shown, counts, local, remote, baseline, bootVars, settled>>
  BY DEF IInv, Actors, Active, DismissUpdate
<1>2. "none" \in Questions
  BY DEF Questions
<1>3. Moved(t, "reply", req[t].prompt, "none")
  BY <1>1, <1>2, AnswerMoves
<1>4. req[t].prompt.version \in 0..MaxVersion /\ NoVersion \in 0..MaxVersion
  BY <1>1, Parameters DEF TypeOK, Request, NoVersion
<1>5. TypeOK'
  BY <1>1, <1>3, <1>4 DEF TypeOK, Moved, counts, bootVars
<1>6. Reads'
  BY <1>1, <1>3, ThreadReads DEF Unread
<1>7. Numbers' /\ AnsweredLeaves'
  BY <1>1, <1>3, NumbersKept
<1>8. ASSUME overlaps = 0 PROVE Consistent(t)'
  <2>1. Shows("none")
    BY <1>1, <1>8, Alone, FreeShows DEF Consistent
  <2> QED BY <1>1, <1>3, <2>1 DEF Moved, Consistent, Shows, Empty
<1>9. OneAtATime'
  <2>1. overlaps' = overlaps /\ settled' = settled
    BY <1>1 DEF counts
  <2> QED BY <1>1, <1>3, <1>8, <2>1, ThreadAlone
<1> QED BY <1>5, <1>6, <1>7, <1>9 DEF IInv

\* Acting on a yes: what is settled was consented to.
LEMMA ActSafe ==
    ASSUME IInv, NEW t \in Threads, ActHere(t) \/ ActRestart(t) \/ ActUpdate(t)
    PROVE  IInv'
<1>1. /\ TypeOK /\ t \in Actors /\ Active(t) /\ req[t].pc = "act" /\ Settle(t, "done")
      /\ UNCHANGED <<slot, prompts, shown, counts, remote, baseline, dismissed, offered>>
  BY DEF IInv, Actors, Active, ActHere, ActRestart, ActUpdate, updateVars
<1>2. req[t].prompt \in Prompt /\ req[t].turn # 0
  BY <1>1 DEF IInv, Reads
<1>3. PICK s \in Settlement :
         /\ settled' = settled \cup {s} /\ s.n = req[t].prompt.n
         /\ s.kind = req[t].prompt.kind /\ s.seen = req[t].seen
  BY <1>1, <1>2, SettleType
<1>4. /\ local' \in Versions /\ remote' \in local'..MaxVersion
      /\ rebootPending' \in {FALSE, RebootEnabled}
      /\ restartPending' \in {FALSE, RestartEnabled}
      /\ restarts' \in 0..MaxRestarts
  <2>1. /\ local \in Versions /\ remote \in local..MaxVersion
        /\ rebootPending \in {FALSE, RebootEnabled}
        /\ restartPending \in {FALSE, RestartEnabled}
    BY <1>1 DEF TypeOK
  <2>2. local' = local \/ local' = remote
    BY DEF ActHere, ActRestart, ActUpdate, PullLatest, updateVars
  <2>3. /\ rebootPending' = rebootPending
           \/ \E k : rebootPending' = (rebootPending \/ (k = "reboot" /\ RebootEnabled))
        /\ restartPending' = restartPending
           \/ \E k : restartPending' = (restartPending \/ (k = "restart" /\ RestartEnabled))
    BY Zenon DEF ActHere, ActRestart, ActUpdate, ScheduleRestart, bootVars
  <2>4. local' \in Versions /\ remote' \in local'..MaxVersion
    BY <1>1, <2>1, <2>2, Parameters DEF Versions
  <2>5. rebootPending' \in {FALSE, RebootEnabled} /\ restartPending' \in {FALSE, RestartEnabled}
    BY <2>1, <2>3, Parameters, Zenon
  <2>6. restarts' \in 0..MaxRestarts
    BY <1>1 DEF TypeOK, ActHere, ActRestart, ActUpdate, ScheduleRestart, bootVars
  <2> QED BY <2>4, <2>5, <2>6
<1>5. ASSUME NEW pc \in {"clear after", "reply"}, NEW q, Moved(t, pc, req[t].prompt, q),
             req[t].prompt.kind = "wipe" => pc = "clear after",
             pc = "reply" => q = "none" /\ req[t].prompt.kind \notin {"wipe", "timer"}
      PROVE  IInv'
  <2>1. TypeOK'
    <3>1. settled' \subseteq Settlement
      BY <1>1, <1>3, NumberTypes
    <3> QED BY <1>1, <1>4, <1>5, <3>1 DEF TypeOK, Moved, counts, Settlement
  <2>2. Reads'
    BY <1>1, <1>5, ThreadReads DEF Unread
  <2>3. Numbers' /\ AnsweredLeaves'
    BY <1>1, <1>3, <1>5, NumbersActed
  <2>4. ASSUME overlaps = 0 PROVE Consistent(t)' /\ Matches(s.seen, s.kind)
    <3>1. Consistent(t)
      BY <2>4, Alone
    <3>2. Matches(s.seen, s.kind)
      BY <1>1, <1>3, <3>1 DEF Consistent
    <3>3. pc = "reply" => Shows(q)
      BY <1>1, <1>5, <3>1, FreeShows DEF Consistent
    <3>4. Consistent(t)'
      BY <1>1, <1>5, <3>3 DEF Moved, Consistent, Shows, Empty
    <3> QED BY <3>2, <3>4
  <2>5. OneAtATime'
    <3>1. overlaps' = overlaps
      BY <1>1 DEF counts
    <3> QED BY <1>1, <1>3, <1>5, <2>4, <3>1, ThreadAlone
  <2> QED BY <2>1, <2>2, <2>3, <2>5 DEF IInv
<1>6. CASE ActHere(t)
  <2>1. Goto(t, "clear after") /\ "clear after" \in Pcs
    BY <1>6 DEF ActHere, Pcs
  <2>2. Moved(t, "clear after", req[t].prompt, req[t].show)
    BY <1>1, <2>1, GotoMoves
  <2> QED BY <1>5, <2>2
<1>7. CASE ActRestart(t) \/ ActUpdate(t)
  <2>1. /\ Answer(t, "none") /\ "none" \in Questions
        /\ req[t].prompt.kind \notin {"wipe", "timer"}
    BY <1>7 DEF ActRestart, ActUpdate, Questions
  <2>2. Moved(t, "reply", req[t].prompt, "none")
    BY <1>1, <2>1, AnswerMoves
  <2> QED BY <1>5, <2>1, <2>2
<1> QED BY <1>6, <1>7
LEMMA ReplySafe ==
    ASSUME IInv, NEW t \in Threads, Reply(t)
    PROVE  IInv'
<1>1. /\ TypeOK /\ t \in Actors /\ t # Checker /\ req[t].pc = "reply"
      /\ shown' = req[t].show /\ req' = [req EXCEPT ![t] = Idle]
      /\ UNCHANGED <<slot, prompts, counts, updateVars, bootVars, settled>>
  <2>1. TypeOK
    BY DEF IInv
  <2> QED BY <2>1, NumberTypes DEF Reply
<1>2. /\ req' \in [Actors -> Request] /\ req'[t] = Idle
      /\ \A a \in Actors \ {t} : req'[a] = req[a]
  BY <1>1, IdleType DEF TypeOK
<1>3. \A u \in Threads \ {t} : req'[u] = req[u]
  BY <1>2 DEF Actors
<1>4. TypeOK'
  <2>1. shown' \in Questions
    BY <1>1 DEF TypeOK, Request
  <2> QED BY <1>1, <1>2, <2>1 DEF TypeOK, counts, updateVars, bootVars
<1>5. Reads'
  <2>1. req'[Checker] = req[Checker]
    BY <1>1, <1>2, Parameters
  <2> QED BY <1>2, <1>3, <2>1, IdleType DEF IInv, Reads, Active
<1>6. Numbers'
  <2>1. Numbers /\ (~Empty => slot.n # 0) /\ 0 <= prompts
    BY <1>1, NumberTypes, SlotType DEF IInv
  <2> QED BY <1>1, <1>2, <1>3, <2>1, IdleType DEF Numbers, Empty
<1>7. AnsweredLeaves'
  BY <1>1, <1>3 DEF IInv, AnsweredLeaves
<1>8. OneAtATime'
  <2> SUFFICES ASSUME overlaps = 0 PROVE OneAtATime'
    BY <1>1 DEF OneAtATime, counts
  <2>1. OneAtATime /\ Active(t)
    BY <1>1 DEF IInv, Active
  <2>2. \A u \in Threads \ {t} : ~Active(u)
    BY <2>1 DEF OneAtATime
  <2>3. \A u \in Threads : ~Active(u)' /\ Consistent(u)'
    BY <1>2, <1>3, <2>2, IdleType DEF Active, Consistent
  <2>4. Shows(shown')
    BY <1>1, <2>1 DEF OneAtATime, Consistent
  <2>5. Empty' \/ Matches(shown, slot.kind)'
    BY <1>1, <2>4 DEF Shows, Matches, Empty
  <2>6. shown' \in Kinds \ {"update"} => slot'.kind \in {shown', "update"}
    BY <1>1, <2>4 DEF Shows
  <2>7. \A s \in settled' : s.outcome = "done" => Matches(s.seen, s.kind)
    BY <1>1, <2>1 DEF OneAtATime
  <2> QED BY <2>3, <2>5, <2>6, <2>7 DEF OneAtATime
<1> QED BY <1>4, <1>5, <1>6, <1>7, <1>8 DEF IInv

-----------------------------------------------------------------------------
(* The update check                                                        *)

\* Whenever the scheduler's check takes a step, it leaves no question but its own.
LEMMA CheckerBeside ==
    ASSUME IInv, CheckerEnabled, \A t \in Threads : req'[t] = req[t],
           slot' = slot \/ (slot'.kind = "update" /\ slot' # NoPrompt),
           shown' = shown \/ shown' = "update",
           UNCHANGED <<overlaps, dismissed, restarts, settled>>
    PROVE  OneAtATime'
<1> SUFFICES ASSUME overlaps = 0 PROVE OneAtATime'
  BY DEF OneAtATime
<1>1. OneAtATime
  BY DEF IInv
<1>2. \A question : Empty \/ Matches(question, slot.kind) => Empty' \/ Matches(question, slot'.kind)
  BY DEF Empty, Matches
<1>3. FreeSlot => FreeSlot'
  BY DEF FreeSlot, Empty
<1>4. \A question : Shows(question) => Shows(question)'
  BY <1>2 DEF Shows
<1>5. \A t \in Threads : Consistent(t)'
  <2> SUFFICES ASSUME NEW t \in Threads PROVE Consistent(t)'
    OBVIOUS
  <2>1. Consistent(t) /\ req'[t] = req[t] /\ dismissed' = dismissed
    BY <1>1 DEF OneAtATime
  <2> QED BY <1>2, <1>3, <1>4, <2>1, Zenon DEF Consistent
<1>6. \A t \in Threads : Active(t)' <=> Active(t)
  BY DEF Active
<1>7. Quiescent' => Quiescent
  BY <1>6 DEF Quiescent
<1>8. Quiescent => Empty' \/ Matches(shown', slot'.kind)
  <2>1. Quiescent => Empty' \/ Matches(shown, slot'.kind)
    BY <1>1, <1>2 DEF OneAtATime
  <2>2. Matches("update", slot'.kind)
    BY DEF Matches
  <2> QED BY <2>1, <2>2
<1>9. Quiescent /\ restarts' = 0 /\ shown' \in Kinds \ {"update"} =>
        slot'.kind \in {shown', "update"}
  BY <1>1 DEF OneAtATime
<1>10. \A s \in settled' : s.outcome = "done" => Matches(s.seen, s.kind)
  BY <1>1 DEF OneAtATime
<1>11. \A t, u \in Threads : Active(t)' /\ Active(u)' => t = u
  BY <1>1, <1>6 DEF OneAtATime
<1> QED BY <1>5, <1>7, <1>8, <1>9, <1>10, <1>11 DEF OneAtATime

\* What of the invariant a step of the check keeps when it leaves the slot.
LEMMA CheckerKeeps ==
    ASSUME IInv, UNCHANGED <<slot, prompts, settled>>,
           \A t \in Threads : req'[t] = req[t]
    PROVE  Numbers' /\ AnsweredLeaves'
<1>1. Numbers'
  BY DEF IInv, Numbers, Empty
<1>2. AnsweredLeaves'
  BY DEF IInv, AnsweredLeaves
<1> QED BY <1>1, <1>2

\* The check's state at the start and in the middle of an offer.
LEMMA CheckerReads ==
    ASSUME IInv, \A t \in Threads : req'[t] = req[t], CheckerEnabled,
           req'[Checker].pc \in {"idle", "offer", "mark", "set", "reply"},
           req'[Checker].pc = "reply" => req'[Checker].show = "update",
           req'[Checker].prompt.n = 0
    PROVE  Reads'
  BY DEF IInv, Reads, Active

LEMMA CheckForUpdatesSafe ==
    ASSUME IInv, CheckForUpdates
    PROVE  IInv'
<1>1. /\ TypeOK /\ Checker \in Actors /\ CheckerEnabled /\ req[Checker].prompt.n = 0
      /\ UNCHANGED <<slot, prompts, shown, counts, updateVars, bootVars, settled>>
      /\ req' = [req EXCEPT ![Checker].pc = "offer", ![Checker].prompt.version = remote]
      /\ remote \in 0..MaxVersion
  <2>1. TypeOK
    BY DEF IInv
  <2>2. remote \in 0..MaxVersion
    BY <2>1, Parameters DEF TypeOK, Versions
  <2> QED BY <2>1, <2>2, Parameters DEF IInv, CheckForUpdates, Reads
<1>2. PICK p : Moved(Checker, "offer", p, req[Checker].show) /\ p.n = 0
  BY <1>1, OfferMoves
<1>3. \A t \in Threads : req'[t] = req[t]
  BY <1>1, <1>2, NumberTypes DEF Moved
<1>4. TypeOK'
  BY <1>1, <1>2 DEF TypeOK, Moved, counts, updateVars, bootVars
<1>5. Reads'
  BY <1>1, <1>2, <1>3, CheckerReads DEF Moved
<1>6. OneAtATime'
  BY <1>1, <1>3, CheckerBeside DEF counts, updateVars, bootVars
<1> QED BY <1>1, <1>3, <1>4, <1>5, <1>6, CheckerKeeps DEF IInv

LEMMA CheckerOfferSafe ==
    ASSUME IInv, Offer(Checker)
    PROVE  IInv'
<1>1. /\ TypeOK /\ Checker \in Actors /\ req[Checker].prompt.n = 0
      /\ req[Checker].pc \in {"offer", "mark", "set"}
  BY Parameters DEF IInv, Reads, Offer, OfferLooks, OfferMarks, OfferSets
<1>2. CheckerEnabled /\ req[Checker].prompt.version \in 0..MaxVersion
  <2>1. CheckerEnabled
    BY <1>1 DEF IInv, Reads, Active
  <2> QED BY <1>1, <2>1 DEF TypeOK, Request
<1>3. "update" \in Kinds /\ "update" \in Questions /\ {"mark", "set", "reply"} \subseteq Pcs
  BY KindsAre DEF Questions, Pcs
<1>4. CASE OfferLooks(Checker)
  <2>1. UNCHANGED <<slot, prompts, shown, counts, updateVars, bootVars, settled>>
    BY <1>4 DEF OfferLooks
  <2>2. /\ req' \in [Actors -> Request] /\ \A a \in Actors \ {Checker} : req'[a] = req[a]
        /\ req'[Checker].pc \in {"idle", "mark"} /\ req'[Checker].prompt.n = 0
    <3>1. CASE Goto(Checker, "mark")
      <4>1. Moved(Checker, "mark", req[Checker].prompt, req[Checker].show)
        BY <1>1, <1>3, <3>1, GotoMoves
      <4> QED BY <1>1, <4>1 DEF Moved
    <3>2. CASE req' = [req EXCEPT ![Checker] = Idle]
      BY <1>1, <3>2, IdleType DEF TypeOK
    <3> QED BY <1>4, <3>1, <3>2 DEF OfferLooks
  <2>3. \A t \in Threads : req'[t] = req[t]
    BY <1>1, <2>2, NumberTypes
  <2>4. TypeOK'
    BY <1>1, <2>1, <2>2 DEF TypeOK, counts, updateVars, bootVars
  <2>5. Reads'
    BY <1>2, <2>2, <2>3, CheckerReads
  <2>6. OneAtATime'
    BY <1>2, <2>1, <2>3, CheckerBeside DEF counts, updateVars, bootVars
  <2> QED BY <2>1, <2>3, <2>4, <2>5, <2>6, CheckerKeeps DEF IInv
<1>5. CASE OfferMarks(Checker)
  <2>1. /\ UNCHANGED <<slot, prompts, shown, counts, local, remote, baseline, dismissed,
                       bootVars, settled>>
        /\ offered' = req[Checker].prompt.version
        /\ Goto(Checker, "set")
    BY <1>5 DEF OfferMarks
  <2>2. Moved(Checker, "set", req[Checker].prompt, req[Checker].show)
    BY <1>1, <1>3, <2>1, GotoMoves
  <2>3. \A t \in Threads : req'[t] = req[t]
    BY <1>1, <2>2, NumberTypes DEF Moved
  <2>4. TypeOK'
    BY <1>1, <1>2, <2>1, <2>2 DEF TypeOK, Moved, counts, bootVars
  <2>5. Reads'
    BY <1>1, <1>2, <2>2, <2>3, CheckerReads DEF Moved
  <2>6. OneAtATime'
    BY <1>2, <2>1, <2>3, CheckerBeside DEF counts, bootVars
  <2> QED BY <2>1, <2>3, <2>4, <2>5, <2>6, CheckerKeeps DEF IInv
<1>6. CASE OfferSets(Checker)
  <2>1. /\ SetSlot("update", req[Checker].prompt.version) /\ Answer(Checker, "update")
        /\ UNCHANGED <<shown, counts, updateVars, bootVars, settled>>
    BY <1>6 DEF OfferSets
  <2>2. Moved(Checker, "reply", req[Checker].prompt, "update")
    BY <1>1, <1>3, <2>1, AnswerMoves
  <2>3. \A t \in Threads : req'[t] = req[t]
    BY <1>1, <2>2, NumberTypes DEF Moved
  <2>4. /\ slot' \in Prompt /\ slot'.kind = "update" /\ slot' # NoPrompt
        /\ prompts' \in 0..MaxPrompts
    <3>1. /\ slot' \in Prompt /\ slot'.kind = "update" /\ slot' # NoPrompt
          /\ prompts' \in 1..MaxPrompts
      BY <1>1, <1>2, <1>3, <2>1, SetSlotType
    <3> QED BY <3>1, Parameters
  <2>5. TypeOK'
    <3>1. settled' \subseteq Settlement
      BY <1>1, <2>1, NumberTypes
    <3>2. req' \in [Actors -> Request]
      BY <2>2 DEF Moved
    <3> QED BY <1>1, <2>1, <2>4, <3>1, <3>2, TypeStep
  <2>6. Reads'
    BY <1>1, <1>2, <2>2, <2>3, CheckerReads DEF Moved
  <2>7. Numbers' /\ AnsweredLeaves'
    BY <1>1, <1>2, <1>3, <2>1, <2>2, NumbersSet
  <2>8. OneAtATime'
    BY <1>2, <2>1, <2>3, <2>4, CheckerBeside DEF counts, updateVars, bootVars
  <2> QED BY <2>5, <2>6, <2>7, <2>8 DEF IInv
<1> QED BY <1>4, <1>5, <1>6 DEF Offer

LEMMA CheckerReplySafe ==
    ASSUME IInv, Reply(Checker)
    PROVE  IInv'
<1>1. /\ TypeOK /\ Checker \in Actors /\ req[Checker].pc = "reply"
      /\ shown' = req[Checker].show /\ req' = [req EXCEPT ![Checker] = Idle]
      /\ UNCHANGED <<slot, prompts, counts, updateVars, bootVars, settled>>
  BY Parameters DEF IInv, Reply
<1>2. CheckerEnabled /\ shown' = "update" /\ "update" \in Questions
  <2>1. CheckerEnabled /\ req[Checker].show = "update"
    BY <1>1 DEF IInv, Reads, Active
  <2> QED BY <1>1, <2>1, KindsAre DEF Questions
<1>3. /\ req' \in [Actors -> Request] /\ req'[Checker] = Idle
      /\ \A a \in Actors \ {Checker} : req'[a] = req[a]
  BY <1>1, IdleType DEF TypeOK
<1>4. \A t \in Threads : req'[t] = req[t]
  BY <1>1, <1>3, NumberTypes
<1>5. TypeOK'
  BY <1>1, <1>2, <1>3 DEF TypeOK, counts, updateVars, bootVars
<1>6. Reads'
  BY <1>2, <1>3, <1>4, IdleType, CheckerReads
<1>7. OneAtATime'
  BY <1>1, <1>2, <1>4, CheckerBeside DEF counts, updateVars, bootVars
<1> QED BY <1>1, <1>4, <1>5, <1>6, <1>7, CheckerKeeps DEF IInv
-----------------------------------------------------------------------------
(* Pushes and restarts                                                     *)

LEMMA PushSafe ==
    ASSUME IInv, Push
    PROVE  IInv'
<1>1. UNCHANGED <<slot, prompts, req, shown, counts, dismissed, bootVars, settled>>
  BY DEF Push
<1>2. TypeOK'
  <2>1. TypeOK
    BY DEF IInv
  <2>2. remote' \in local..MaxVersion
    BY <2>1, Parameters DEF TypeOK, Versions, Push
  <2> QED BY <2>1, <2>2 DEF TypeOK, Push, counts, bootVars
<1>3. Reads'
  BY <1>1 DEF IInv, Reads, Active
<1>4. Numbers' /\ AnsweredLeaves'
  BY <1>1, CheckerKeeps
<1>5. OneAtATime'
  <2>1. OneAtATime
    BY DEF IInv
  <2> QED BY <1>1, <2>1 DEF OneAtATime, Consistent, FreeSlot, Shows, Empty, Quiescent, Active,
                            counts, bootVars
<1> QED BY <1>2, <1>3, <1>4, <1>5 DEF IInv

LEMMA RestartSafe ==
    ASSUME IInv, Restart
    PROVE  IInv'
<1>1. /\ TypeOK /\ slot' = NoPrompt /\ req' = [a \in Actors |-> Idle] /\ restarts' = restarts + 1
      /\ UNCHANGED <<prompts, shown, counts, local, remote, settled>>
  BY DEF IInv, Restart
<1>2. TypeOK'
  <2>1. baseline' \in 0..MaxVersion /\ dismissed' \in 0..MaxVersion /\ offered' \in 0..MaxVersion
    BY <1>1, Parameters DEF Restart, TypeOK, Versions, NoVersion
  <2>2. rebootPending' = FALSE /\ restartPending' = FALSE /\ restarts' \in 0..MaxRestarts
    BY <1>1, Parameters DEF Restart, TypeOK
  <2>3. req' \in [Actors -> Request]
    BY <1>1, IdleType
  <2> QED BY <1>1, <2>1, <2>2, <2>3 DEF TypeOK, counts
<1>3. \A a \in Actors : req'[a] = Idle
  BY <1>1
<1>4. Checker \in Actors /\ Threads \subseteq Actors
  BY Parameters DEF Actors
<1>5. Reads'
  BY <1>3, <1>4, IdleType DEF Reads, Active
<1>6. slot'.n = 0 /\ Empty' /\ 0 <= prompts
  BY <1>1, IdleType, NumberTypes DEF Empty
<1>7. Numbers'
  BY <1>1, <1>3, <1>4, <1>6, IdleType DEF IInv, Numbers
<1>8. AnsweredLeaves'
  <2>1. \A s \in settled' : s.n # slot'.n
    BY <1>1, <1>6, NumberTypes
  <2> QED BY <2>1 DEF AnsweredLeaves
<1>9. OneAtATime'
  <2>1. \A t \in Threads : ~Active(t)' /\ Consistent(t)'
    BY <1>3, <1>4, IdleType DEF Active, Consistent
  <2>2. \A s \in settled' : overlaps = 0 /\ s.outcome = "done" => Matches(s.seen, s.kind)
    BY <1>1 DEF IInv, OneAtATime
  <2>3. restarts' # 0
    BY <1>1, Parameters DEF TypeOK
  <2> QED BY <1>1, <1>6, <2>1, <2>2, <2>3 DEF OneAtATime, counts
<1> QED BY <1>2, <1>5, <1>7, <1>8, <1>9 DEF IInv
-----------------------------------------------------------------------------
(* The invariant                                                           *)

LEMMA InitSafe == Init => IInv
<1> SUFFICES ASSUME Init PROVE IInv
  OBVIOUS
<1>1. /\ slot = NoPrompt /\ prompts = 0 /\ req = [a \in Actors |-> Idle] /\ shown = "none"
      /\ overlaps = 0 /\ settled = {}
  BY DEF Init
<1>2. Checker \in Actors /\ Threads \subseteq Actors /\ \A a \in Actors : req[a] = Idle
  BY <1>1, Parameters DEF Actors
<1>3. TypeOK
  <2>1. /\ prompts \in 0..MaxPrompts /\ sent \in 0..MaxMessages /\ overlaps \in 0..MaxOverlaps
        /\ restarts \in 0..MaxRestarts
    BY Parameters DEF Init
  <2>2. /\ local \in Versions /\ remote \in local..MaxVersion
        /\ baseline \in 0..MaxVersion /\ dismissed \in 0..MaxVersion /\ offered \in 0..MaxVersion
    BY Parameters DEF Init, Versions, NoVersion
  <2>3. req \in [Actors -> Request]
    BY <1>1, IdleType
  <2>4. rebootPending = FALSE /\ restartPending = FALSE /\ shown \in Questions
    BY <1>1 DEF Init, Questions
  <2> QED BY <1>1, <2>1, <2>2, <2>3, <2>4 DEF TypeOK
<1>4. Reads
  BY <1>2, IdleType DEF Reads, Active
<1>5. Empty /\ slot.n = 0
  BY <1>1, IdleType DEF Empty
<1>6. Numbers
  BY <1>1, <1>2, <1>5, IdleType DEF Numbers
<1>7. AnsweredLeaves
  BY <1>1 DEF AnsweredLeaves
<1>8. OneAtATime
  <2>1. \A t \in Threads : ~Active(t) /\ Consistent(t)
    BY <1>2, IdleType DEF Active, Consistent
  <2>2. shown \notin Kinds
    BY <1>1, KindsAre
  <2> QED BY <1>1, <1>5, <2>1, <2>2 DEF OneAtATime
<1> QED BY <1>3, <1>4, <1>6, <1>7, <1>8 DEF IInv

LEMMA StutterSafe ==
    ASSUME IInv, UNCHANGED vars
    PROVE  IInv'
<1>1. UNCHANGED <<slot, prompts, req, shown, sent, overlaps, local, remote, baseline, dismissed,
                  offered, rebootPending, restartPending, restarts, settled>>
  BY DEF vars, counts, updateVars, bootVars
<1>2. TypeOK'
  BY <1>1 DEF IInv, TypeOK
<1>3. Reads' /\ Numbers' /\ AnsweredLeaves'
  <2>1. Reads'
    BY <1>1 DEF IInv, Reads, Active
  <2> QED BY <1>1, <2>1, CheckerKeeps
<1>4. OneAtATime'
  BY <1>1 DEF IInv, OneAtATime, Consistent, FreeSlot, Shows, Empty, Quiescent, Active
<1> QED BY <1>2, <1>3, <1>4 DEF IInv

LEMMA NextSafe == IInv /\ [Next]_vars => IInv'
<1> SUFFICES ASSUME IInv, [Next]_vars PROVE IInv'
  OBVIOUS
<1>1. ASSUME NEW t \in Threads, Act(t) PROVE IInv'
  BY <1>1, RejectSafe, DismissSafe, ClearSafe, ActSafe DEF Act
<1>2. ASSUME NEW t \in Threads, Send(t) \/ Route(t) \/ Start(t) \/ Resume(t) PROVE IInv'
  BY <1>2, SendSafe, RouteSafe, StartSafe, ResumeSafe
<1>3. ASSUME NEW a \in Actors, Offer(a) \/ Reply(a) PROVE IInv'
  <2>1. a \in Threads \/ a = Checker
    BY DEF Actors
  <2> QED BY <1>3, <2>1, OfferSafe, ReplySafe, CheckerOfferSafe, CheckerReplySafe
<1> QED BY <1>1, <1>2, <1>3, CheckForUpdatesSafe, PushSafe, RestartSafe, StutterSafe DEF Next

LEMMA Invariance == Spec => []IInv
  BY InitSafe, NextSafe, PTL DEF Spec

-----------------------------------------------------------------------------
(* The theorems                                                            *)

\* Every variable keeps its type; a reboot or restart is pending only when its
\* setting allows it.
THEOREM TypeCorrect == Spec => []TypeOK
<1>1. IInv => TypeOK
  BY DEF IInv
<1> QED BY <1>1, Invariance, PTL

\* However requests overlap: a question that was answered is reached by no later
\* message, but for the wipe's, until its own request clears it.
THEOREM AnsweredNotReached == Spec => []AnsweredLeaves
<1>1. IInv => AnsweredLeaves
  BY DEF IInv
<1> QED BY <1>1, Invariance, PTL

\* With one message at a time, what is done is what the user was last asked; or one
\* of the two is an update, which the scheduler may offer over the other.
THEOREM ConsentHeld == Spec => []ConsentMatches
<1>1. IInv => ConsentMatches
  BY DEF IInv, OneAtATime, ConsentMatches, Matches
<1> QED BY <1>1, Invariance, PTL

\* With one message at a time and no restart, a question on the screen is in the
\* slot, so that its answer reaches it; or an update offered over it is.
THEOREM PromptStays == Spec => []PromptHeld
<1>1. ASSUME IInv PROVE PromptHeld
  <2>1. (\A a \in Actors : req[a].pc = "idle") => Quiescent
    BY DEF Quiescent, Active, Actors
  <2> QED BY <1>1, <2>1 DEF IInv, OneAtATime, PromptHeld
<1> QED BY <1>1, Invariance, PTL

\* With one message at a time, no request offers a version that was dismissed in
\* this process: nothing comes between its look at the store and its prompt.
THEOREM DismissalKept == Spec => DismissalHolds
<1>1. ASSUME IInv
      PROVE  [\A t \in Threads :
                 OfferSets(t) /\ overlaps = 0 => req[t].prompt.version # dismissed]_vars
  BY <1>1, Alone DEF OfferSets, Consistent
<1> QED BY <1>1, Invariance, PTL DEF DismissalHolds
=============================================================================
