---------------------------- MODULE TimerPromise ----------------------------
(***************************************************************************)
(* What the timers promise their users, without threads, jobs or polls.    *)
(* A row leaves the table for three reasons only: its users remove it, all *)
(* rows are wiped, or a countdown that was due was announced.  Neither a   *)
(* crash nor a restart takes one.  In one life of the process a countdown  *)
(* is announced at most twice, once by its job and once by the poll; only  *)
(* after a crash may it be announced anew, since its row is still there.   *)
(*                                                                         *)
(* Rows are removed by id, some time after they were looked up: when a row *)
(* has left meanwhile, another one with its id may go in its place, one    *)
(* for each completion and, for users, while one of them still asks.       *)
(* TimerScheduler implements this; that a due countdown leaves is          *)
(* TimerScheduler's DueTimerLeaves.                                        *)
(***************************************************************************)
EXTENDS Integers

CONSTANTS MaxId, MaxMade, MaxClock, Lines, Silence

VARIABLES
    clock,
    up,         \* the process runs
    life,       \* crashes of the process
    made,       \* rows ever created
    rows,       \* the timers and stopwatches that exist
    leaving,    \* the rows that users are removing
    expiring,   \* the countdowns that are being completed, by their job or the poll
    announced   \* the countdowns announced as complete, by whom and in which life

pvars == <<clock, up, life, made, rows, leaving, expiring, announced>>

By == {"job", "poll"}
Due(r) == r.kind = "countdown" /\ r.due <= clock
Without(i) == {r \in rows : r.id # i}

Init ==
    /\ clock = 0 /\ up = TRUE /\ life = 0 /\ made = 0 /\ rows = {}
    /\ leaving = {} /\ expiring = {} /\ announced = {}

\* A new row gets an id no other existing row has.
Create ==
    /\ made' = made + 1
    /\ \E i \in 1..MaxId, k \in {"countdown", "stopwatch"},
          d \in 0..MaxClock, l \in Lines \cup {Silence} :
          /\ made < MaxMade
          /\ \A r \in rows : r.id # i
          /\ rows' = rows \cup {[id |-> i, serial |-> made + 1, kind |-> k,
                                 due |-> d, line |-> l]}
    /\ UNCHANGED <<clock, up, life, leaving, expiring, announced>>

\* Another name for the timer with an id.
Rename ==
    /\ \E i \in 1..MaxId, l \in Lines :
          rows' = {IF r.id = i /\ r.kind = "countdown" THEN [r EXCEPT !.line = l] ELSE r :
                   r \in rows}
    /\ UNCHANGED <<clock, up, life, made, leaving, expiring, announced>>

\* Users cancel timers or stop stopwatches, ...
Ask ==
    /\ \E S \in SUBSET rows : leaving' = leaving \cup S
    /\ UNCHANGED <<clock, up, life, made, rows, expiring, announced>>

\* ... which go one by one, ...
Remove ==
    /\ \E r \in leaving : /\ rows' = Without(r.id)
                          /\ leaving' \in {leaving, leaving \ {r}}
    /\ UNCHANGED <<clock, up, life, made, expiring, announced>>

\* ... but for those that have already gone.
PassOver ==
    /\ \E r \in leaving : /\ \A q \in rows : q.id = r.id => q.kind # r.kind
                          /\ leaving' = leaving \ {r}
    /\ UNCHANGED <<clock, up, life, made, rows, expiring, announced>>

Wipe ==
    /\ rows' = {}
    /\ UNCHANGED <<clock, up, life, made, leaving, expiring, announced>>

\* A countdown that exists and is due is completed: it is announced, ...
Expire ==
    /\ \E r \in rows, b \in By :
          /\ Due(r)
          /\ \A e \in expiring : e.by = b => e.row.id # r.id
          /\ expiring' = expiring \cup {[row |-> r, by |-> b, told |-> FALSE]}
    /\ UNCHANGED <<clock, up, life, made, rows, leaving, announced>>

Announce ==
    /\ \E e \in expiring :
          /\ ~e.told
          /\ \A a \in announced :
                a.life = life /\ a.by = e.by => a.row.serial # e.row.serial
          /\ announced' = announced \cup {[row |-> e.row, by |-> e.by, life |-> life]}
          /\ expiring' = (expiring \ {e}) \cup {[row |-> e.row, by |-> e.by, told |-> TRUE]}
    /\ UNCHANGED <<clock, up, life, made, rows, leaving>>

\* ... and then leaves.
Complete ==
    /\ \E e \in expiring : /\ e.told
                           /\ rows' = Without(e.row.id)
                           /\ expiring' = expiring \ {e}
    /\ UNCHANGED <<clock, up, life, made, leaving, announced>>

\* What was under way is forgotten, the rows are not, ...
Crash ==
    /\ up /\ up' = FALSE /\ life' = life + 1
    /\ expiring' = {} /\ leaving' \in SUBSET leaving
    /\ UNCHANGED <<clock, made, rows, announced>>

\* ... nor are those that fell due meanwhile.
Restart ==
    /\ ~up /\ up' = TRUE
    /\ UNCHANGED <<clock, life, made, rows, leaving, expiring, announced>>

Tick ==
    /\ clock < MaxClock /\ clock' = clock + 1
    /\ UNCHANGED <<up, life, made, rows, leaving, expiring, announced>>

Next ==
    \/ Create \/ Rename \/ Ask \/ Remove \/ PassOver \/ Wipe
    \/ Expire \/ Announce \/ Complete \/ Crash \/ Restart \/ Tick

Spec == Init /\ [][Next]_pvars
=============================================================================
