----------------------------- MODULE HubPromise -----------------------------
(***************************************************************************)
(* What the event stream promises a client, without deques, snapshots,     *)
(* batches or connections: the events reach it in the order they were      *)
(* recorded, each at most once, and it misses only what the hub no longer  *)
(* kept.  ActivityHub implements this; that a client also catches up is    *)
(* its ClientCatchesUp.                                                    *)
(***************************************************************************)
EXTENDS Integers

CONSTANTS Streams, MaxEvents

VARIABLES
    recorded,   \* events recorded so far, numbered from 1
    received    \* the last event each client has received, or 0

pvars == <<recorded, received>>

Init == recorded = 1 /\ received = [c \in Streams |-> 0]

Record == recorded' = recorded + 1 /\ UNCHANGED received

Receive(c) ==
    /\ \E e \in (received[c] + 1)..recorded :
          /\ \A missed \in (received[c] + 1)..(e - 1) : missed <= recorded - MaxEvents
          /\ received' = [received EXCEPT ![c] = e]
    /\ UNCHANGED recorded

Next == Record \/ \E c \in Streams : Receive(c)

Spec == Init /\ [][Next]_pvars
=============================================================================
