-------------------------- MODULE MCConfirmations --------------------------
(* Small instances of Confirmations for TLC.                               *)
EXTENDS Confirmations, TLC

\* The threads that serve requests are alike.
MCSymmetry == Permutations(Threads)
=============================================================================
