--------------------------- MODULE MCActivityHub ---------------------------
(* Small instances of ActivityHub for TLC.                                 *)
EXTENDS ActivityHub
=============================================================================
