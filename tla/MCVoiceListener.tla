-------------------------- MODULE MCVoiceListener --------------------------
(* Small instances of VoiceListener for TLC.                               *)
EXTENDS VoiceListener
=============================================================================
