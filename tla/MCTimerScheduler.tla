-------------------------- MODULE MCTimerScheduler --------------------------
(* Small instances of TimerScheduler for TLC.                              *)
EXTENDS TimerScheduler

MCOne == {1}
=============================================================================
