-------------------------- MODULE MCHealthMonitor --------------------------
(* A small instance of HealthMonitor for TLC.                              *)
EXTENDS HealthMonitor

MCChecks == <<"database", "voice">>
MCSaysOf == [database |-> {"database locked", "database lost"}, voice |-> {"voice missing"}]
=============================================================================
