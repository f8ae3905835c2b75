---------------------------- MODULE MCHeartbeat -----------------------------
(* Heartbeat for TLC, in units of a check period.                          *)
EXTENDS Heartbeat
=============================================================================
