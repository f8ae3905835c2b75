------------------------------- MODULE MCRelay -------------------------------
(* Relay for TLC: two switches that share the app task.                    *)
EXTENDS Relay
=============================================================================
