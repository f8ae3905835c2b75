----------------------------- MODULE MCEventFifo -----------------------------
(* EventFifo for TLC: events are model values, equal when the records are. *)
EXTENDS EventFifo
=============================================================================
