------------------------------ MODULE MCPower -------------------------------
(* Power for TLC: one key, as the one-way switch has it.                   *)
EXTENDS Power

CONSTANTS k1
=============================================================================
