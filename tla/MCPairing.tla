----------------------------- MODULE MCPairing ------------------------------
(* Pairing for TLC: as many power cuts and long presses as the .cfg says.  *)
EXTENDS Pairing
=============================================================================
