----------------------------- MODULE MCTxBuffer ------------------------------
(* TxBuffer for TLC: two attributes.                                       *)
EXTENDS TxBuffer
=============================================================================
