----------------------------- MODULE MCAppQueue ------------------------------
(* AppQueue for TLC.                                                       *)
EXTENDS AppQueue
=============================================================================
