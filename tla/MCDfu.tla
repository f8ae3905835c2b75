-------------------------------- MODULE MCDfu ---------------------------------
(* An image of three sectors less a few cells, two packets to a buffer.     *)
EXTENDS Dfu
=============================================================================
