----------------------------- MODULE MCReporting -----------------------------
(* Reporting for TLC: a one-way switch, slots for a report and one or two  *)
(* other packets, two tries, and ack timeouts of one or two send periods.  *)
EXTENDS Reporting
=============================================================================
