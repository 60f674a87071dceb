---------------------------- MODULE MCRateWindow ----------------------------
(* RateWindow for TLC: two addresses, a token every two ticks. *)
EXTENDS RateWindow

CONSTANTS c1, c2, k1, k2
=============================================================================
