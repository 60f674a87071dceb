--------------------------- MODULE MCMatchHistory ---------------------------
(* MatchHistory for TLC: one match, one request at a time, no players. *)
EXTENDS MatchHistory
=============================================================================
