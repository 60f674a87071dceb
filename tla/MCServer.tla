------------------------------ MODULE MCServer ------------------------------
(* Server for TLC: two requests from one address. *)
EXTENDS Server

CONSTANTS c1

ClientOfMC == [k \in Caller |-> c1]
=============================================================================
