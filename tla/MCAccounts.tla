----------------------------- MODULE MCAccounts -----------------------------
(* Accounts for TLC: the constants are given in MCAccounts.cfg. *)
EXTENDS Accounts
=============================================================================
