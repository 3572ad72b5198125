----------------------------- MODULE MCAccounts -----------------------------
(* Instances of Accounts for TLC. *)
EXTENDS Accounts
CONSTANTS a1, ana, ben, c1, c2, job, tokens
=============================================================================
