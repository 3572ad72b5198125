--------------------------- MODULE MCMailActions ---------------------------
(* Instances of MailActions for TLC. *)
EXTENDS MailActions
CONSTANTS a1, a2, r1, r2
TwoAccounts == [m \in Message |-> IF m = 2 THEN a2 ELSE a1]
=============================================================================
