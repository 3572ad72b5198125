----------------------------- MODULE MCSending -----------------------------
(* Instances of Sending for TLC. *)
EXTENDS Sending
CONSTANTS a1, a2, w1, w2, s1, s2
TwoEndpoints == [a \in Account |-> IF a = a2 THEN 2 ELSE 1]
=============================================================================
