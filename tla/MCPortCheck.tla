----------------------------- MODULE MCPortCheck -----------------------------
(* Instances of PortCheck for TLC. *)
EXTENDS PortCheck

CONSTANTS c1, c2, a1, a2

LiveSpec == Spec /\ Fairness
=============================================================================
