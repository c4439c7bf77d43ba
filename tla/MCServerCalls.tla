---------------------------- MODULE MCServerCalls ----------------------------
(* Instances of ServerCalls for TLC. *)
EXTENDS ServerCalls

CONSTANTS r1, r2, r3

LiveSpec == Spec /\ Fairness
=============================================================================
