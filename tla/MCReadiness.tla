----------------------------- MODULE MCReadiness -----------------------------
(* Instances of Readiness for TLC. *)
EXTENDS Readiness

CONSTANTS s1, s2, s3, w1, w2

LiveSpec == Spec /\ Fairness
=============================================================================
