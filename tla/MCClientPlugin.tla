--------------------------- MODULE MCClientPlugin ---------------------------
(* Instances of ClientPlugin for TLC. *)
EXTENDS ClientPlugin

CONSTANTS t1, t2, x1, x2

\* connection_pooling on throughout, and also off at first, then on, then off again.
AlwaysPooled == {[e \in Configs |-> TRUE]}
PooledOrSwitched == AlwaysPooled \cup {[e \in Configs |-> e = 1]}
AnyPooling == [Configs -> BOOLEAN]

LiveSpec == Spec /\ Fairness
=============================================================================
