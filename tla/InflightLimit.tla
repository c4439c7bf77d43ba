---------------------------- MODULE InflightLimit ----------------------------
(***************************************************************************)
(* What max_inflight_unary promises (server_options.go:24, "caps the number*)
(* of concurrent unary RPCs"): requests enter one at a time while there is *)
(* room, and leave.  The limit may be lifted, for good, by Configure.      *)
(***************************************************************************)
EXTENDS Naturals, FiniteSets

CONSTANTS Requests, MaxInflight

VARIABLES
    inside,   \* the requests past the limit
    limited   \* the limit is in force

limitVars == <<inside, limited>>

Init == inside = {} /\ limited \in BOOLEAN

Enter(r) ==
    /\ r \notin inside
    /\ limited => Cardinality(inside) < MaxInflight
    /\ inside' = inside \cup {r}
    /\ UNCHANGED limited

Leave(r) ==
    /\ r \in inside
    /\ inside' = inside \ {r}
    /\ UNCHANGED limited

Lift == limited /\ limited' = FALSE /\ UNCHANGED inside

Next == Lift \/ \E r \in Requests : Enter(r) \/ Leave(r)

Spec == Init /\ [][Next]_limitVars
=============================================================================
