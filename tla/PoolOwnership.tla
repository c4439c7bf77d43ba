---------------------------- MODULE PoolOwnership ----------------------------
(***************************************************************************)
(* What a pool without sweeps promises about its connections: each has one *)
(* holder, which passes it on.  One connection at a time is made for a pool*)
(* object, while that has room, and goes to its list; a goroutine withdraws*)
(* connections from a list and is the one that closes them.  A pool object *)
(* that is in the map loses nothing; one that is not may be let go, with   *)
(* what its list still has.                                                *)
(***************************************************************************)
EXTENDS Naturals, FiniteSets

CONSTANTS Conns, Pools, Threads, MaxConns

VARIABLES
    holders,   \* who holds each connection, as a set
    open,      \* the connections that are open
    mapped     \* the pool objects in p.services

ownershipVars == <<holders, open, mapped>>

\* The holders: who makes a connection for p, the list of p, who closes one.
MakerFor(p) == <<"maker", p>>
ListOf(p)   == <<"list", p>>
Closer(t)   == <<"closer", t>>

HeldBy(h) == {x \in Conns : holders[x] = {h}}

Pass(S, H) == holders' = [x \in Conns |-> IF x \in S THEN H ELSE holders[x]]

HasRoom(p) == Cardinality(HeldBy(ListOf(p))) < MaxConns

Init == holders = [x \in Conns |-> {}] /\ open = {} /\ mapped = {}

Make(p) ==
    /\ HeldBy(MakerFor(p)) = {} /\ HasRoom(p)
    /\ \E x \in Conns \ open : /\ holders[x] = {}
                               /\ Pass({x}, {MakerFor(p)})
                               /\ open' = open \cup {x}
    /\ UNCHANGED mapped

Offer(p) ==
    /\ HeldBy(MakerFor(p)) # {} /\ HasRoom(p)
    /\ Pass(HeldBy(MakerFor(p)), {ListOf(p)})
    /\ UNCHANGED <<open, mapped>>

Withdraw(t, p) ==
    /\ HeldBy(Closer(t)) = {}
    /\ \E S \in (SUBSET HeldBy(ListOf(p))) \ {{}} : Pass(S, {Closer(t)})
    /\ UNCHANGED <<open, mapped>>

Close(t) ==
    /\ HeldBy(Closer(t)) # {}
    /\ Pass(HeldBy(Closer(t)), {})
    /\ open' = open \ HeldBy(Closer(t))
    /\ UNCHANGED mapped

\* A pool object comes into the map, with nothing in it.
Enter(p) ==
    /\ p \notin mapped
    /\ mapped' = mapped \cup {p}
    /\ Pass(HeldBy(ListOf(p)), {})
    /\ UNCHANGED open

Leave ==
    /\ UNCHANGED <<holders, open>>
    /\ \E S \in SUBSET mapped : mapped' = S

Next ==
    \/ Leave
    \/ \E p \in Pools : Make(p) \/ Offer(p) \/ Enter(p)
    \/ \E t \in Threads : Close(t) \/ \E p \in Pools : Withdraw(t, p)

Spec == Init /\ [][Next]_ownershipVars
=============================================================================
