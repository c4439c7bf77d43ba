-------------------------- MODULE MCConnectionPool --------------------------
(* Instances of ConnectionPool for TLC. *)
EXTENDS ConnectionPool, TLC

CONSTANTS a, b, c, t1, t2, t3, p1, p2, p3, p4, x1, x2

\* Names, goroutines and identities are interchangeable: no action names one,
\* and connections differ only in whether they may break.
Symmetry == Permutations(Services) \cup Permutations(Threads) \cup Permutations(Pools)
            \cup Permutations(Breakable) \cup Permutations(Conns \ Breakable)

LiveSpec == Spec /\ Fairness
=============================================================================
