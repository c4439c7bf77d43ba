----------------------------- MODULE NodeFilter -----------------------------
(***************************************************************************)
(* filter/node_filter.go: the selector.NodeFilters of the library, and the *)
(* ones a caller may write.  A filter looks at one entry of a node's       *)
(* metadata; a node that lacks the entry is kept.  The library's filters   *)
(* fail open: if none of the nodes matches, all are kept.                  *)
(***************************************************************************)
EXTENDS Naturals

CONSTANTS
    Nodes,      \* the service instances there may ever be
    Metadata    \* their metadata: a function from keys to values for each node

ASSUME MetadataAssumption == DOMAIN Metadata = Nodes

\* A filter: the metadata entry it looks at, the values it accepts and whether
\* it is strict, which none of the library's is.  No node has an entry "".
NoFilter == [key |-> "", accept |-> {}, strict |-> FALSE]

\* Version, Group and Region, made for the empty value, keep every node.
Version(v) == IF v = "" THEN NoFilter
              ELSE [key |-> "version", accept |-> {v}, strict |-> FALSE]
Group(g)   == IF g = "" THEN NoFilter
              ELSE [key |-> "group", accept |-> {g}, strict |-> FALSE]
Region(r)  == IF r = "" THEN NoFilter
              ELSE [key |-> "region", accept |-> {r}, strict |-> FALSE]
Healthy    == [key |-> "health", accept |-> {"healthy", "up"}, strict |-> FALSE]

\* A filter of the caller's own, which may leave nothing.
Strict(f) == [f EXCEPT !.strict = TRUE]

Matches(f, n) == f.key \in DOMAIN Metadata[n] => Metadata[n][f.key] \in f.accept

Matching(f, S) == {n \in S : Matches(f, n)}

\* What the filter f leaves of the nodes S.
Keep(f, S) == IF Matching(f, S) = {} /\ ~f.strict THEN S ELSE Matching(f, S)

\* The library's filters in the order of nodes are sets here: no filter looks at
\* the order or at another node.
=============================================================================
