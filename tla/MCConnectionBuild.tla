-------------------------- MODULE MCConnectionBuild --------------------------
(* Instances of ConnectionBuild for TLC. *)
EXTENDS ConnectionBuild, TLC

CONSTANTS t1, t2, n1, n2, n3, s1, r1, x1, x2, x3

Symmetry == Permutations({t1, t2})

\* Nodes of two versions; n3 is the one registered without an endpoint.
ThreeNodes == n1 :> [version |-> "v1"] @@ n2 :> [version |-> "v2"] @@ n3 :> [version |-> "v1"]

BothOrNone == {{n1, n2}, {n3}}

Config(r, lb, f, tl, req) ==
    [svc |-> s1, reg |-> r, endpoint |-> r = None, lb |-> lb, filter |-> f, tls |-> tl,
     required |-> req]

\* A filter of the library, with TLS and required, and a strict one that leaves
\* nothing, without.
MixedConfigs == {Config(r1, TRUE, Version("v1"), TRUE, TRUE),
                 Config(r1, TRUE, Strict(Version("v3")), FALSE, FALSE)}
==============================================================================
