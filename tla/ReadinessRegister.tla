-------------------------- MODULE ReadinessRegister --------------------------
(***************************************************************************)
(* What the client plugin promises whoever reads the readiness it          *)
(* publishes: a check reaches services one by one and ends with a verdict  *)
(* that is true of all of them, the register goes up on a good verdict     *)
(* only and down when the next check begins, and the plugin calls itself   *)
(* ready only while the register is up.                                    *)
(***************************************************************************)
CONSTANT Services

VARIABLES
    checking,   \* a check is under way
    gaveUp,     \* whoever asked for it no longer waits
    reached,    \* the services it has reached
    verdict,    \* its result: "none", "ok", "unavailable" or "canceled"
    register,   \* required_upstreams_ready: "missing", "yes" or "no"
    ready       \* the contract of the plugin

registerVars == <<checking, gaveUp, reached, verdict, register, ready>>

Init ==
    /\ checking = FALSE /\ gaveUp = FALSE /\ reached = {} /\ verdict = "none"
    /\ register = "missing" /\ ready = FALSE

\* The plugin is initialised: nothing has been checked for it yet.
Clear ==
    /\ ~checking /\ ~ready
    /\ register' = "no"
    /\ UNCHANGED <<checking, gaveUp, reached, verdict, ready>>

Start ==
    /\ ~checking
    /\ checking' = TRUE /\ reached' = {} /\ verdict' = "none"
    /\ register' = "no" /\ ready' = FALSE
    /\ UNCHANGED gaveUp

Reach ==
    /\ checking
    /\ \E s \in Services : reached' = reached \cup {s}
    /\ UNCHANGED <<checking, gaveUp, verdict, register, ready>>

GiveUp ==
    /\ checking /\ gaveUp' = TRUE
    /\ UNCHANGED <<checking, reached, verdict, register, ready>>

\* A good verdict is one about all services, in time unless there are none; only a
\* caller that gave up is told that its check was cancelled.
Return ==
    /\ checking /\ checking' = FALSE /\ gaveUp' = FALSE
    /\ verdict' \in {"ok", "unavailable", "canceled"}
    /\ verdict' = "ok" => reached = Services /\ (gaveUp => Services = {})
    /\ verdict' = "canceled" => gaveUp
    /\ UNCHANGED <<reached, register, ready>>

Raise ==
    /\ ~checking /\ verdict = "ok" /\ register = "no"
    /\ register' = "yes"
    /\ UNCHANGED <<checking, gaveUp, reached, verdict, ready>>

Attest ==
    /\ register = "yes" /\ ~ready
    /\ ready' = TRUE
    /\ UNCHANGED <<checking, gaveUp, reached, verdict, register>>

Withdraw ==
    /\ ready' = FALSE
    /\ UNCHANGED <<checking, gaveUp, reached, verdict, register>>

Next == Clear \/ Start \/ Reach \/ GiveUp \/ Return \/ Raise \/ Attest \/ Withdraw

Spec == Init /\ [][Next]_registerVars
=============================================================================
