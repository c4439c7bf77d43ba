---------------------------- MODULE MCRetryChain ----------------------------
(* An instance of RetryChain for TLC. *)
EXTENDS RetryChain, RetryDelay, TLC

CONSTANTS c1, c2, c3

Config(e, t, r, s, m) ==
    [enabled |-> e, failureThreshold |-> t, recoveryTimeout |-> r,
     successThreshold |-> s, maxConcurrentRequests |-> m]

\* As the client builds them (client_interceptors.go:192-199), small: one that is
\* in force, with fewer slots than callers, and one that switches the breaker off.
OnAndOff == {Config(TRUE, 2, 2, 2, 1), Config(FALSE, 1, 1, 2, 2)}

\* The connection of c3 has no retries.
SomeRetries == c1 :> 1 @@ c2 :> 1 @@ c3 :> 0

\* The delays of RetryDelay over small durations.
ASSUME DelaysInRange ==
    \A raw \in Durations, base \in 0..3, max \in 0..3, jitter \in -4..4 :
        Quarter(AtMost(raw, max), jitter) =>
            LET delay == CalculateRetryDelay(raw, jitter, base, max) IN
            /\ delay = base \/ delay \in 0..max
            /\ raw >= 0 => 4 * delay >= 3 * AtMost(raw, max) /\ delay <= max

LiveSpec == ChainSpec /\ ChainFairness
=============================================================================
