----------------------------- MODULE ServerCalls -----------------------------
(***************************************************************************)
(* monitoring.go, runtime_config.go, service.go: unary requests in the     *)
(* interceptor chain of the server (recovery, rate limit, in-flight limit, *)
(* circuit breaker, handler) while Configure replaces the server options.  *)
(*                                                                         *)
(* The chain is built once, from the options the server starts with, but   *)
(* every interceptor reads g.serverOpts again each time it needs it, and   *)
(* without a lock.  Configure puts default options there, which have no    *)
(* limiter, no semaphore and no breaker.  Each read is a step.  Whether    *)
(* the limiter, the breaker and the handler let a request through is open. *)
(***************************************************************************)
EXTENDS Naturals, FiniteSets

CONSTANTS
    Requests,     \* unary requests, each a goroutine of the server
    Limited,      \* rate_limit is enabled in the startup options
    MaxInflight,  \* max_inflight_unary there; 0: no limit
    Breaking,     \* circuit_breaker is enabled there
    Configures    \* whether Configure is called

ASSUME ServerAssumption ==
    /\ IsFiniteSet(Requests)
    /\ MaxInflight \in Nat
    /\ Limited \in BOOLEAN /\ Breaking \in BOOLEAN /\ Configures \in BOOLEAN

VARIABLES
    opts,     \* which options g.serverOpts points to: "startup" or "defaults"
    tokens,   \* the fill of the startup options' inflightSem
    pc,       \* where each request is
    channel,  \* the semaphore the select of a request evaluated: "sem" or "nil"
    holders,  \* the requests whose send succeeded: they release when they unwind
    expired   \* the requests whose context is done

vars == <<opts, tokens, pc, channel, holders, expired>>

Labels == {"idle", "limitCheck", "limitRead", "limited", "inflightCheck", "select",
           "sending", "breakerCheck", "breakerRead", "handler", "unwind"}

TypeOK ==
    /\ opts \in {"startup", "defaults"}
    /\ tokens \in 0..MaxInflight
    /\ pc \in [Requests -> Labels]
    /\ channel \in [Requests -> {"sem", "nil"}]
    /\ holders \subseteq Requests /\ expired \subseteq Requests

Init ==
    /\ opts = "startup" /\ tokens = 0
    /\ pc = [r \in Requests |-> "idle"]
    /\ channel = [r \in Requests |-> "nil"]
    /\ holders = {} /\ expired = {}

Goto(r, l) == pc' = [pc EXCEPT ![r] = l]

\* The interceptors that the chain has, in their order.
AtBreaker  == IF Breaking THEN "breakerCheck" ELSE "handler"
AtInflight == IF MaxInflight > 0 THEN "inflightCheck" ELSE AtBreaker
AtLimit    == IF Limited THEN "limitCheck" ELSE AtInflight

Arrive(r) ==
    /\ pc[r] = "idle"
    /\ Goto(r, AtLimit)
    /\ UNCHANGED <<opts, tokens, channel, holders, expired>>

(***************************************************************************)
(* getRateLimitUnaryInterceptor                                            *)
(***************************************************************************)
LimitCheck(r) ==
    /\ pc[r] = "limitCheck"
    /\ Goto(r, IF opts = "startup" THEN "limitRead" ELSE AtInflight)
    /\ UNCHANGED <<opts, tokens, channel, holders, expired>>

\* The second read of the limiter; Wait panics on a nil one.
LimitRead(r) ==
    /\ pc[r] = "limitRead"
    /\ Goto(r, IF opts = "startup" THEN "limited" ELSE "unwind")
    /\ UNCHANGED <<opts, tokens, channel, holders, expired>>

\* Wait gives a permit, or an error when the context ends before it would.
LimitWait(r) ==
    /\ pc[r] = "limited"
    /\ Goto(r, AtInflight) \/ Goto(r, "unwind")
    /\ UNCHANGED <<opts, tokens, channel, holders, expired>>

(***************************************************************************)
(* getInflightUnaryInterceptor                                             *)
(***************************************************************************)
\* Variant: a full semaphore is passed by instead of waited for.
InflightCheckFailingOpen(r) ==
    /\ pc[r] = "inflightCheck"
    /\ Goto(r, IF opts = "startup" /\ tokens < MaxInflight THEN "select" ELSE AtBreaker)
    /\ UNCHANGED <<opts, tokens, channel, holders, expired>>

InflightCheck(r) ==
    /\ pc[r] = "inflightCheck"
    /\ Goto(r, IF opts = "startup" THEN "select" ELSE AtBreaker)
    /\ UNCHANGED <<opts, tokens, channel, holders, expired>>

\* select evaluates its channels once, before it waits.
Select(r) ==
    /\ pc[r] = "select"
    /\ channel' = [channel EXCEPT ![r] = IF opts = "startup" THEN "sem" ELSE "nil"]
    /\ Goto(r, "sending")
    /\ UNCHANGED <<opts, tokens, holders, expired>>

\* Variant: the channel holds one token more than the limit.
SendOverfilling(r) ==
    /\ pc[r] = "sending" /\ channel[r] = "sem" /\ tokens <= MaxInflight
    /\ tokens' = tokens + 1
    /\ holders' = holders \cup {r}
    /\ channel' = [channel EXCEPT ![r] = "nil"]
    /\ Goto(r, AtBreaker)
    /\ UNCHANGED <<opts, expired>>

Send(r) ==
    /\ pc[r] = "sending" /\ channel[r] = "sem" /\ tokens < MaxInflight
    /\ tokens' = tokens + 1
    /\ holders' = holders \cup {r}
    /\ channel' = [channel EXCEPT ![r] = "nil"]
    /\ Goto(r, AtBreaker)
    /\ UNCHANGED <<opts, expired>>

\* Variant: a nil semaphore is waited on without the context.
GiveUpOnSem(r) ==
    /\ pc[r] = "sending" /\ r \in expired /\ channel[r] = "sem"
    /\ channel' = [channel EXCEPT ![r] = "nil"]
    /\ Goto(r, "unwind")
    /\ UNCHANGED <<opts, tokens, holders, expired>>

GiveUp(r) ==
    /\ pc[r] = "sending" /\ r \in expired
    /\ channel' = [channel EXCEPT ![r] = "nil"]
    /\ Goto(r, "unwind")
    /\ UNCHANGED <<opts, tokens, holders, expired>>

(***************************************************************************)
(* getServerCircuitBreakerUnaryInterceptor, the handler                    *)
(***************************************************************************)
BreakerCheck(r) ==
    /\ pc[r] = "breakerCheck"
    /\ Goto(r, IF opts = "startup" THEN "breakerRead" ELSE "handler")
    /\ UNCHANGED <<opts, tokens, channel, holders, expired>>

\* The second read of the breaker: Execute panics on a nil one, and otherwise
\* calls the handler or rejects the request.
BreakerRead(r) ==
    /\ pc[r] = "breakerRead"
    /\ \/ opts = "startup" /\ Goto(r, "handler")
       \/ Goto(r, "unwind")
    /\ UNCHANGED <<opts, tokens, channel, holders, expired>>

\* The handler returns, or panics: the deferred calls run in both cases.
Handle(r) ==
    /\ pc[r] = "handler"
    /\ Goto(r, "unwind")
    /\ UNCHANGED <<opts, tokens, channel, holders, expired>>

\* Variant: a request whose context is done may leave its token behind.
UnwindLeaking(r) ==
    /\ pc[r] = "unwind"
    /\ Goto(r, "idle")
    /\ IF r \in holders
          THEN /\ opts = "startup" /\ tokens > 0
               /\ \/ tokens' = tokens - 1
                  \/ r \in expired /\ UNCHANGED tokens
               /\ holders' = holders \ {r}
          ELSE UNCHANGED <<tokens, holders>>
    /\ expired' = expired \ {r}
    /\ UNCHANGED <<opts, channel>>

\* The request ends.  The deferred receive of a request that holds a token reads
\* g.serverOpts once more: receiving from a nil channel never ends.
Unwind(r) ==
    /\ pc[r] = "unwind"
    /\ Goto(r, "idle")
    /\ IF r \in holders
          THEN /\ opts = "startup" /\ tokens > 0
               /\ tokens' = tokens - 1
               /\ holders' = holders \ {r}
          ELSE UNCHANGED <<tokens, holders>>
    /\ expired' = expired \ {r}
    /\ UNCHANGED <<opts, channel>>

(***************************************************************************)
(* Configure, and the deadline of a request                                *)
(***************************************************************************)

\* rebuildServerOptions makes options from the defaults, whatever was configured.
Rebuilt == "defaults"

\* The rebuilt options are put in place; later calls do the same again.
Configure ==
    /\ Configures /\ opts = "startup"
    /\ opts' = Rebuilt
    /\ UNCHANGED <<tokens, pc, channel, holders, expired>>

Expire(r) ==
    /\ pc[r] # "idle" /\ r \notin expired
    /\ expired' = expired \cup {r}
    /\ UNCHANGED <<opts, tokens, pc, channel, holders>>

-----------------------------------------------------------------------------
Step(r) ==
    \/ LimitCheck(r) \/ LimitRead(r) \/ LimitWait(r)
    \/ InflightCheck(r) \/ Select(r) \/ Send(r) \/ GiveUp(r)
    \/ BreakerCheck(r) \/ BreakerRead(r) \/ Handle(r) \/ Unwind(r)

Next == Configure \/ \E r \in Requests : Arrive(r) \/ Step(r) \/ Expire(r)

Spec == Init /\ [][Next]_vars

\* Requests run, handlers return, and each request has a deadline: the server's
\* timeout, ten seconds unless it is configured.
Fairness == \A r \in Requests : WF_vars(Step(r)) /\ WF_vars(Expire(r))

(***************************************************************************)
(* Properties                                                              *)
(***************************************************************************)

\* server_options.go:24, "caps the number of concurrent unary RPCs": until the
\* first Configure no more than MaxInflight requests are past the in-flight limit,
\* however requests end (rejected by the breaker, panicking, out of time).
Past(r) == pc[r] \in {"breakerCheck", "breakerRead", "handler"}
WithinMaxInflight ==
    opts = "startup" /\ MaxInflight > 0 =>
        Cardinality({r \in Requests : Past(r)}) <= MaxInflight

\* Every token in the semaphore belongs to a request that will take it out.
TokensAccounted == tokens = Cardinality(holders)

\* The chain is an InflightLimit, in which the requests past the limit are those
\* inside: whatever a request reads and waits for on its way is invisible there.
Limit == INSTANCE InflightLimit WITH
            inside <- {r \in Requests : Past(r)},
            limited <- opts = "startup" /\ MaxInflight > 0
ImplementsLimit == Limit!Spec

\* A request returns, unless it holds a token of a semaphore that Configure has
\* taken away: a request that panics on a nil limiter or breaker, or that waits on
\* a nil semaphore, still ends.
Stranded(r) == r \in holders /\ opts = "defaults"
ReturnsUnlessStranded == \A r \in Requests : pc[r] # "idle" ~> pc[r] = "idle" \/ Stranded(r)

\* service.go:468, "Configure is concurrency-safe": requests that run while the
\* server is configured return.
RequestsReturn == \A r \in Requests : pc[r] # "idle" ~> pc[r] = "idle"
=============================================================================
