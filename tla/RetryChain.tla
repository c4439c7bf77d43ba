----------------------------- MODULE RetryChain -----------------------------
(***************************************************************************)
(* client_interceptors.go: an RPC goes through retryUnaryClientInterceptor *)
(* and, in each of its attempts, through the breaker of its service, which *)
(* all connections of the service share.  The steps inside Execute are     *)
(* those of CircuitBreaker; this module adds the loop around them, the     *)
(* caller's context, and the verdict on each error.                        *)
(***************************************************************************)
EXTENDS CircuitBreaker

CONSTANTS
    MaxRetries,   \* of each caller's connection; 0: its chain has no retry interceptor
    Prompt        \* the callers whose attempts return; those of the others may hang

ASSUME MaxRetriesAssumption == MaxRetries \in [Callers -> Nat]
ASSUME PromptAssumption == Prompt \subseteq Callers

VARIABLE rpc      \* the RPC each caller makes

chainVars == <<vars, rpc>>

\* attempt is the loop's variable; expired: the caller's context is done.  History:
\* asked, how often the RPC went to the breaker, saturated at the first number too many.
NoRpc == [phase |-> "idle", attempt |-> 0, expired |-> FALSE, asked |-> 0]

ChainInit == Init /\ rpc = [c \in Callers |-> NoRpc]

In(c, p) == rpc[c].phase = p
Return(c) == rpc' = [rpc EXCEPT ![c] = NoRpc]

\* isRetryableError.  Of the faults of a server that the breaker counts some are
\* retryable (Unavailable, Aborted ...) and some are not (Unknown, DataLoss ...).
\* DeadlineExceeded is, whoever's deadline it was.  What is not a status, like the
\* rejection of the breaker, is not, and a panic leaves the loop.
MayRetry(o)  == o \in {"serverFault", "callerDeadline"}
MustRetry(o) == o = "callerDeadline"

\* An attempt that begins under a context that is done ends with the context's error,
\* unsent.
Possible(c, o) == rpc[c].expired => o \in {"callerDeadline", "callerCancel"}

(***************************************************************************)
(* The loop                                                                *)
(***************************************************************************)
Start(c) ==
    /\ In(c, "idle")
    /\ rpc' = [rpc EXCEPT ![c].phase = "attempt"]
    /\ UNCHANGED vars

\* Variant: the retries run inside the breaker, which is asked once for all of them.
AttemptInside(c) ==
    /\ In(c, "attempt")
    /\ IF rpc[c].attempt = 0 THEN Enter(c)
       ELSE pc[c] = "idle" /\ Goto(c, "calling") /\ UNCHANGED <<cfg, breaker, probes, slots>>
    /\ rpc' = [rpc EXCEPT ![c].asked = Saturate(@ + 1, MaxRetries[c] + 2)]

Attempt(c) ==
    /\ In(c, "attempt")
    /\ Enter(c)
    /\ rpc' = [rpc EXCEPT ![c].asked = Saturate(@ + 1, MaxRetries[c] + 2)]

\* A request the breaker rejects is not retried: the RPC returns at once.
Admit(c) ==
    /\ AllowRequest(c)
    /\ IF pc'[c] = "calling" THEN UNCHANGED rpc ELSE Return(c)

\* Variant: one attempt too many.
VerdictLate(c, o) ==
    \/ /\ MayRetry(o) /\ rpc[c].attempt <= MaxRetries[c]
       /\ rpc' = [rpc EXCEPT ![c].phase = "backoff"]
    \/ /\ MustRetry(o) => rpc[c].attempt > MaxRetries[c]
       /\ Return(c)

\* Success, an error that is not retryable, and the error of the last attempt return.
Verdict(c, o) ==
    \/ /\ MayRetry(o) /\ rpc[c].attempt < MaxRetries[c]
       /\ rpc' = [rpc EXCEPT ![c].phase = "backoff"]
    \/ /\ MustRetry(o) => rpc[c].attempt = MaxRetries[c]
       /\ Return(c)

\* The attempt ends, through the breaker or past it.
Finish(c, o) ==
    /\ Possible(c, o)
    /\ RecordResult(c, o) \/ FinishBypass(c)
    /\ Verdict(c, o)

\* Variant: the loop does not count the attempts.
TimerUncounted(c) ==
    /\ In(c, "backoff")
    /\ rpc' = [rpc EXCEPT ![c].phase = "attempt"]
    /\ UNCHANGED vars

\* The timer may be chosen although the context is done, if both are ready.
Timer(c) ==
    /\ In(c, "backoff")
    /\ rpc' = [rpc EXCEPT ![c].phase = "attempt", ![c].attempt = @ + 1]
    /\ UNCHANGED vars

GiveUp(c) ==
    /\ In(c, "backoff") /\ rpc[c].expired
    /\ Return(c)
    /\ UNCHANGED vars

\* The caller's deadline passes, or the caller cancels.  An attempt that is running then
\* may still end in any way, with its answer or with the context's error, so that it
\* has happened shows when the attempt is over: it is a step of its own only outside.
Expire(c) ==
    /\ ~In(c, "idle") /\ ~rpc[c].expired
    /\ pc[c] \notin {"calling", "bypass"}
    /\ rpc' = [rpc EXCEPT ![c].expired = TRUE]
    /\ UNCHANGED vars

Loop(c) == Start(c) \/ Attempt(c) \/ Admit(c) \/ Timer(c) \/ GiveUp(c)

ChainNext ==
    \/ \E c \in Callers : Loop(c) \/ Expire(c)
    \/ \E c \in Callers, o \in Outcomes : Finish(c, o)
    \/ (Reset \/ (\E k \in Configs : UpdateConfig(k)) \/ Tick) /\ UNCHANGED rpc

ChainSpec == ChainInit /\ [][ChainNext]_chainVars

\* The clock advances and goroutines run.  The callers of Prompt keep calling, and
\* their attempts end: one that goes through the breaker has a deadline, config.Timeout
\* (circuit_breaker.go:113).
ChainFairness ==
    /\ WF_chainVars(Tick /\ UNCHANGED rpc)
    /\ \A c \in Callers : WF_chainVars(Admit(c))
    /\ \A c \in Prompt : /\ WF_chainVars(Loop(c))
                         /\ WF_chainVars(\E o \in Outcomes : Finish(c, o))

(***************************************************************************)
(* Properties                                                              *)
(***************************************************************************)
ChainTypeOK ==
    /\ rpc \in [Callers -> [phase : {"idle", "attempt", "backoff"}, attempt : Nat,
                            expired : BOOLEAN, asked : Nat]]
    /\ \A c \in Callers : In(c, "attempt") \/ pc[c] = "idle"

\* The server sees at most one attempt and MaxRetries repetitions of an RPC
\* (client_interceptors.go:146-155), however often its errors are retryable, its
\* deadlines pass and the breaker changes its mind in between.
AttemptsBounded == \A c \in Callers : rpc[c].asked <= MaxRetries[c] + 1

\* Every RPC returns, though each of its attempts may be repeated, rejected, or
\* overtaken by its deadline.
RpcReturns == \A c \in Prompt : ~In(c, "idle") ~> In(c, "idle")

\* The chain uses the breaker as CircuitBreaker says callers do, so what is proved
\* there holds here.
UsesBreaker == Spec
=============================================================================
