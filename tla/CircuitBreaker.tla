--------------------------- MODULE CircuitBreaker ---------------------------
(***************************************************************************)
(* circuit_breaker.go: one CircuitBreaker shared by concurrent callers of  *)
(* Execute, with Reset and UpdateConfig racing them.  cb.mu makes each of  *)
(* allowRequest, recordResult, Reset and UpdateConfig one atomic step; the *)
(* call fn() runs between them without the lock, so the result of a call   *)
(* may be recorded in a state the call was not admitted in.                *)
(*                                                                         *)
(* Time enters the code only as now-lastFailureTime and now-lastStateChange*)
(* compared with RecoveryTimeout.  The model keeps these two differences,  *)
(* in ticks and saturated at AgeCap, which no RecoveryTimeout exceeds.     *)
(* failures is saturated at FailureCap, which no FailureThreshold exceeds. *)
(***************************************************************************)
EXTENDS Naturals, FiniteSets

CONSTANTS
    Callers,     \* the goroutines that call Execute
    Configs,     \* the CircuitBreakerConfigs that UpdateConfig may install
    Outcomes,    \* what a call of fn can end in
    AgeCap,      \* bound: ages are saturated here
    FailureCap   \* bound: the failure count is saturated here

Closed   == "CLOSED"
Open     == "OPEN"
HalfOpen == "HALF_OPEN"

\* What fn may return: success, an error the server answered, the two ways in
\* which the caller's own context ends the call, and a panic.
AllOutcomes == {"ok", "clientFault", "serverFault", "callerCancel",
                "callerDeadline", "panic"}

ConfigType == [enabled : BOOLEAN, failureThreshold : Nat, recoveryTimeout : Nat,
               successThreshold : Nat, maxConcurrentRequests : Nat]

ASSUME CallersAssumption  == IsFiniteSet(Callers)
ASSUME ConfigsAssumption  == Configs # {} /\ Configs \subseteq ConfigType
ASSUME OutcomesAssumption == Outcomes \subseteq AllOutcomes
ASSUME CapsAssumption ==
    /\ AgeCap \in Nat /\ FailureCap \in Nat \ {0}
    /\ \A k \in Configs : k.recoveryTimeout <= AgeCap /\ k.failureThreshold <= FailureCap

VARIABLES
    cfg,                 \* cb.config
    state,               \* cb.state
    failures, successes, \* cb.failures, cb.successes
    sinceFailure,        \* now - cb.lastFailureTime
    sinceChange,         \* now - cb.lastStateChange
    concurrentRequests,  \* cb.concurrentRequests
    pc,                  \* where each caller is in Execute
    probes,              \* history: running calls admitted in the current half-open window
    slots                \* history: those of them that concurrentRequests counted

breaker == <<state, failures, successes, sinceFailure, sinceChange, concurrentRequests>>
vars == <<cfg, breaker, pc, probes, slots>>

Saturate(n, cap) == IF n > cap THEN cap ELSE n

\* isFailure.  gRPC reports the caller's context to the interceptor as a status:
\* Canceled, which is excluded by code, or DeadlineExceeded, which is not.  A
\* panic is turned into an error without a status.
IsFailure(o) == o \in {"serverFault", "callerDeadline", "panic"}

Running == {c \in Callers : pc[c] = "calling"}

TypeOK ==
    /\ cfg \in Configs
    /\ state \in {Closed, Open, HalfOpen}
    /\ failures \in 0..FailureCap
    /\ successes \in Nat
    /\ sinceFailure \in 0..AgeCap
    /\ sinceChange \in 0..AgeCap
    /\ concurrentRequests \in Nat
    /\ pc \in [Callers -> {"idle", "admission", "bypass", "calling"}]
    /\ probes \subseteq Callers
    /\ slots \subseteq Callers

\* NewCircuitBreaker: lastFailureTime is the zero time.
Init ==
    /\ cfg \in Configs
    /\ state = Closed /\ failures = 0 /\ successes = 0
    /\ sinceFailure = AgeCap /\ sinceChange = 0
    /\ concurrentRequests = 0
    /\ pc = [c \in Callers |-> "idle"]
    /\ probes = {} /\ slots = {}

(***************************************************************************)
(* Execute                                                                 *)
(***************************************************************************)
Goto(c, l) == pc' = [pc EXCEPT ![c] = l]

\* Execute reads cb.config.Enabled without the lock, before allowRequest.
Enter(c) ==
    /\ pc[c] = "idle"
    /\ Goto(c, IF cfg.enabled THEN "admission" ELSE "bypass")
    /\ UNCHANGED <<cfg, breaker, probes, slots>>

\* A call made while the breaker is disabled records nothing.
FinishBypass(c) ==
    /\ pc[c] = "bypass"
    /\ Goto(c, "idle")
    /\ UNCHANGED <<cfg, breaker, probes, slots>>

AllowClosed(c) ==
    /\ state = Closed
    /\ Goto(c, "calling")
    /\ UNCHANGED <<cfg, breaker, probes, slots>>

\* The request that finds the recovery timeout over opens the probe window and
\* runs as its first probe; concurrentRequests does not count it.
AllowOpen(c) ==
    /\ state = Open
    /\ sinceFailure >= cfg.recoveryTimeout
    /\ state' = HalfOpen
    /\ sinceChange' = 0
    /\ concurrentRequests' = 0
    /\ successes' = 0
    /\ Goto(c, "calling")
    /\ probes' = {c}
    /\ slots' = {}
    /\ UNCHANGED <<cfg, failures, sinceFailure>>

\* Variant: a rejected request counts as a failure of the service.
RejectOpenCounted(c) ==
    /\ state = Open
    /\ sinceFailure < cfg.recoveryTimeout
    /\ sinceFailure' = 0
    /\ Goto(c, "idle")
    /\ UNCHANGED <<cfg, state, failures, successes, sinceChange, concurrentRequests, probes, slots>>

RejectOpen(c) ==
    /\ state = Open
    /\ sinceFailure < cfg.recoveryTimeout
    /\ Goto(c, "idle")
    /\ UNCHANGED <<cfg, breaker, probes, slots>>

WindowElapsed == cfg.recoveryTimeout > 0 /\ sinceChange >= cfg.recoveryTimeout

\* The window passed with no conclusive result: back to Open, for a whole
\* recovery timeout, and the request is rejected.
ExpireHalfOpen(c) ==
    /\ state = HalfOpen
    /\ WindowElapsed
    /\ state' = Open
    /\ sinceChange' = 0
    /\ sinceFailure' = 0
    /\ concurrentRequests' = 0
    /\ successes' = 0
    /\ Goto(c, "idle")
    /\ probes' = {} /\ slots' = {}
    /\ UNCHANGED <<cfg, failures>>

AllowHalfOpen(c) ==
    /\ state = HalfOpen
    /\ ~WindowElapsed
    /\ concurrentRequests < cfg.maxConcurrentRequests
    /\ concurrentRequests' = concurrentRequests + 1
    /\ Goto(c, "calling")
    /\ probes' = probes \cup {c}
    /\ slots' = slots \cup {c}
    /\ UNCHANGED <<cfg, state, failures, successes, sinceFailure, sinceChange>>

\* Variant: a rejected request renews the window.
RejectHalfOpenRenewing(c) ==
    /\ state = HalfOpen
    /\ ~WindowElapsed
    /\ concurrentRequests >= cfg.maxConcurrentRequests
    /\ sinceChange' = 0
    /\ Goto(c, "idle")
    /\ UNCHANGED <<cfg, state, failures, successes, sinceFailure, concurrentRequests, probes, slots>>

RejectHalfOpen(c) ==
    /\ state = HalfOpen
    /\ ~WindowElapsed
    /\ concurrentRequests >= cfg.maxConcurrentRequests
    /\ Goto(c, "idle")
    /\ UNCHANGED <<cfg, breaker, probes, slots>>

AllowRequest(c) ==
    /\ pc[c] = "admission"
    /\ \/ AllowClosed(c)
       \/ AllowOpen(c)
       \/ RejectOpen(c)
       \/ ExpireHalfOpen(c)
       \/ AllowHalfOpen(c)
       \/ RejectHalfOpen(c)

\* Variant: the slot is given back without looking whether one is taken.
ReleasedSlotsUnchecked ==
    IF state = HalfOpen THEN concurrentRequests - 1 ELSE concurrentRequests

\* recordResult gives a slot back for any result that arrives in HALF_OPEN,
\* also that of a call admitted before the window, or of its first probe.
ReleasedSlots ==
    IF state = HalfOpen /\ concurrentRequests > 0
        THEN concurrentRequests - 1 ELSE concurrentRequests

Leave(c, newState) ==
    /\ probes' = IF newState = HalfOpen THEN probes \ {c} ELSE {}
    /\ slots'  = IF newState = HalfOpen THEN slots \ {c} ELSE {}

\* Variant: one failure more than the threshold trips the breaker.
RecordFailureLate(c) ==
    LET counted == Saturate(failures + 1, FailureCap)
        trips   == state = Closed /\ counted > cfg.failureThreshold
    IN  /\ state' = IF trips \/ state = HalfOpen THEN Open ELSE state
        /\ failures' = IF state = HalfOpen THEN 1 ELSE counted
        /\ sinceFailure' = 0
        /\ sinceChange' = IF state' # state THEN 0 ELSE sinceChange
        /\ UNCHANGED successes
        /\ Leave(c, state')

\* Variant: the time of the failure is not recorded.
RecordFailureUnstamped(c) ==
    LET counted == Saturate(failures + 1, FailureCap)
        trips   == state = Closed /\ counted >= cfg.failureThreshold
    IN  /\ state' = IF trips \/ state = HalfOpen THEN Open ELSE state
        /\ failures' = IF state = HalfOpen THEN 1 ELSE counted
        /\ sinceChange' = IF state' # state THEN 0 ELSE sinceChange
        /\ UNCHANGED <<successes, sinceFailure>>
        /\ Leave(c, state')

RecordFailure(c) ==
    LET counted == Saturate(failures + 1, FailureCap)
        trips   == state = Closed /\ counted >= cfg.failureThreshold
    IN  /\ state' = IF trips \/ state = HalfOpen THEN Open ELSE state
        /\ failures' = IF state = HalfOpen THEN 1 ELSE counted
        /\ sinceFailure' = 0
        /\ sinceChange' = IF state' # state THEN 0 ELSE sinceChange
        /\ UNCHANGED successes
        /\ Leave(c, state')

RecordSuccess(c) ==
    LET closes == state = HalfOpen /\ successes + 1 >= cfg.successThreshold
    IN  /\ state' = IF closes THEN Closed ELSE state
        /\ failures' = IF closes \/ state = Closed THEN 0 ELSE failures
        /\ successes' = IF closes THEN 0
                        ELSE IF state = HalfOpen THEN successes + 1 ELSE successes
        /\ sinceChange' = IF closes THEN 0 ELSE sinceChange
        /\ UNCHANGED sinceFailure
        /\ Leave(c, state')

\* Variant: recordResult is called after fn, not deferred, so a panic skips it.
RecordResultUndeferred(c, o) ==
    /\ pc[c] = "calling"
    /\ Goto(c, "idle")
    /\ IF o = "panic" THEN UNCHANGED <<breaker, probes, slots>>
       ELSE /\ concurrentRequests' = ReleasedSlots
            /\ IF IsFailure(o) THEN RecordFailure(c) ELSE RecordSuccess(c)
    /\ UNCHANGED cfg

\* fn returns, or panics; the deferred recordResult runs either way.
RecordResult(c, o) ==
    /\ pc[c] = "calling"
    /\ Goto(c, "idle")
    /\ concurrentRequests' = ReleasedSlots
    /\ IF IsFailure(o) THEN RecordFailure(c) ELSE RecordSuccess(c)
    /\ UNCHANGED cfg

(***************************************************************************)
(* Administration and time                                                 *)
(***************************************************************************)
ToClosed ==
    /\ state' = Closed
    /\ failures' = 0 /\ successes' = 0
    /\ concurrentRequests' = 0
    /\ sinceChange' = 0
    /\ probes' = {} /\ slots' = {}
    /\ UNCHANGED sinceFailure

Reset ==
    /\ ToClosed
    /\ UNCHANGED <<cfg, pc>>

\* Called for every connection that is built for the service.
UpdateConfig(k) ==
    /\ cfg' = k
    /\ IF ~k.enabled /\ state # Closed
          THEN ToClosed
          ELSE UNCHANGED <<breaker, probes, slots>>
    /\ UNCHANGED pc

Tick ==
    /\ sinceFailure < AgeCap \/ sinceChange < AgeCap
    /\ sinceFailure' = Saturate(sinceFailure + 1, AgeCap)
    /\ sinceChange' = Saturate(sinceChange + 1, AgeCap)
    /\ UNCHANGED <<cfg, state, failures, successes, concurrentRequests, pc, probes, slots>>

Step(c) == Enter(c) \/ FinishBypass(c) \/ AllowRequest(c)

Next ==
    \/ \E c \in Callers : Step(c)
    \/ \E c \in Callers, o \in Outcomes : RecordResult(c, o)
    \/ Reset
    \/ \E k \in Configs : UpdateConfig(k)
    \/ Tick

Spec == Init /\ [][Next]_vars

(***************************************************************************)
(* Properties                                                              *)
(***************************************************************************)

\* A breaker that is Open failed no longer ago than it opened: every way into
\* Open, a trip, a failed probe and an expired probe window, restarts the
\* recovery timeout that allowRequest measures from lastFailureTime.
OpenIsFresh == state = Open => sinceFailure <= sinceChange

\* A Closed breaker carries fewer failures than make it trip, whatever results
\* of earlier windows were recorded late and whichever configuration is in force.
ClosedBelowThreshold ==
    state = Closed => \/ failures = 0
                      \/ \E k \in Configs : failures < k.failureThreshold

\* No slot of the probe window leaks: every one that concurrentRequests holds
\* belongs to a call of this window that is still running, so a full window has
\* that many probes in flight, and ends when they do.
NoSlotLeaks == state = HalfOpen => concurrentRequests <= Cardinality(slots \cap Running)

\* Once open, the breaker lets nothing through for a whole recovery timeout: a
\* half-open window starts only that long after the change to Open.
WaitsOutRecovery ==
    [][state = Open /\ state' = HalfOpen => sinceChange >= cfg.recoveryTimeout]_vars

\* A window that is stuck, every slot taken by a call that hangs, ends as long
\* as requests keep coming ("falls back to Open", circuit_breaker.go:160-162).
\* A breaker switched off is not asked, and may stay as it is.
WindowEnds == state = HalfOpen ~> (state # HalfOpen \/ ~cfg.enabled)

\* An Open breaker gives the service another chance as long as requests come,
\* even if calls admitted earlier go on failing while it is Open.
OpenEnds == state = Open ~> (state # Open \/ ~cfg.enabled)
=============================================================================
