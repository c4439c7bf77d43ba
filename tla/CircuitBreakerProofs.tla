------------------------ MODULE CircuitBreakerProofs ------------------------
(***************************************************************************)
(* Proofs about CircuitBreaker for every set of callers, configurations    *)
(* and outcomes.  Types first; then the three facts about a breaker that   *)
(* is open, closed and half-open, each inductive once types are known.     *)
(***************************************************************************)
EXTENDS CircuitBreaker, FiniteSetTheorems, TLAPS

USE DEF Closed, Open, HalfOpen

LEMMA SaturateType == ASSUME NEW n \in Nat, NEW cap \in Nat
                      PROVE  /\ Saturate(n, cap) \in 0..cap
                             /\ Saturate(n, cap) <= n
  BY DEF Saturate

\* What the caps and the installed configurations are, in one place.
LEMMA ConfigFacts ==
  ASSUME TypeOK
  PROVE  /\ cfg \in ConfigType
         /\ cfg.recoveryTimeout \in Nat /\ cfg.recoveryTimeout <= AgeCap
         /\ cfg.failureThreshold \in Nat /\ cfg.failureThreshold <= FailureCap
         /\ cfg.successThreshold \in Nat /\ cfg.maxConcurrentRequests \in Nat
         /\ AgeCap \in Nat /\ FailureCap \in Nat /\ FailureCap >= 1
  BY ConfigsAssumption, CapsAssumption DEF TypeOK, ConfigType

-----------------------------------------------------------------------------
(* Type correctness *)

LEMMA InitTypeOK == Init => TypeOK
  BY CapsAssumption DEF Init, TypeOK

\* Reset and the disabling UpdateConfig assign the initial counters.
LEMMA ToClosedType ==
  ASSUME TypeOK, ToClosed, cfg' \in Configs, pc' = pc
  PROVE  TypeOK'
  BY CapsAssumption DEF TypeOK, ToClosed

LEMMA StepTypeOK == TypeOK /\ [Next]_vars => TypeOK'
<1> SUFFICES ASSUME TypeOK, [Next]_vars PROVE TypeOK'
  OBVIOUS
<1>0. /\ AgeCap \in Nat /\ FailureCap \in Nat /\ FailureCap >= 1
  BY CapsAssumption
<1>1. ASSUME NEW c \in Callers, Enter(c) PROVE TypeOK'
  BY <1>1 DEF TypeOK, Enter, Goto, breaker
<1>2. ASSUME NEW c \in Callers, FinishBypass(c) PROVE TypeOK'
  BY <1>2 DEF TypeOK, FinishBypass, Goto, breaker
<1>3. ASSUME NEW c \in Callers, AllowRequest(c) PROVE TypeOK'
  <2>1. CASE AllowClosed(c)
    BY <2>1 DEF TypeOK, AllowClosed, Goto, breaker
  <2>2. CASE AllowOpen(c)
    BY <2>2, <1>0 DEF TypeOK, AllowOpen, Goto
  <2>3. CASE RejectOpen(c)
    BY <2>3 DEF TypeOK, RejectOpen, Goto, breaker
  <2>4. CASE ExpireHalfOpen(c)
    BY <2>4, <1>0 DEF TypeOK, ExpireHalfOpen, Goto
  <2>5. CASE AllowHalfOpen(c)
    BY <2>5 DEF TypeOK, AllowHalfOpen, Goto
  <2>6. CASE RejectHalfOpen(c)
    BY <2>6 DEF TypeOK, RejectHalfOpen, Goto, breaker
  <2> QED
    BY <1>3, <2>1, <2>2, <2>3, <2>4, <2>5, <2>6 DEF AllowRequest
<1>4. ASSUME NEW c \in Callers, NEW o \in Outcomes, RecordResult(c, o) PROVE TypeOK'
  <2>1. /\ cfg' \in Configs
        /\ pc' \in [Callers -> {"idle", "admission", "bypass", "calling"}]
        /\ concurrentRequests' \in Nat
    BY <1>4 DEF TypeOK, RecordResult, Goto, ReleasedSlots
  <2>2. CASE IsFailure(o)
    <3>1. RecordFailure(c)
      BY <1>4, <2>2 DEF RecordResult
    <3>2. Saturate(failures + 1, FailureCap) \in 0..FailureCap
      BY <1>0, SaturateType DEF TypeOK
    <3> QED
      BY <2>1, <3>1, <3>2, <1>0 DEF TypeOK, RecordFailure, Leave
  <2>3. CASE ~IsFailure(o)
    <3>1. RecordSuccess(c)
      BY <1>4, <2>3 DEF RecordResult
    <3> QED
      BY <2>1, <3>1, <1>0 DEF TypeOK, RecordSuccess, Leave
  <2> QED
    BY <2>2, <2>3
<1>5. ASSUME Reset PROVE TypeOK'
  BY <1>5, ToClosedType DEF Reset, TypeOK
<1>6. ASSUME NEW k \in Configs, UpdateConfig(k) PROVE TypeOK'
  <2>1. cfg' \in Configs /\ pc' = pc
    BY <1>6 DEF UpdateConfig
  <2>2. CASE ToClosed
    BY <2>1, <2>2, ToClosedType
  <2>3. CASE UNCHANGED <<breaker, probes, slots>>
    BY <2>1, <2>3 DEF TypeOK, breaker
  <2> QED
    BY <1>6, <2>2, <2>3 DEF UpdateConfig
<1>7. ASSUME Tick PROVE TypeOK'
  <2>1. sinceFailure + 1 \in Nat /\ sinceChange + 1 \in Nat
    BY <1>0 DEF TypeOK
  <2>2. /\ Saturate(sinceFailure + 1, AgeCap) \in 0..AgeCap
        /\ Saturate(sinceChange + 1, AgeCap) \in 0..AgeCap
    BY <2>1, <1>0, SaturateType
  <2> QED
    BY <1>7, <2>2 DEF TypeOK, Tick
<1>8. ASSUME UNCHANGED vars PROVE TypeOK'
  BY <1>8 DEF TypeOK, vars, breaker
<1> QED
  BY <1>1, <1>2, <1>3, <1>4, <1>5, <1>6, <1>7, <1>8 DEF Next, Step

\* Every variable keeps its type: counters never go below zero, in particular
\* concurrentRequests, whatever results arrive late.
THEOREM TypeCorrect == Spec => []TypeOK
  BY InitTypeOK, StepTypeOK, PTL DEF Spec

-----------------------------------------------------------------------------
(* An Open breaker waits a whole recovery timeout *)

LEMMA SaturateMonotone ==
  ASSUME NEW m \in Nat, NEW n \in Nat, NEW cap \in Nat, m <= n
  PROVE  Saturate(m, cap) <= Saturate(n, cap)
  BY DEF Saturate

LEMMA StepOpenIsFresh == TypeOK /\ OpenIsFresh /\ [Next]_vars => OpenIsFresh'
<1> SUFFICES ASSUME TypeOK, OpenIsFresh, [Next]_vars, state' = Open
             PROVE  sinceFailure' <= sinceChange'
  BY DEF OpenIsFresh
<1>0. /\ AgeCap \in Nat
      /\ sinceFailure \in Nat /\ sinceChange \in Nat
      /\ state = Open => sinceFailure <= sinceChange
  BY CapsAssumption DEF TypeOK, OpenIsFresh
<1>1. ASSUME UNCHANGED breaker PROVE sinceFailure' <= sinceChange'
  BY <1>0, <1>1 DEF breaker
<1>2. ASSUME NEW c \in Callers, Step(c) PROVE sinceFailure' <= sinceChange'
  <2>1. CASE Enter(c) \/ FinishBypass(c)
    BY <2>1, <1>1 DEF Enter, FinishBypass
  <2>2. CASE AllowRequest(c)
    <3>1. CASE AllowClosed(c) \/ RejectOpen(c) \/ RejectHalfOpen(c)
      BY <3>1, <1>1 DEF AllowClosed, RejectOpen, RejectHalfOpen
    <3>2. CASE AllowOpen(c) \/ AllowHalfOpen(c)
      BY <3>2 DEF AllowOpen, AllowHalfOpen
    <3>3. CASE ExpireHalfOpen(c)
      BY <3>3 DEF ExpireHalfOpen
    <3> QED
      BY <2>2, <3>1, <3>2, <3>3 DEF AllowRequest
  <2> QED
    BY <1>2, <2>1, <2>2 DEF Step
<1>3. ASSUME NEW c \in Callers, NEW o \in Outcomes, RecordResult(c, o)
      PROVE  sinceFailure' <= sinceChange'
  <2>1. CASE RecordFailure(c)
    BY <2>1, <1>0 DEF RecordFailure
  <2>2. CASE RecordSuccess(c)
    BY <2>2, <1>0 DEF RecordSuccess
  <2> QED
    BY <1>3, <2>1, <2>2 DEF RecordResult
<1>4. ASSUME Reset PROVE sinceFailure' <= sinceChange'
  BY <1>4 DEF Reset, ToClosed
<1>5. ASSUME NEW k \in Configs, UpdateConfig(k) PROVE sinceFailure' <= sinceChange'
  BY <1>5, <1>1 DEF UpdateConfig, ToClosed
<1>6. ASSUME Tick PROVE sinceFailure' <= sinceChange'
  <2>1. state = Open
    BY <1>6 DEF Tick
  <2>2. sinceFailure + 1 <= sinceChange + 1
    BY <2>1, <1>0
  <2>3. Saturate(sinceFailure + 1, AgeCap) <= Saturate(sinceChange + 1, AgeCap)
    BY <2>2, <1>0, SaturateMonotone
  <2> QED
    BY <1>6, <2>3 DEF Tick
<1> QED
  BY <1>1, <1>2, <1>3, <1>4, <1>5, <1>6 DEF Next, vars

\* The last failure of an Open breaker is no older than its opening.
THEOREM OpenFresh == Spec => []OpenIsFresh
<1>1. Init => OpenIsFresh
  BY DEF Init, OpenIsFresh
<1> QED
  BY <1>1, TypeCorrect, StepOpenIsFresh, PTL DEF Spec

\* Hence a half-open window starts only a whole recovery timeout, that of the
\* configuration then in force, after the breaker opened.
THEOREM RecoveryIsWaitedOut == Spec => WaitsOutRecovery
<1>1. TypeOK /\ OpenIsFresh /\ [Next]_vars
      => [state = Open /\ state' = HalfOpen => sinceChange >= cfg.recoveryTimeout]_vars
  <2> SUFFICES ASSUME TypeOK, OpenIsFresh, [Next]_vars, state = Open, state' = HalfOpen
               PROVE  sinceChange >= cfg.recoveryTimeout
    OBVIOUS
  <2>1. /\ cfg.recoveryTimeout \in Nat
        /\ sinceFailure \in Nat /\ sinceChange \in Nat /\ AgeCap \in Nat
        /\ sinceFailure <= sinceChange
    BY ConfigFacts DEF TypeOK, OpenIsFresh
  <2>2. PICK c \in Callers : AllowRequest(c)
    <3>1. ASSUME NEW c \in Callers, NEW o \in Outcomes, RecordResult(c, o) PROVE FALSE
      BY <3>1 DEF RecordResult, RecordFailure, RecordSuccess
    <3>2. ~Reset /\ ~Tick /\ ~(\E k \in Configs : UpdateConfig(k))
      BY DEF Reset, ToClosed, Tick, UpdateConfig, breaker
    <3>3. \A c \in Callers : ~Enter(c) /\ ~FinishBypass(c)
      BY DEF Enter, FinishBypass, breaker
    <3>4. ~UNCHANGED vars
      BY DEF vars, breaker
    <3> QED
      BY <3>1, <3>2, <3>3, <3>4 DEF Next, Step
  <2>3. AllowOpen(c)
    BY <2>2 DEF AllowRequest, AllowClosed, RejectOpen, ExpireHalfOpen, AllowHalfOpen,
                RejectHalfOpen, breaker
  <2> QED
    BY <2>1, <2>3 DEF AllowOpen
<1> QED
  BY <1>1, TypeCorrect, OpenFresh, PTL DEF Spec, WaitsOutRecovery

-----------------------------------------------------------------------------
(* The failures a Closed breaker may carry *)

LEMMA StepBelowThreshold ==
  TypeOK /\ ClosedBelowThreshold /\ [Next]_vars => ClosedBelowThreshold'
<1> SUFFICES ASSUME TypeOK, ClosedBelowThreshold, [Next]_vars, state' = Closed
             PROVE  failures' = 0 \/ \E k \in Configs : failures' < k.failureThreshold
  BY DEF ClosedBelowThreshold
<1> DEFINE Goal == failures' = 0 \/ \E k \in Configs : failures' < k.failureThreshold
<1>1. ASSUME state = Closed, failures' = failures PROVE Goal
  BY <1>1 DEF ClosedBelowThreshold
<1>2. ASSUME NEW c \in Callers, Step(c) PROVE Goal
  BY <1>2, <1>1 DEF Step, Enter, FinishBypass, AllowRequest, AllowClosed, AllowOpen,
     RejectOpen, ExpireHalfOpen, AllowHalfOpen, RejectHalfOpen, breaker
<1>3. ASSUME NEW c \in Callers, NEW o \in Outcomes, RecordResult(c, o) PROVE Goal
  <2>1. CASE RecordFailure(c)
    <3>1. state = Closed /\ failures' = Saturate(failures + 1, FailureCap)
      BY <2>1 DEF RecordFailure, TypeOK
    <3>2. ~(failures' >= cfg.failureThreshold)
      BY <2>1, <3>1 DEF RecordFailure
    <3>3. failures' \in Nat
      BY <3>1, SaturateType, CapsAssumption DEF TypeOK
    <3>4. cfg \in Configs /\ cfg.failureThreshold \in Nat
      BY ConfigFacts DEF TypeOK
    <3> QED
      BY <3>2, <3>3, <3>4
  <2>2. CASE RecordSuccess(c)
    BY <2>2 DEF RecordSuccess
  <2> QED
    BY <1>3, <2>1, <2>2 DEF RecordResult
<1>4. ASSUME Reset \/ (\E k \in Configs : UpdateConfig(k)) \/ Tick \/ UNCHANGED vars
      PROVE  Goal
  BY <1>4, <1>1 DEF Reset, ToClosed, UpdateConfig, Tick, vars, breaker
<1> QED
  BY <1>2, <1>3, <1>4 DEF Next

\* A Closed breaker is always short of some threshold it may be held to; with a
\* single configuration, of its threshold.
THEOREM BelowThreshold == Spec => []ClosedBelowThreshold
<1>1. Init => ClosedBelowThreshold
  BY DEF Init, ClosedBelowThreshold
<1> QED
  BY <1>1, TypeCorrect, StepBelowThreshold, PTL DEF Spec

-----------------------------------------------------------------------------
(* The slots of a half-open window *)

\* The strengthening: slots names running calls only, and covers the counter.
SlotInv ==
  /\ slots \subseteq Running
  /\ state = HalfOpen => concurrentRequests <= Cardinality(slots)

LEMMA FiniteSlots == ASSUME TypeOK
                     PROVE  IsFiniteSet(slots) /\ Cardinality(slots) \in Nat
  BY CallersAssumption, FS_Subset, FS_CardinalityType DEF TypeOK

LEMMA StepSlotInv == TypeOK /\ SlotInv /\ [Next]_vars => SlotInv'
<1> SUFFICES ASSUME TypeOK, SlotInv, [Next]_vars PROVE SlotInv'
  OBVIOUS
<1>0. /\ IsFiniteSet(slots) /\ Cardinality(slots) \in Nat
      /\ concurrentRequests \in Nat
  BY FiniteSlots DEF TypeOK
<1>1. Cardinality({}) = 0
  BY FS_EmptySet
<1>2. ASSUME NEW c \in Callers, pc[c] # "calling",
             UNCHANGED <<state, concurrentRequests, slots>>,
             \E l : pc' = [pc EXCEPT ![c] = l]
      PROVE  SlotInv'
  BY <1>2 DEF SlotInv, Running, TypeOK
<1>3. ASSUME NEW c \in Callers, Step(c) PROVE SlotInv'
  <2>1. CASE Enter(c)
    BY <1>2, <2>1 DEF Enter, Goto, breaker
  <2>2. CASE FinishBypass(c)
    BY <1>2, <2>2 DEF FinishBypass, Goto, breaker
  <2>3. CASE pc[c] = "admission" /\ (AllowClosed(c) \/ RejectOpen(c) \/ RejectHalfOpen(c))
    BY <1>2, <2>3 DEF AllowClosed, RejectOpen, RejectHalfOpen, Goto, breaker
  <2>4. CASE AllowOpen(c)
    BY <1>1, <2>4 DEF AllowOpen, SlotInv
  <2>5. CASE ExpireHalfOpen(c)
    BY <2>5 DEF ExpireHalfOpen, SlotInv
  <2>6. CASE pc[c] = "admission" /\ AllowHalfOpen(c)
    <3>1. c \notin slots
      BY <2>6 DEF SlotInv, Running
    <3>2. Cardinality(slots \cup {c}) = Cardinality(slots) + 1
      BY <3>1, <1>0, FS_AddElement
    <3>3. (slots \cup {c}) \subseteq {d \in Callers : pc'[d] = "calling"}
      BY <2>6 DEF AllowHalfOpen, Goto, SlotInv, Running, TypeOK
    <3>4. concurrentRequests + 1 <= Cardinality(slots) + 1
      BY <2>6, <1>0 DEF AllowHalfOpen, SlotInv
    <3> QED
      BY <2>6, <3>2, <3>3, <3>4 DEF AllowHalfOpen, SlotInv, Running
  <2> QED
    BY <1>3, <2>1, <2>2, <2>3, <2>4, <2>5, <2>6 DEF Step, AllowRequest
<1>4. ASSUME NEW c \in Callers, NEW o \in Outcomes, RecordResult(c, o) PROVE SlotInv'
  <2>1. state' = HalfOpen => state = HalfOpen
    BY <1>4 DEF RecordResult, RecordFailure, RecordSuccess
  <2>2. Leave(c, state') /\ concurrentRequests' = ReleasedSlots
    BY <1>4 DEF RecordResult, RecordFailure, RecordSuccess
  <2>3. slots' \subseteq Running'
    BY <1>4, <2>2 DEF RecordResult, Goto, Leave, SlotInv, Running, TypeOK
  <2>4. ASSUME state' = HalfOpen PROVE concurrentRequests' <= Cardinality(slots')
    <3>1. slots' = slots \ {c}
      BY <2>2, <2>4 DEF Leave
    <3>2. concurrentRequests <= Cardinality(slots)
      BY <2>1, <2>4 DEF SlotInv
    <3>3. concurrentRequests' = IF concurrentRequests > 0 THEN concurrentRequests - 1
                                                          ELSE concurrentRequests
      BY <2>1, <2>2, <2>4 DEF ReleasedSlots
    <3>4. CASE c \in slots
      <4>1. Cardinality(slots \ {c}) = Cardinality(slots) - 1
        BY <3>4, <1>0, FS_RemoveElement
      <4>2. Cardinality(slots \ {c}) \in Nat
        BY <1>0, FS_Subset, FS_CardinalityType
      <4> QED
        BY <4>1, <4>2, <3>1, <3>2, <3>3, <1>0
    <3>5. CASE c \notin slots
      <4>1. slots \ {c} = slots
        BY <3>5
      <4> QED
        BY <4>1, <3>1, <3>2, <3>3, <1>0
    <3> QED
      BY <3>4, <3>5
  <2> QED
    BY <2>3, <2>4 DEF SlotInv
<1>5. ASSUME Reset \/ \E k \in Configs : UpdateConfig(k) PROVE SlotInv'
  BY <1>5 DEF Reset, ToClosed, UpdateConfig, SlotInv, Running, breaker
<1>6. ASSUME Tick \/ UNCHANGED vars PROVE SlotInv'
  BY <1>6 DEF Tick, vars, breaker, SlotInv, Running
<1> QED
  BY <1>3, <1>4, <1>5, <1>6 DEF Next

\* Every slot that is taken belongs to a probe of this window still in flight.
THEOREM SlotsAccounted == Spec => []NoSlotLeaks
<1>1. Init => SlotInv
  BY DEF Init, SlotInv
<1>2. SlotInv => NoSlotLeaks
  <2>1. slots \subseteq Running => slots \cap Running = slots
    OBVIOUS
  <2> QED
    BY <2>1 DEF SlotInv, NoSlotLeaks
<1> QED
  BY <1>1, <1>2, TypeCorrect, StepSlotInv, PTL DEF Spec

=============================================================================
