-------------------------- MODULE RetryChainProofs --------------------------
(***************************************************************************)
(* Proofs about RetryChain: each of its steps is a step of the breaker or  *)
(* leaves it alone, so that what CircuitBreakerProofs proves holds under   *)
(* retries; and an RPC asks the breaker a bounded number of times.  Of     *)
(* RetryDelay, how long a retry can wait.                                  *)
(***************************************************************************)
EXTENDS RetryChain, RetryDelay, CircuitBreakerProofs

-----------------------------------------------------------------------------
(* The chain uses the breaker *)

\* A step of the chain by one caller, as a step of the breaker.
LEMMA StepUsesBreaker == ChainNext => [Next]_vars
<1> SUFFICES ASSUME ChainNext PROVE [Next]_vars
  OBVIOUS
<1>1. ASSUME NEW c \in Callers, Loop(c) PROVE [Next]_vars
  <2>1. CASE Start(c) \/ Timer(c) \/ GiveUp(c)
    BY <2>1 DEF Start, Timer, GiveUp
  <2>2. CASE Attempt(c)
    BY <2>2 DEF Attempt, Next, Step
  <2>3. CASE Admit(c)
    BY <2>3 DEF Admit, Next, Step
  <2> QED
    BY <1>1, <2>1, <2>2, <2>3 DEF Loop
<1>2. ASSUME NEW c \in Callers, Expire(c) PROVE [Next]_vars
  BY <1>2 DEF Expire
<1>3. ASSUME NEW c \in Callers, NEW o \in Outcomes, Finish(c, o) PROVE [Next]_vars
  BY <1>3 DEF Finish, Next, Step
<1>4. CASE Reset \/ (\E k \in Configs : UpdateConfig(k)) \/ Tick
  BY <1>4 DEF Next
<1> QED
  BY <1>1, <1>2, <1>3, <1>4 DEF ChainNext

\* The chain of client_interceptors.go implements the use of a breaker that
\* circuit_breaker.go is written for: one Execute at a time for each caller, with
\* resets, new configurations and time at any point.
THEOREM ChainUsesBreaker == ChainSpec => UsesBreaker
<1>1. ChainInit => Init
  BY DEF ChainInit
<1>2. [ChainNext]_chainVars => [Next]_vars
  BY StepUsesBreaker DEF chainVars
<1> QED
  BY <1>1, <1>2, PTL DEF ChainSpec, UsesBreaker, Spec

\* So an RPC that is retried leaks no slot of the probe window, and the window opens
\* only after the recovery timeout (circuit_breaker.go:145-212).
THEOREM ChainKeepsBreaker == ChainSpec => []NoSlotLeaks /\ WaitsOutRecovery
<1> QED
  BY ChainUsesBreaker, SlotsAccounted, RecoveryIsWaitedOut, PTL DEF UsesBreaker

-----------------------------------------------------------------------------
(* How often the breaker is asked *)

\* The loop's variable counts the attempts that have ended.  An attempt has asked
\* the breaker as soon as it is past the entry of Execute.
RpcOK(c) ==
    /\ rpc[c].attempt <= MaxRetries[c]
    /\ rpc[c].asked <= rpc[c].attempt + 1
    /\ In(c, "idle") => rpc[c] = NoRpc
    /\ In(c, "attempt") /\ pc[c] = "idle" => rpc[c].asked <= rpc[c].attempt
    /\ In(c, "backoff") => rpc[c].attempt < MaxRetries[c]

ChainInv == /\ ChainTypeOK
            /\ pc \in [Callers -> {"idle", "admission", "bypass", "calling"}]
            /\ \A c \in Callers : RpcOK(c)

LEMMA InitChainInv == ChainInit => ChainInv
  BY MaxRetriesAssumption
  DEF ChainInit, Init, ChainInv, ChainTypeOK, RpcOK, In, NoRpc

LEMMA StepChainInv == ChainInv /\ [ChainNext]_chainVars => ChainInv'
<1> SUFFICES ASSUME ChainInv, [ChainNext]_chainVars PROVE ChainInv'
  OBVIOUS
<1> USE MaxRetriesAssumption
<1>1. ASSUME NEW c \in Callers, Start(c) PROVE ChainInv'
  BY <1>1 DEF ChainInv, ChainTypeOK, RpcOK, In, Start, NoRpc, vars
<1>2. ASSUME NEW c \in Callers, Attempt(c) PROVE ChainInv'
  <2> DEFINE entered == IF cfg.enabled THEN "admission" ELSE "bypass"
             n == Saturate(rpc[c].asked + 1, MaxRetries[c] + 2)
  <2>1. entered \in {"admission", "bypass"}
    OBVIOUS
  <2>2. pc[c] = "idle" /\ In(c, "attempt") /\ pc' = [pc EXCEPT ![c] = entered]
    BY <1>2 DEF Attempt, Enter, Goto
  <2>3. n \in Nat /\ n <= rpc[c].attempt + 1
    BY <2>2 DEF ChainInv, ChainTypeOK, RpcOK, Saturate
  <2>4. rpc' = [rpc EXCEPT ![c].asked = n]
    BY <1>2 DEF Attempt
  <2> HIDE DEF entered, n
  <2> QED
    BY <2>1, <2>2, <2>3, <2>4 DEF ChainInv, ChainTypeOK, RpcOK, In, NoRpc
<1>3. ASSUME NEW c \in Callers, Admit(c) PROVE ChainInv'
  <2>1. pc[c] = "admission" /\ (Goto(c, "calling") \/ Goto(c, "idle"))
    BY <1>3 DEF Admit, AllowRequest, AllowClosed, AllowOpen, RejectOpen, ExpireHalfOpen,
                AllowHalfOpen, RejectHalfOpen
  <2>2. CASE Goto(c, "calling")
    <3>1. UNCHANGED rpc
      BY <1>3, <2>2 DEF Admit, Goto, ChainInv
    <3> QED
      BY <2>1, <2>2, <3>1 DEF ChainInv, ChainTypeOK, RpcOK, In, Goto
  <2>3. CASE Goto(c, "idle")
    <3>1. Return(c)
      BY <1>3, <2>3 DEF Admit, Goto, ChainInv
    <3> QED
      BY <2>3, <3>1 DEF ChainInv, ChainTypeOK, RpcOK, In, Goto, Return, NoRpc
  <2> QED
    BY <2>1, <2>2, <2>3
<1>4. ASSUME NEW c \in Callers, Timer(c) PROVE ChainInv'
  BY <1>4 DEF ChainInv, ChainTypeOK, RpcOK, In, Timer, NoRpc, vars
<1>5. ASSUME NEW c \in Callers, GiveUp(c) PROVE ChainInv'
  BY <1>5 DEF ChainInv, ChainTypeOK, RpcOK, In, GiveUp, Return, NoRpc, vars
<1>6. ASSUME NEW c \in Callers, Expire(c) PROVE ChainInv'
  BY <1>6 DEF ChainInv, ChainTypeOK, RpcOK, In, Expire, NoRpc, vars
<1>7. ASSUME NEW c \in Callers, NEW o \in Outcomes, Finish(c, o) PROVE ChainInv'
  <2>1. Goto(c, "idle") /\ In(c, "attempt")
    BY <1>7 DEF Finish, RecordResult, FinishBypass, ChainInv, ChainTypeOK
  <2>2. CASE rpc[c].attempt < MaxRetries[c] /\ rpc' = [rpc EXCEPT ![c].phase = "backoff"]
    BY <2>1, <2>2 DEF ChainInv, ChainTypeOK, RpcOK, In, Goto, NoRpc
  <2>3. CASE Return(c)
    BY <2>1, <2>3 DEF ChainInv, ChainTypeOK, RpcOK, In, Goto, Return, NoRpc
  <2> QED
    BY <1>7, <2>2, <2>3 DEF Finish, Verdict
<1>8. CASE (Reset \/ (\E k \in Configs : UpdateConfig(k)) \/ Tick) /\ UNCHANGED rpc
  <2>1. UNCHANGED pc
    BY <1>8 DEF Reset, UpdateConfig, Tick
  <2> QED
    BY <1>8, <2>1 DEF ChainInv, ChainTypeOK, RpcOK, In
<1>9. CASE UNCHANGED chainVars
  BY <1>9 DEF ChainInv, ChainTypeOK, RpcOK, In, chainVars, vars
<1> QED
  BY <1>1, <1>2, <1>3, <1>4, <1>5, <1>6, <1>7, <1>8, <1>9 DEF ChainNext, Loop

LEMMA ChainInvariant == ChainSpec => []ChainInv
  BY InitChainInv, StepChainInv, PTL DEF ChainSpec

\* The variables have their types, and a caller is inside Execute only in an attempt
\* (client_interceptors.go:150).
THEOREM ChainTypeCorrect == ChainSpec => []ChainTypeOK
<1>1. ChainInv => ChainTypeOK
  BY DEF ChainInv
<1> QED
  BY <1>1, ChainInvariant, PTL

\* No RPC asks the breaker, or reaches the server, more than MaxRetries + 1 times
\* (client_interceptors.go:146-155).
THEOREM AttemptsAreBounded == ChainSpec => []AttemptsBounded
<1>1. ChainInv => AttemptsBounded
  BY MaxRetriesAssumption DEF ChainInv, ChainTypeOK, RpcOK, AttemptsBounded
<1> QED
  BY <1>1, ChainInvariant, PTL

-----------------------------------------------------------------------------
(* How long a retry waits *)

\* The delay is the base delay or lies between zero and the maximum
\* (client.go:1091-1117).  If the product is not negative, and the maximum and a quarter of
\* it are a duration, the delay is not above the maximum: only a product beyond the range
\* of a duration brings in the base delay.
THEOREM DelayBounded ==
  ASSUME NEW raw \in Durations, NEW base \in Durations, NEW max \in Durations,
         NEW jitter \in Durations, Quarter(AtMost(raw, max), jitter)
  PROVE  LET delay == CalculateRetryDelay(raw, jitter, base, max)
         IN  /\ delay = base \/ (0 <= delay /\ delay <= max)
             /\ raw >= 0 /\ max >= 0 /\ 5 * max < 4 * HalfRange => delay <= max
  BY HalfRangeAssumption DEF CalculateRetryDelay, Quarter, AtMost, Wrap, Durations
=============================================================================
