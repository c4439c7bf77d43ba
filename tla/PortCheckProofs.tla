--------------------------- MODULE PortCheckProofs ---------------------------
(***************************************************************************)
(* Proofs about PortCheck for every set of checks and addresses and all    *)
(* windows and timeouts: types, and that a cached verdict was true within  *)
(* the age it claims.                                                      *)
(***************************************************************************)
EXTENDS PortCheck, TLAPS

USE DEF Verdicts, PortStates

LEMMA OlderBounded == ASSUME NEW n \in 0..AgeCap PROVE Older(n) \in 0..AgeCap
  BY PortCheckAssumption DEF Older

-----------------------------------------------------------------------------
(* Type correctness *)

LEMMA InitTypeOK == Init => TypeOK
<1> SUFFICES ASSUME Init PROVE TypeOK
  OBVIOUS
<1>1. 0 \in 0..AgeCap /\ AgeCap \in 0..AgeCap
  BY PortCheckAssumption
<1>2. port \in [Addrs -> PortStates]
  BY DEF Init
<1>3. sinceUp \in [Addrs -> 0..AgeCap] /\ sinceDown \in [Addrs -> 0..AgeCap]
  BY <1>1 DEF Init
<1>4. pc = [c \in Checkers |-> "idle"] /\ began \in [Checkers -> 0..AgeCap]
      /\ found \in [Checkers -> Verdicts]
  BY <1>1 DEF Init
<1> QED
  BY <1>2, <1>3, <1>4 DEF Init, TypeOK

LEMMA TickTypeOK == TypeOK /\ Tick => TypeOK'
<1> SUFFICES ASSUME TypeOK, Tick PROVE TypeOK'
  OBVIOUS
<1>1. 0 \in 0..AgeCap
  BY PortCheckAssumption
<1>2. sinceUp' \in [Addrs -> 0..AgeCap] /\ sinceDown' \in [Addrs -> 0..AgeCap]
  BY <1>1, OlderBounded DEF TypeOK, Tick
<1>3. began' \in [Checkers -> 0..AgeCap]
  BY <1>1, OlderBounded DEF TypeOK, Tick
<1>4. cache' = NoVerdict \/ cache' \in [verdict : Verdicts, age : 0..AgeCap, of : Addrs]
  <2>1. CASE cache = NoVerdict
    BY <2>1, PortCheckAssumption DEF Tick, NoVerdict, Older
  <2>2. CASE cache \in [verdict : Verdicts, age : 0..AgeCap, of : Addrs]
    <3>1. Older(cache.age) \in 0..AgeCap
      BY <2>2, OlderBounded
    <3> QED
      BY <2>2, <3>1 DEF Tick
  <2> QED
    BY <2>1, <2>2 DEF TypeOK
<1>5. \A c \in Checkers : pc'[c] = "dial" => began'[c] <= DialTimeout
  BY PortCheckAssumption DEF TypeOK, Tick, TimedOut, Older
<1> QED
  BY <1>2, <1>3, <1>4, <1>5 DEF TypeOK, Tick

LEMMA StepTypeOK == TypeOK /\ [Next]_vars => TypeOK'
<1> SUFFICES ASSUME TypeOK, [Next]_vars PROVE TypeOK'
  OBVIOUS
<1>0. 0 \in 0..AgeCap /\ 0 <= DialTimeout
  BY PortCheckAssumption
<1>1. ASSUME NEW c \in Checkers, CheckHealth(c) \/ Look(c) PROVE TypeOK'
  BY <1>0, <1>1 DEF TypeOK, CheckHealth, Look, Goto, env
<1>2. ASSUME NEW c \in Checkers, DialEnds(c) PROVE TypeOK'
  BY <1>2 DEF TypeOK, DialEnds, Goto, env
<1>3. ASSUME NEW c \in Checkers, Store(c) PROVE TypeOK'
  BY <1>0, <1>3 DEF TypeOK, Store, Goto, env
<1>4. ASSUME NEW a \in Addrs, Configure(a) PROVE TypeOK'
  BY <1>4 DEF TypeOK, Configure, env
<1>5. CASE ConfigureLock
  BY <1>5 DEF TypeOK, ConfigureLock, env
<1>6. ASSUME NEW a \in Changing, NEW p \in PortStates, PortChanges(a, p) PROVE TypeOK'
  BY <1>0, <1>6, PortCheckAssumption DEF TypeOK, PortChanges
<1>7. CASE Tick
  BY <1>7, TickTypeOK
<1>8. CASE UNCHANGED vars
  BY <1>8 DEF TypeOK, vars, env
<1> QED
  BY <1>1, <1>2, <1>3, <1>4, <1>5, <1>6, <1>7, <1>8 DEF Next, Step

\* Every state is well typed; no dial outlasts its timeout.
THEOREM TypeCorrect == Spec => []TypeOK
  BY InitTypeOK, StepTypeOK, PTL DEF Spec

-----------------------------------------------------------------------------
(* Cached verdicts.  An address that has a listener was up just now, and a *)
(* verdict on its way to the cache was true since its check began; as long *)
(* as the check runs, confMu keeps the address what it is.                 *)

AgesAgree == \A a \in Addrs : IF port[a] = "listening" THEN sinceUp[a] = 0 ELSE sinceDown[a] = 0

FoundTrue == \A c \in Checkers : pc[c] = "store" =>
                /\ found[c] = "up"   => sinceUp[addr] <= began[c]
                /\ found[c] = "down" => sinceDown[addr] <= began[c]

CacheInv == AgesAgree /\ FoundTrue /\ CachedTrue

LEMMA StepAgesAgree == TypeOK /\ AgesAgree /\ [Next]_vars => AgesAgree'
<1> SUFFICES ASSUME TypeOK, AgesAgree, [Next]_vars PROVE AgesAgree'
  OBVIOUS
<1>1. CASE UNCHANGED env
  BY <1>1 DEF AgesAgree, env
<1>2. ASSUME NEW a \in Changing, NEW p \in PortStates, PortChanges(a, p) PROVE AgesAgree'
  BY <1>2, PortCheckAssumption DEF TypeOK, AgesAgree, PortChanges
<1>3. CASE Tick
  BY <1>3 DEF TypeOK, AgesAgree, Tick
<1> QED
  BY <1>1, <1>2, <1>3 DEF Next, Step, CheckHealth, Look, DialEnds, Store, Configure,
     ConfigureLock, vars

LEMMA TickCacheInv == TypeOK /\ CacheInv /\ Tick => FoundTrue' /\ CachedTrue'
<1> SUFFICES ASSUME TypeOK, CacheInv, Tick PROVE FoundTrue' /\ CachedTrue'
  OBVIOUS
<1>1. \A a \in Addrs : /\ sinceUp'[a] <= Older(sinceUp[a])
                       /\ sinceDown'[a] <= Older(sinceDown[a])
  BY PortCheckAssumption DEF TypeOK, Tick, Older
<1>2. \A a \in Addrs : sinceUp'[a] \in Nat /\ sinceDown'[a] \in Nat
  BY TickTypeOK DEF TypeOK
<1>3. FoundTrue'
  <2> SUFFICES ASSUME NEW c \in Checkers, pc[c] = "store"
               PROVE  /\ found[c] = "up"   => sinceUp'[addr] <= Older(began[c])
                      /\ found[c] = "down" => sinceDown'[addr] <= Older(began[c])
    BY DEF FoundTrue, Tick, TypeOK
  <2>1. addr \in Addrs /\ began[c] \in 0..AgeCap
        /\ sinceUp[addr] \in 0..AgeCap /\ sinceDown[addr] \in 0..AgeCap
    BY DEF TypeOK
  <2> QED
    BY <1>1, <1>2, <2>1, PortCheckAssumption DEF CacheInv, FoundTrue, Older
<1>4. CachedTrue'
  <2>1. CASE cache = NoVerdict
    BY <2>1 DEF Tick, CachedTrue, NoVerdict
  <2>2. CASE cache \in [verdict : Verdicts, age : 0..AgeCap, of : Addrs]
    <3>1. cache' = [cache EXCEPT !.age = Older(cache.age)]
      BY DEF Tick
    <3>2. cache'.verdict = cache.verdict /\ cache'.of = cache.of /\ cache'.age = Older(cache.age)
      BY <2>2, <3>1
    <3>3. cache.of \in Addrs /\ cache.age \in 0..AgeCap
          /\ sinceUp[cache.of] \in 0..AgeCap /\ sinceDown[cache.of] \in 0..AgeCap
      BY <2>2 DEF TypeOK
    <3> QED
      BY <1>1, <1>2, <3>2, <3>3, PortCheckAssumption DEF CacheInv, CachedTrue, Older
  <2> QED
    BY <2>1, <2>2 DEF TypeOK
<1> QED
  BY <1>3, <1>4

LEMMA StepCacheInv == TypeOK /\ CacheInv /\ [Next]_vars => CacheInv'
<1> SUFFICES ASSUME TypeOK, CacheInv, [Next]_vars PROVE FoundTrue' /\ CachedTrue'
  BY StepAgesAgree DEF CacheInv
<1> USE DEF CacheInv
<1>1. ASSUME NEW c \in Checkers, CheckHealth(c) \/ Look(c) PROVE FoundTrue' /\ CachedTrue'
  BY <1>1 DEF TypeOK, FoundTrue, CachedTrue, CheckHealth, Look, Goto, env
<1>2. ASSUME NEW c \in Checkers, DialEnds(c) PROVE FoundTrue' /\ CachedTrue'
  <2>1. PICK v \in Verdicts : Meets(c, v) /\ found' = [found EXCEPT ![c] = v]
    BY <1>2 DEF DialEnds
  <2>2. FoundTrue'
    <3>1. v = "up" => sinceUp[addr] <= began[c]
      BY <2>1 DEF Meets, TypeOK, AgesAgree
    <3>2. v = "down" => sinceDown[addr] <= began[c]
      BY <2>1 DEF Meets, TypeOK, AgesAgree
    <3> QED
      BY <1>2, <2>1, <3>1, <3>2 DEF TypeOK, FoundTrue, DialEnds, Goto, env
  <2>3. CachedTrue'
    BY <1>2 DEF CachedTrue, DialEnds, env
  <2> QED
    BY <2>2, <2>3
<1>3. ASSUME NEW c \in Checkers, Store(c) PROVE FoundTrue' /\ CachedTrue'
  <2>1. FoundTrue'
    BY <1>3 DEF TypeOK, FoundTrue, Store, Goto, env
  <2>2. CachedTrue'
    BY <1>3 DEF TypeOK, FoundTrue, CachedTrue, Store, env
  <2> QED
    BY <2>1, <2>2
<1>4. ASSUME NEW a \in Addrs, Configure(a) PROVE FoundTrue' /\ CachedTrue'
  BY <1>4 DEF TypeOK, FoundTrue, CachedTrue, Configure, Readers, env
<1>5. CASE ConfigureLock
  BY <1>5 DEF FoundTrue, CachedTrue, ConfigureLock, env
<1>6. ASSUME NEW a \in Changing, NEW p \in PortStates, PortChanges(a, p)
      PROVE  FoundTrue' /\ CachedTrue'
  <2>1. \A b \in Addrs : sinceUp'[b] <= sinceUp[b] /\ sinceDown'[b] <= sinceDown[b]
                         /\ sinceUp'[b] \in Nat /\ sinceDown'[b] \in Nat
    BY <1>6, PortCheckAssumption DEF TypeOK, PortChanges
  <2>2. FoundTrue'
    BY <1>6, <2>1 DEF TypeOK, FoundTrue, PortChanges
  <2>3. CachedTrue'
    <3>1. CASE cache = NoVerdict
      BY <1>6, <3>1 DEF PortChanges, CachedTrue, NoVerdict
    <3>2. CASE cache \in [verdict : Verdicts, age : 0..AgeCap, of : Addrs]
      BY <1>6, <2>1, <3>2 DEF TypeOK, CachedTrue, PortChanges
    <3> QED
      BY <3>1, <3>2 DEF TypeOK
  <2> QED
    BY <2>2, <2>3
<1>7. CASE Tick
  BY <1>7, TickCacheInv
<1>8. CASE UNCHANGED vars
  BY <1>8 DEF FoundTrue, CachedTrue, vars, env
<1> QED
  BY <1>1, <1>2, <1>3, <1>4, <1>5, <1>6, <1>7, <1>8 DEF Next, Step

\* What the cache holds was true of its address within the age the cache gives it,
\* with any number of overlapping checks and however long their dials take.
THEOREM CachedVerdictsTrue == Spec => []CachedTrue
<1>1. Init => CacheInv
  BY DEF Init, CacheInv, AgesAgree, FoundTrue, CachedTrue, NoVerdict
<1>2. CacheInv => CachedTrue
  BY DEF CacheInv
<1> QED
  BY <1>1, <1>2, TypeCorrect, StepCacheInv, PTL DEF Spec
=============================================================================
