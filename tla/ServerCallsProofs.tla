-------------------------- MODULE ServerCallsProofs --------------------------
(***************************************************************************)
(* Proofs about ServerCalls for every set of requests, every limit and     *)
(* every choice of interceptors: types, the accounting of tokens, and the  *)
(* limit itself.                                                           *)
(***************************************************************************)
EXTENDS ServerCalls, FiniteSetTheorems, TLAPS

USE DEF Labels

-----------------------------------------------------------------------------
(* Type correctness *)

LEMMA InitTypeOK == Init => TypeOK
  BY ServerAssumption DEF Init, TypeOK

LEMMA StepTypeOK == TypeOK /\ [Next]_vars => TypeOK'
<1> SUFFICES ASSUME TypeOK, [Next]_vars PROVE TypeOK'
  OBVIOUS
<1>0. /\ MaxInflight \in Nat
      /\ AtBreaker \in Labels /\ AtInflight \in Labels /\ AtLimit \in Labels
  BY ServerAssumption DEF AtBreaker, AtInflight, AtLimit
<1>1. CASE Configure
  BY <1>1 DEF TypeOK, Configure, Rebuilt
<1>2. ASSUME NEW r \in Requests, Arrive(r) \/ Expire(r) PROVE TypeOK'
  BY <1>2, <1>0 DEF TypeOK, Arrive, Expire, Goto
<1>3. ASSUME NEW r \in Requests, LimitCheck(r) \/ LimitRead(r) \/ LimitWait(r) PROVE TypeOK'
  BY <1>3, <1>0 DEF TypeOK, LimitCheck, LimitRead, LimitWait, Goto
<1>4. ASSUME NEW r \in Requests, InflightCheck(r) \/ Select(r) \/ GiveUp(r) PROVE TypeOK'
  BY <1>4, <1>0 DEF TypeOK, InflightCheck, Select, GiveUp, Goto
<1>5. ASSUME NEW r \in Requests, Send(r) PROVE TypeOK'
  BY <1>5, <1>0 DEF TypeOK, Send, Goto
<1>6. ASSUME NEW r \in Requests, BreakerCheck(r) \/ BreakerRead(r) \/ Handle(r) PROVE TypeOK'
  BY <1>6, <1>0 DEF TypeOK, BreakerCheck, BreakerRead, Handle, Goto
<1>7. ASSUME NEW r \in Requests, Unwind(r) PROVE TypeOK'
  BY <1>7, <1>0 DEF TypeOK, Unwind, Goto
<1>8. CASE UNCHANGED vars
  BY <1>8 DEF TypeOK, vars
<1> QED
  BY <1>1, <1>2, <1>3, <1>4, <1>5, <1>6, <1>7, <1>8 DEF Next, Step

\* Every state is well typed; the semaphore never holds more than its capacity.
THEOREM TypeCorrect == Spec => []TypeOK
  BY InitTypeOK, StepTypeOK, PTL DEF Spec

-----------------------------------------------------------------------------
(* Tokens.  A request takes its token when its send succeeds and keeps it  *)
(* until it has unwound: it cannot send a second time in between.          *)

HoldersPast == \A r \in holders : Past(r) \/ pc[r] = "unwind"
TokenInv == TokensAccounted /\ HoldersPast

LEMMA FiniteHolders == ASSUME TypeOK
                       PROVE  IsFiniteSet(holders) /\ Cardinality(holders) \in Nat
  BY ServerAssumption, FS_Subset, FS_CardinalityType DEF TypeOK

LEMMA StepTokenInv == TypeOK /\ TokenInv /\ [Next]_vars => TokenInv'
<1> SUFFICES ASSUME TypeOK, TokenInv, [Next]_vars PROVE TokenInv'
  OBVIOUS
<1> USE DEF TokenInv, TokensAccounted, HoldersPast, Past
<1>1. CASE Configure \/ UNCHANGED vars
  BY <1>1 DEF Configure, vars
<1>2. ASSUME NEW r \in Requests, Arrive(r) \/ Expire(r) PROVE TokenInv'
  BY <1>2 DEF TypeOK, Arrive, Expire, Goto
<1>3. ASSUME NEW r \in Requests, LimitCheck(r) \/ LimitRead(r) \/ LimitWait(r) PROVE TokenInv'
  BY <1>3 DEF TypeOK, LimitCheck, LimitRead, LimitWait, Goto
<1>4. ASSUME NEW r \in Requests, InflightCheck(r) \/ Select(r) \/ GiveUp(r) PROVE TokenInv'
  BY <1>4 DEF TypeOK, InflightCheck, Select, GiveUp, Goto
<1>5. ASSUME NEW r \in Requests, Send(r) PROVE TokenInv'
  <2>1. r \notin holders
    BY <1>5 DEF Send
  <2>2. Cardinality(holders \cup {r}) = Cardinality(holders) + 1
    BY <2>1, FiniteHolders, FS_AddElement
  <2>3. TokensAccounted'
    BY <1>5, <2>2 DEF Send
  <2>4. HoldersPast'
    BY <1>5 DEF TypeOK, Send, Goto, AtBreaker
  <2> QED
    BY <2>3, <2>4
<1>6. ASSUME NEW r \in Requests, BreakerCheck(r) \/ BreakerRead(r) \/ Handle(r) PROVE TokenInv'
  BY <1>6 DEF TypeOK, BreakerCheck, BreakerRead, Handle, Goto
<1>7. ASSUME NEW r \in Requests, Unwind(r) PROVE TokenInv'
  <2>1. CASE r \in holders
    <3>1. Cardinality(holders \ {r}) = Cardinality(holders) - 1
      BY <2>1, FiniteHolders, FS_RemoveElement
    <3>2. TokensAccounted'
      BY <1>7, <2>1, <3>1 DEF Unwind
    <3>3. HoldersPast'
      BY <1>7, <2>1 DEF TypeOK, Unwind, Goto
    <3> QED
      BY <3>2, <3>3
  <2>2. CASE r \notin holders
    BY <1>7, <2>2 DEF TypeOK, Unwind, Goto
  <2> QED
    BY <2>1, <2>2
<1> QED
  BY <1>1, <1>2, <1>3, <1>4, <1>5, <1>6, <1>7 DEF Next, Step

LEMMA TokenInvariant == Spec => []TokenInv
<1>1. Init => TokenInv
  BY FS_EmptySet DEF Init, TokenInv, TokensAccounted, HoldersPast
<1> QED
  BY <1>1, TypeCorrect, StepTokenInv, PTL DEF Spec

\* No token is lost or given back twice, whichever way requests end and whatever
\* Configure replaces meanwhile.
THEOREM TokensAlwaysAccounted == Spec => []TokensAccounted
<1>1. TokenInv => TokensAccounted
  BY DEF TokenInv
<1> QED
  BY <1>1, TokenInvariant, PTL

-----------------------------------------------------------------------------
(* The limit.  Until Configure every interceptor sees the semaphore, so    *)
(* whoever is past the in-flight limit holds one of its tokens.            *)

PastHold == opts = "startup" /\ MaxInflight > 0 => \A r \in Requests : Past(r) => r \in holders

LEMMA StepPastHold == TypeOK /\ PastHold /\ [Next]_vars => PastHold'
<1> SUFFICES ASSUME TypeOK, PastHold, [Next]_vars, opts' = "startup", MaxInflight > 0,
                    NEW q \in Requests, Past(q)'
             PROVE  q \in holders'
  BY DEF PastHold
<1>0. AtLimit \in {"limitCheck", "inflightCheck"} /\ AtInflight = "inflightCheck"
  BY DEF AtLimit, AtInflight
<1>1. opts = "startup"
  BY DEF Next, Step, Configure, Arrive, Expire, LimitCheck, LimitRead, LimitWait,
         InflightCheck, Select, Send, GiveUp, BreakerCheck, BreakerRead, Handle, Unwind, Rebuilt, vars
<1>2. Past(q) => q \in holders
  BY <1>1 DEF PastHold
<1>3. CASE UNCHANGED vars
  BY <1>2, <1>3 DEF vars, Past
<1>4. ASSUME NEW r \in Requests, Arrive(r) \/ Expire(r) PROVE q \in holders'
  BY <1>0, <1>2, <1>4 DEF TypeOK, Past, Arrive, Expire, Goto
<1>5. ASSUME NEW r \in Requests, LimitCheck(r) \/ LimitRead(r) \/ LimitWait(r)
      PROVE  q \in holders'
  BY <1>0, <1>2, <1>5 DEF TypeOK, Past, LimitCheck, LimitRead, LimitWait, Goto
<1>6. ASSUME NEW r \in Requests, InflightCheck(r) \/ Select(r) \/ GiveUp(r)
      PROVE  q \in holders'
  BY <1>1, <1>2, <1>6 DEF TypeOK, Past, InflightCheck, Select, GiveUp, Goto
<1>7. ASSUME NEW r \in Requests, Send(r) PROVE q \in holders'
  BY <1>2, <1>7 DEF TypeOK, Past, Send, Goto
<1>8. ASSUME NEW r \in Requests, BreakerCheck(r) \/ BreakerRead(r) \/ Handle(r)
      PROVE  q \in holders'
  BY <1>2, <1>8 DEF TypeOK, Past, BreakerCheck, BreakerRead, Handle, Goto
<1>9. ASSUME NEW r \in Requests, Unwind(r) PROVE q \in holders'
  BY <1>2, <1>9 DEF TypeOK, Past, Unwind, Goto
<1> QED
  BY <1>1, <1>3, <1>4, <1>5, <1>6, <1>7, <1>8, <1>9 DEF Next, Step, Configure, Rebuilt

\* Until the first Configure at most MaxInflight requests are past the limit.
THEOREM InflightLimited == Spec => []WithinMaxInflight
<1>1. Init => PastHold
  BY DEF Init, PastHold, Past
<1>2. TypeOK /\ TokenInv /\ PastHold => WithinMaxInflight
  <2> SUFFICES ASSUME TypeOK, TokenInv, PastHold, opts = "startup", MaxInflight > 0
               PROVE  Cardinality({r \in Requests : Past(r)}) <= MaxInflight
    BY DEF WithinMaxInflight
  <2> DEFINE P == {r \in Requests : Past(r)}
  <2>1. P \subseteq holders
    BY DEF PastHold
  <2>2. Cardinality(P) <= Cardinality(holders) /\ Cardinality(P) \in Nat
    BY <2>1, FiniteHolders, FS_Subset, FS_CardinalityType
  <2>3. Cardinality(holders) <= MaxInflight
    BY ServerAssumption DEF TypeOK, TokenInv, TokensAccounted
  <2> QED
    BY <2>2, <2>3, FiniteHolders, ServerAssumption
<1> QED
  BY <1>1, <1>2, TypeCorrect, TokenInvariant, StepPastHold, PTL DEF Spec

-----------------------------------------------------------------------------
(* The refinement.  A step of one request changes nobody else's place, so  *)
(* it is an Enter, a Leave or a stutter; that there is room for an Enter   *)
(* is clear for Send, and no other step gets past a limit that is there.   *)

Inside == {r \in Requests : Past(r)}
InForce == opts = "startup" /\ MaxInflight > 0

LEMMA OneMoves ==
    ASSUME NEW r \in Requests, opts' = opts,
           \A q \in Requests : q # r => (Past(q)' <=> Past(q)),
           Past(r)' /\ ~Past(r) /\ InForce => Cardinality(Inside) < MaxInflight
    PROVE  [Limit!Next]_(Limit!limitVars)
<1> USE DEF Inside, InForce
<1>1. CASE Past(r)' /\ ~Past(r)
  <2>1. Inside' = Inside \cup {r} /\ r \notin Inside
    BY <1>1
  <2>2. Limit!Enter(r)
    BY <1>1, <2>1 DEF Limit!Enter, Limit!Cardinality, Cardinality
  <2> QED
    BY <2>2 DEF Limit!Next
<1>2. CASE ~Past(r)' /\ Past(r)
  <2>1. Inside' = Inside \ {r} /\ r \in Inside
    BY <1>2
  <2>2. Limit!Leave(r)
    BY <2>1 DEF Limit!Leave
  <2> QED
    BY <2>2 DEF Limit!Next
<1>3. CASE Past(r)' <=> Past(r)
  <2>1. Inside' = Inside
    BY <1>3
  <2> QED
    BY <2>1 DEF Limit!limitVars
<1> QED
  BY <1>1, <1>2, <1>3

LEMMA StepImplements ==
    TypeOK /\ TokenInv /\ PastHold /\ [Next]_vars => [Limit!Next]_(Limit!limitVars)
<1> SUFFICES ASSUME TypeOK, TokenInv, PastHold, [Next]_vars
             PROVE  [Limit!Next]_(Limit!limitVars)
  OBVIOUS
<1>0. /\ AtBreaker \in {"breakerCheck", "handler"}
      /\ InForce => AtLimit \in {"limitCheck", "inflightCheck"} /\ AtInflight = "inflightCheck"
  BY DEF AtBreaker, AtLimit, AtInflight, InForce
<1>1. CASE UNCHANGED vars
  BY <1>1 DEF vars, Limit!limitVars, Past
<1>2. CASE Configure
  <2>1. CASE MaxInflight > 0
    <3>1. Limit!Lift
      BY <1>2, <2>1 DEF Configure, Rebuilt, Limit!Lift, Past
    <3> QED
      BY <3>1 DEF Limit!Next
  <2>2. CASE ~(MaxInflight > 0)
    BY <1>2, <2>2 DEF Configure, Limit!limitVars, Past
  <2> QED
    BY <2>1, <2>2
<1>3. ASSUME NEW r \in Requests, Arrive(r) \/ Expire(r) PROVE [Limit!Next]_(Limit!limitVars)
  BY <1>0, <1>3, OneMoves DEF TypeOK, Past, Arrive, Expire, Goto
<1>4. ASSUME NEW r \in Requests, LimitCheck(r) \/ LimitRead(r) \/ LimitWait(r)
      PROVE  [Limit!Next]_(Limit!limitVars)
  BY <1>0, <1>4, OneMoves DEF TypeOK, Past, LimitCheck, LimitRead, LimitWait, Goto
<1>5. ASSUME NEW r \in Requests, InflightCheck(r) \/ Select(r) \/ GiveUp(r)
      PROVE  [Limit!Next]_(Limit!limitVars)
  BY <1>0, <1>5, OneMoves DEF TypeOK, Past, InflightCheck, Select, GiveUp, Goto, InForce
<1>6. ASSUME NEW r \in Requests, Send(r) PROVE [Limit!Next]_(Limit!limitVars)
  <2>1. InForce => Inside \subseteq holders
    BY DEF PastHold, InForce, Inside
  <2>2. InForce => Cardinality(Inside) <= Cardinality(holders) /\ Cardinality(Inside) \in Nat
    BY <2>1, FiniteHolders, FS_Subset, FS_CardinalityType
  <2>3. InForce => Cardinality(Inside) < MaxInflight
    BY <1>6, <2>2, FiniteHolders, ServerAssumption DEF Send, TokenInv, TokensAccounted
  <2>4. opts' = opts /\ \A q \in Requests : q # r => (Past(q)' <=> Past(q))
    BY <1>6 DEF TypeOK, Past, Send, Goto
  <2> QED
    BY <2>3, <2>4, OneMoves
<1>7. ASSUME NEW r \in Requests, BreakerCheck(r) \/ BreakerRead(r) \/ Handle(r)
      PROVE  [Limit!Next]_(Limit!limitVars)
  BY <1>7, OneMoves DEF TypeOK, Past, BreakerCheck, BreakerRead, Handle, Goto
<1>8. ASSUME NEW r \in Requests, Unwind(r) PROVE [Limit!Next]_(Limit!limitVars)
  BY <1>8, OneMoves DEF TypeOK, Past, Unwind, Goto
<1> QED
  BY <1>1, <1>2, <1>3, <1>4, <1>5, <1>6, <1>7, <1>8 DEF Next, Step

\* The interceptor chain implements the limit it promises: however its steps
\* interleave, requests enter one at a time and only while there is room.
THEOREM ChainImplementsLimit == Spec => ImplementsLimit
<1>1. Init => Limit!Init
  BY DEF Init, Limit!Init, Past
<1>2. Init => PastHold
  BY DEF Init, PastHold, Past
<1> QED
  BY <1>1, <1>2, TypeCorrect, TokenInvariant, StepPastHold, StepImplements, PTL
  DEF Spec, ImplementsLimit, Limit!Spec
=============================================================================
