-------------------------- MODULE ClientPluginProofs --------------------------
(***************************************************************************)
(* Proofs about ClientPlugin for every set of goroutines, connections and  *)
(* operations, any number of Configure calls and any values of             *)
(* connection_pooling: types, who holds c.mu and createMu, and that no     *)
(* connection handed out is older than the last Configure that met no      *)
(* GetConnection on its way.                                               *)
(***************************************************************************)
EXTENDS ClientPlugin, TLAPS

\* Where a GetConnection is, where it has a connection, and where a goroutine
\* holds c.mu across steps.
GetLabels == {"legacy", "look", "drop", "config", "pool", "reuse", "lock", "recheck",
              "build", "append", "mirror"}
HasConn    == {"look", "drop", "append", "mirror"}
HoldsMu    == {"closePool", "closeLegacy", "resetPool", "swap"}
Configuring == \E t \in Threads : pc[t] \in {"resetPool", "swap"}

\* What the locals of one goroutine say of it.
LocalsOK(t) ==
    /\ frame[t].op = "get" <=> pc[t] \in GetLabels
    /\ IF pc[t] \in HasConn THEN frame[t].conn \in Conns ELSE frame[t].conn = None
    /\ pc[t] \in {"reuse", "lock", "recheck", "append"} => pooling[frame[t].pool]

\* c.mu is held by whoever is in the middle of Close or Configure.
MuHolder == \A t \in Threads : mu = t <=> pc[t] \in HoldsMu

\* The createMu of a pool is held by whoever makes a connection for it, and by
\* nobody else.
Creates(t, e) ==
    /\ frame[t].pool = e
    /\ \/ pc[t] \in {"recheck", "append"}
       \/ pc[t] = "build" /\ pooling[e]
CreateHolder == \A e \in Configs, t \in Threads : createMu[e] = t <=> Creates(t, e)

\* The pool in use is the one of the settings in force, except in a Configure.
PoolOfSettings == ~Configuring => current = config

\* A connection that may be handed out, or one nobody can use.
Fresh(x) == x = None \/ conn[x] = "closed" \/ madeWith[x] >= clean

\* A Configure that has met no GetConnection has not closed the pool in use yet.
Resetting == clean = config /\ \E t \in Threads : pc[t] = "resetPool"

\* Where a GetConnection has a pool.
PoolLabels == {"reuse", "lock", "recheck", "build", "append"}

\* What a GetConnection has read: since the last Configure that met none, so only one
\* that has met it can be under way.
HealingGet(t) ==
    OnItsWay(t) =>
        /\ Configuring => clean < config
        /\ Fresh(frame[t].conn)
        /\ pc[t] \in {"pool"} \cup PoolLabels => frame[t].cfg >= clean
        /\ pc[t] \in PoolLabels => frame[t].pool <= current /\ Fresh(pooled[frame[t].pool])

\* What the places connections are kept in have: the legacy map, the pool in use, and
\* the pools to come, which nobody knows of yet.
HealingKept ==
    /\ clean <= config
    /\ Configuring => current < config
    /\ Fresh(legacy)
    /\ Resetting \/ Fresh(pooled[current])
    /\ \A e \in Configs : e > current => pooled[e] = None

IInv ==
    /\ TypeOK
    /\ \A t \in Threads : LocalsOK(t)
    /\ MuHolder
    /\ CreateHolder
    /\ PoolOfSettings
    /\ HealingKept
    /\ \A t \in Threads : HealingGet(t)

-----------------------------------------------------------------------------
(* Type correctness *)

FrameType == [op : {"none"} \cup Ops, began : Configs, attempt : 1..2,
              cfg : Configs, pool : Configs, conn : Conns \cup {None}]

\* Settings are numbered from 0, and the sentinel frame is a frame.
LEMMA Numbers == Configs \subseteq Nat /\ 0 \in Configs /\ EmptyFrame \in FrameType
<1>1. Configs \subseteq Nat /\ 0 \in Configs
  BY ClientAssumption DEF Configs
<1> QED
  BY <1>1 DEF EmptyFrame, FrameType

\* Changing one goroutine's locals to locals keeps the type of frame.
LEMMA FrameChange ==
    ASSUME NEW t \in Threads, NEW f \in [Threads -> FrameType], NEW r \in FrameType
    PROVE  [f EXCEPT ![t] = r] \in [Threads -> FrameType]
  OBVIOUS

\* No goroutine is mistaken for a free lock.
LEMMA NoneIsNobody == None \notin Threads
  BY ClientAssumption

LEMMA InitTypeOK == Init => TypeOK
<1> SUFFICES ASSUME Init PROVE TypeOK
  OBVIOUS
<1>1. mu \in Threads \cup {None} /\ config \in Configs /\ current \in Configs
      /\ legacy \in Conns \cup {None} /\ clean \in Configs
  BY Numbers DEF Init
<1>2. pooling \in [Configs -> BOOLEAN]
  BY ClientAssumption DEF Init, Configs
<1>3. pooled \in [Configs -> Conns \cup {None}] /\ createMu \in [Configs -> Threads \cup {None}]
  BY DEF Init
<1>4. conn \in [Conns -> {"open", "broken", "closed"}] /\ madeWith \in [Conns -> Configs]
  BY Numbers DEF Init
<1>5. pc \in [Threads -> Labels]
  BY DEF Init, Labels
<1>6. frame \in [Threads -> FrameType]
  BY Numbers DEF Init
<1> QED
  BY <1>1, <1>2, <1>3, <1>4, <1>5, <1>6 DEF TypeOK, FrameType

\* A step of one goroutine that writes only its locals, and where it is.
LEMMA LocalStepTypeOK ==
    ASSUME TypeOK, NEW t \in Threads,
           UNCHANGED <<mu, settings, legacy, pooled, createMu, conn, madeWith, clean>>,
           pc' \in [Threads -> Labels], frame' \in [Threads -> FrameType]
    PROVE  TypeOK'
  BY DEF TypeOK, FrameType, settings

LEMMA StartTypeOK ==
    ASSUME TypeOK, NEW t \in Threads, Begin(t) PROVE TypeOK'
<1>1. PICK op \in Ops, l \in Labels : Start(t, op, l)
  BY ClientAssumption DEF Begin, Start, Labels
<1>2. pc' \in [Threads -> Labels]
  BY <1>1 DEF TypeOK, Start, Goto
<1>3. frame' \in [Threads -> FrameType]
  BY <1>1, Numbers DEF TypeOK, FrameType, Start
<1> QED
  BY <1>1, <1>2, <1>3, LocalStepTypeOK DEF Start

LEMMA ReadTypeOK ==
    ASSUME TypeOK, NEW t \in Threads,
           ReadLegacy(t) \/ Look(t) \/ ReadSubscribed(t) \/ ReadGlobal(t) \/ ReadPool(t)
           \/ ServicePool(t)
    PROVE  TypeOK'
<1>1. pc' \in [Threads -> Labels]
  BY DEF TypeOK, ReadLegacy, Look, ReadSubscribed, ReadGlobal, ReadPool, ServicePool, Return,
         Goto, Labels
<1>2. frame' \in [Threads -> FrameType]
  <2>1. CASE ReadLegacy(t)
    BY <2>1 DEF TypeOK, FrameType, ReadLegacy
  <2>2. CASE Look(t)
    BY <2>2, Numbers DEF TypeOK, FrameType, Look, Return
  <2>3. CASE ReadSubscribed(t)
    <3>1. CASE frame' = [frame EXCEPT ![t].cfg = config]
      BY <3>1 DEF TypeOK, FrameType
    <3>2. CASE frame' = [frame EXCEPT ![t].attempt = 2]
      BY <3>2 DEF TypeOK, FrameType
    <3> QED
      BY <2>3, <3>1, <3>2 DEF ReadSubscribed
  <2>4. CASE ReadGlobal(t)
    BY <2>4 DEF TypeOK, FrameType, ReadGlobal
  <2>5. CASE ReadPool(t)
    BY <2>5 DEF TypeOK, FrameType, ReadPool
  <2>6. CASE ServicePool(t)
    <3>1. frame' = [frame EXCEPT ![t].pool = current] \/ frame' = [frame EXCEPT ![t] = EmptyFrame]
      BY <2>6 DEF ServicePool, Return
    <3>2. frame \in [Threads -> FrameType] /\ current \in Configs
      BY DEF TypeOK, FrameType
    <3>3. CASE frame' = [frame EXCEPT ![t].pool = current]
      BY <3>2, <3>3 DEF FrameType
    <3> QED
      BY <3>1, <3>2, <3>3, Numbers, FrameChange
  <2> QED
    BY <2>1, <2>2, <2>3, <2>4, <2>5, <2>6
<1> QED
  BY <1>1, <1>2, LocalStepTypeOK
     DEF ReadLegacy, Look, ReadSubscribed, ReadGlobal, ReadPool, ServicePool

LEMMA CloseTypeOK ==
    ASSUME TypeOK, NEW S, Close(S)
    PROVE  /\ conn' \in [Conns -> {"open", "broken", "closed"}]
           /\ madeWith' \in [Conns -> Configs]
  BY Numbers DEF TypeOK, Close

LEMMA CreateTypeOK ==
    ASSUME TypeOK, NEW t \in Threads,
           Reuse(t) \/ LockCreate(t) \/ Recheck(t) \/ Build(t) \/ Append(t)
    PROVE  TypeOK'
<1>1. pc' \in [Threads -> Labels]
  BY DEF TypeOK, Reuse, Recheck, TakePooled, LockCreate, Build, Append, Fail, Return, Goto, Labels
<1>2. frame' \in [Threads -> FrameType]
  <2>1. CASE Reuse(t) \/ Recheck(t)
    BY <2>1 DEF TypeOK, FrameType, Reuse, Recheck, TakePooled
  <2>2. CASE LockCreate(t) \/ Append(t)
    BY <2>2 DEF TypeOK, FrameType, LockCreate, Append
  <2>3. CASE Build(t) /\ \E x \in FreeConns : frame' = [frame EXCEPT ![t].conn = x]
    BY <2>3 DEF TypeOK, FrameType, FreeConns
  <2>4. CASE Build(t) /\ Fail(t)
    <3>1. CASE frame' = [frame EXCEPT ![t].attempt = 2]
      <4>1. frame \in [Threads -> FrameType]
        BY DEF TypeOK, FrameType
      <4> QED
        BY <3>1, <4>1 DEF FrameType
    <3>2. CASE Return(t)
      BY <3>2, Numbers DEF TypeOK, FrameType, Return
    <3> QED
      BY <2>4, <3>1, <3>2 DEF Fail
  <2> QED
    BY <2>1, <2>2, <2>3, <2>4 DEF Build
<1>3. createMu' \in [Configs -> Threads \cup {None}]
  BY DEF TypeOK, Reuse, Recheck, TakePooled, LockCreate, Build, Append, Fail
<1>4. pooled' \in [Configs -> Conns \cup {None}]
  BY DEF TypeOK, Reuse, Recheck, TakePooled, LockCreate, Build, Append
<1>5. conn' \in [Conns -> {"open", "broken", "closed"}] /\ madeWith' \in [Conns -> Configs]
  <2>1. CASE (Reuse(t) \/ Recheck(t)) /\ \E x : Close({x})
    BY <2>1, CloseTypeOK
  <2>2. CASE Build(t)
    BY <2>2 DEF TypeOK, Build
  <2>3. CASE UNCHANGED <<conn, madeWith>>
    BY <2>3 DEF TypeOK
  <2> QED
    BY <2>1, <2>2, <2>3 DEF Reuse, Recheck, TakePooled, LockCreate, Append
<1>6. UNCHANGED <<mu, settings, legacy, clean>>
  BY DEF Reuse, Recheck, LockCreate, Build, Append
<1> QED
  BY <1>1, <1>2, <1>3, <1>4, <1>5, <1>6 DEF TypeOK, FrameType, settings

\* A goroutine that returns is idle and has no locals.
LEMMA ReturnTypeOK ==
    ASSUME TypeOK, NEW t \in Threads, Return(t)
    PROVE  pc' \in [Threads -> Labels] /\ frame' \in [Threads -> FrameType]
  BY Numbers DEF TypeOK, FrameType, Return, Goto, Labels

LEMMA CloseStepTypeOK ==
    ASSUME TypeOK, NEW t \in Threads,
           Mirror(t) \/ Drop(t) \/ DropService(t) \/ ServiceClose(t) \/ CloseLock(t)
           \/ ClosePool(t) \/ CloseLegacy(t)
    PROVE  TypeOK'
<1>1. pc' \in [Threads -> Labels] /\ frame' \in [Threads -> FrameType]
  <2>1. CASE Mirror(t) \/ ServiceClose(t) \/ CloseLegacy(t)
    BY <2>1, ReturnTypeOK DEF Mirror, ServiceClose, CloseLegacy
  <2>2. CASE DropService(t) \/ CloseLock(t) \/ ClosePool(t)
    BY <2>2 DEF TypeOK, FrameType, DropService, CloseLock, ClosePool, Goto, Labels
  <2>3. CASE Drop(t)
    BY <2>3 DEF TypeOK, FrameType, Drop, Goto, Labels
  <2> QED
    BY <2>1, <2>2, <2>3
<1>2. conn' \in [Conns -> {"open", "broken", "closed"}] /\ madeWith' \in [Conns -> Configs]
  <2>1. CASE \E x : Close({x})
    BY <2>1, CloseTypeOK
  <2>2. CASE UNCHANGED <<conn, madeWith>>
    BY <2>2 DEF TypeOK
  <2> QED
    BY <2>1, <2>2
       DEF Mirror, Drop, DropService, ServiceClose, CloseLock, ClosePool, CloseLegacy, ClosePooled
<1>3. pooled' \in [Configs -> Conns \cup {None}]
  BY DEF TypeOK, Mirror, Drop, DropService, ServiceClose, CloseLock, ClosePool, CloseLegacy,
         ClosePooled
<1>4. legacy' \in Conns \cup {None} /\ mu' \in Threads \cup {None}
  BY DEF TypeOK, Mirror, Drop, DropService, ServiceClose, CloseLock, ClosePool, CloseLegacy
<1>5. UNCHANGED <<settings, createMu, clean>>
  BY DEF Mirror, Drop, DropService, ServiceClose, CloseLock, ClosePool, CloseLegacy
<1> QED
  BY <1>1, <1>2, <1>3, <1>4, <1>5 DEF TypeOK, FrameType, settings

LEMMA ConfigureTypeOK ==
    ASSUME TypeOK, NEW t \in Threads, Configure(t) \/ ResetPool(t) \/ Swap(t)
    PROVE  TypeOK'
<1>1. pc' \in [Threads -> Labels] /\ frame' \in [Threads -> FrameType]
  <2>1. CASE Return(t)
    BY <2>1, ReturnTypeOK
  <2>2. CASE UNCHANGED frame /\ (Goto(t, "resetPool") \/ Goto(t, "swap"))
    BY <2>2 DEF TypeOK, FrameType, Goto, Labels
  <2> QED
    BY <2>1, <2>2 DEF Configure, ResetPool, Swap
<1>2. conn' \in [Conns -> {"open", "broken", "closed"}] /\ madeWith' \in [Conns -> Configs]
  <2>1. CASE \E x : Close({x})
    BY <2>1, CloseTypeOK
  <2>2. CASE UNCHANGED <<conn, madeWith>>
    BY <2>2 DEF TypeOK
  <2> QED
    BY <2>1, <2>2 DEF Configure, ResetPool, Swap, ClosePooled
<1>3. config' \in Configs
  BY ClientAssumption DEF TypeOK, Configure, ResetPool, Swap, Configs, settings
<1>4. clean' \in Configs
  <2>1. CASE UNCHANGED clean \/ clean' = config'
    BY <1>3, <2>1 DEF TypeOK
  <2> QED
    BY <2>1 DEF Configure, ResetPool, Swap
<1>5. mu' \in Threads \cup {None} /\ current' \in Configs /\ legacy' \in Conns \cup {None}
      /\ pooled' \in [Configs -> Conns \cup {None}]
  BY DEF TypeOK, Configure, ResetPool, Swap, settings, ClosePooled
<1>6. UNCHANGED <<pooling, createMu>>
  BY DEF Configure, ResetPool, Swap, settings
<1> QED
  BY <1>1, <1>2, <1>3, <1>4, <1>5, <1>6 DEF TypeOK, FrameType

LEMMA StepTypeOK == TypeOK /\ [Next]_vars => TypeOK'
<1> SUFFICES ASSUME TypeOK, [Next]_vars PROVE TypeOK'
  OBVIOUS
<1>1. ASSUME NEW x \in Conns, ChangeHealth(x) PROVE TypeOK'
  BY <1>1 DEF TypeOK, ChangeHealth, settings
<1>2. CASE UNCHANGED vars
  BY <1>2 DEF TypeOK, vars, settings
<1> QED
  BY <1>1, <1>2, StartTypeOK, ReadTypeOK, CreateTypeOK, CloseStepTypeOK, ConfigureTypeOK
     DEF Next, Step

\* The state stays within its types.
THEOREM TypeCorrect == Spec => []TypeOK
  BY InitTypeOK, StepTypeOK, PTL DEF Spec

-----------------------------------------------------------------------------
(* What one goroutine's step does to the locals *)

\* A step of one goroutine leaves the others where they are, with their locals,
\* and no step changes the settings a Configure will bring.
LEMMA OthersStay ==
    ASSUME TypeOK, NEW t \in Threads, Begin(t) \/ Step(t)
    PROVE  /\ \A u \in Threads \ {t} : pc'[u] = pc[u] /\ frame'[u] = frame[u]
           /\ pooling' = pooling
<1>1. \A u \in Threads \ {t} : pc'[u] = pc[u]
  BY DEF TypeOK, Begin, Step, Start, Goto, Return, ReadLegacy, Look, Drop, ReadSubscribed,
         ReadGlobal, ReadPool, Reuse, TakePooled, LockCreate, Recheck, Build, Fail, Append, Mirror,
         DropService, ServicePool, ServiceClose, CloseLock, ClosePool, CloseLegacy, Configure,
         ResetPool, Swap
<1>2. \A u \in Threads \ {t} : frame'[u] = frame[u]
  BY DEF TypeOK, Begin, Step, Start, Goto, Return, ReadLegacy, Look, Drop, ReadSubscribed,
         ReadGlobal, ReadPool, Reuse, TakePooled, LockCreate, Recheck, Build, Fail, Append, Mirror,
         DropService, ServicePool, ServiceClose, CloseLock, ClosePool, CloseLegacy, Configure,
         ResetPool, Swap
<1>3. pooling' = pooling
  BY DEF Begin, Step, Start, settings, ReadLegacy, Look, Drop, ReadSubscribed,
         ReadGlobal, ReadPool, Reuse, LockCreate, Recheck, Build, Append, Mirror,
         DropService, ServicePool, ServiceClose, CloseLock, ClosePool, CloseLegacy, Configure,
         ResetPool, Swap
<1> QED
  BY <1>1, <1>2, <1>3

\* Where a step leaves the goroutine that takes it: returned, or further on.
LEMMA ReturnLocals ==
    ASSUME TypeOK, NEW t \in Threads, Return(t)
    PROVE  pc'[t] = "idle" /\ frame'[t] = EmptyFrame
  BY DEF TypeOK, Return, Goto

LEMMA StepLocals ==
    ASSUME TypeOK, NEW t \in Threads, LocalsOK(t), Begin(t) \/ Step(t)
    PROVE  LocalsOK(t)'
<1> USE DEF LocalsOK, GetLabels, HasConn
<1>1. CASE Return(t) /\ UNCHANGED pooling
  BY <1>1, ReturnLocals DEF EmptyFrame
<1>2. CASE Begin(t)
  BY <1>2 DEF Begin, Start, Goto, TypeOK, settings
<1>3. CASE ReadLegacy(t) \/ Drop(t) \/ ReadGlobal(t)
  BY <1>3 DEF TypeOK, ReadLegacy, Drop, ReadGlobal, Goto, settings
<1>4. CASE ReadSubscribed(t)
  BY <1>4 DEF TypeOK, ReadSubscribed, Goto, settings
<1>5. CASE Look(t) /\ Goto(t, "drop") /\ UNCHANGED frame
  BY <1>5 DEF TypeOK, Look, Goto, settings
<1>6. CASE ReadPool(t)
  BY <1>6 DEF TypeOK, ReadPool, Goto, settings
<1>7. CASE Reuse(t) \/ Recheck(t)
  BY <1>7 DEF TypeOK, Reuse, Recheck, TakePooled, Goto, settings
<1>8. CASE LockCreate(t) \/ Append(t)
  BY <1>8 DEF TypeOK, LockCreate, Append, Goto, settings
<1>9. CASE Build(t)
  <2>1. UNCHANGED pooling
    BY <1>9 DEF Build, settings
  <2>2. CASE \E x \in FreeConns : /\ frame' = [frame EXCEPT ![t].conn = x]
                                  /\ Goto(t, IF pooling[frame[t].pool] THEN "append" ELSE "mirror")
    BY <1>9, <2>1, <2>2 DEF Build, Goto, TypeOK, FreeConns
  <2>3. CASE Goto(t, "config") /\ frame' = [frame EXCEPT ![t].attempt = 2]
    BY <1>9, <2>1, <2>3 DEF Build, Goto, TypeOK
  <2> QED
    BY <1>1, <1>9, <2>1, <2>2, <2>3 DEF Build, Fail
<1>10. CASE DropService(t) \/ CloseLock(t) \/ ClosePool(t) \/ ResetPool(t)
  BY <1>10 DEF TypeOK, DropService, CloseLock, ClosePool, ResetPool, Goto, settings
<1>11. CASE ServicePool(t) /\ pooling[current]
  BY <1>11 DEF TypeOK, ServicePool, Goto, settings
<1>12. CASE Configure(t) /\ Goto(t, "resetPool") /\ UNCHANGED frame
  BY <1>12 DEF TypeOK, Configure, Goto, settings
<1>13. CASE Look(t) /\ Return(t)
  BY <1>1, <1>13 DEF Look, settings
<1>14. CASE ServicePool(t) /\ ~pooling[current]
  BY <1>1, <1>14 DEF ServicePool, settings
<1>15. CASE Mirror(t) \/ ServiceClose(t) \/ CloseLegacy(t) \/ Swap(t)
  BY <1>1, <1>15 DEF Mirror, ServiceClose, CloseLegacy, Swap, settings
<1>16. CASE Configure(t) /\ Return(t)
  BY <1>1, <1>16 DEF Configure, settings
<1>17. Look(t) => Return(t) \/ (Goto(t, "drop") /\ UNCHANGED frame)
  BY DEF Look
<1>18. Configure(t) => Return(t) \/ (Goto(t, "resetPool") /\ UNCHANGED frame)
  BY DEF Configure
<1> QED
  BY <1>2, <1>3, <1>4, <1>5, <1>6, <1>7, <1>8, <1>9, <1>10, <1>11, <1>12, <1>13, <1>14, <1>15, <1>16,
     <1>17, <1>18 DEF Step

-----------------------------------------------------------------------------
(* Who holds c.mu and createMu *)

LEMMA MuStep ==
    ASSUME TypeOK, MuHolder, NEW t \in Threads, Begin(t) \/ Step(t)
    PROVE  MuHolder'
<1> USE DEF MuHolder, HoldsMu
<1>0. mu # t => pc[t] \notin HoldsMu
  OBVIOUS
<1>1. CASE mu' = mu /\ (pc'[t] \in HoldsMu <=> pc[t] \in HoldsMu)
  BY <1>1, OthersStay
<1>2. CASE CloseLock(t) \/ (Configure(t) /\ mu' = t /\ Goto(t, "resetPool"))
  BY <1>2, OthersStay, ClientAssumption DEF TypeOK, CloseLock, Configure, Goto, Unlocked
<1>3. CASE CloseLegacy(t) \/ Swap(t)
  BY <1>3, OthersStay, ClientAssumption DEF TypeOK, CloseLegacy, Swap, Return, Goto
<1>4. CASE Begin(t)
  <2>1. mu' = mu /\ pc[t] \notin HoldsMu /\ pc'[t] \notin HoldsMu
    BY <1>4 DEF TypeOK, Begin, Start, Goto
  <2> QED
    BY <2>1, <1>1
<1>5. CASE \/ ReadLegacy(t) \/ Look(t) \/ Drop(t) \/ ReadSubscribed(t) \/ ReadGlobal(t)
          \/ ReadPool(t) \/ Reuse(t) \/ LockCreate(t) \/ Recheck(t) \/ Build(t) \/ Append(t)
          \/ Mirror(t) \/ DropService(t) \/ ServicePool(t) \/ ServiceClose(t)
  <2>1. mu' = mu
    BY <1>5 DEF ReadLegacy, Look, Drop, ReadSubscribed, ReadGlobal, ReadPool, Reuse, LockCreate,
         Recheck, Build, Append, Mirror, DropService, ServicePool, ServiceClose
  <2>2. pc[t] \notin HoldsMu /\ pc'[t] \notin HoldsMu
    BY <1>5 DEF TypeOK, ReadLegacy, Look, Drop, ReadSubscribed, ReadGlobal, ReadPool, Reuse,
         LockCreate, Recheck, TakePooled, Build, Fail, Append, Mirror, DropService, ServicePool,
         ServiceClose, Return, Goto
  <2> QED
    BY <2>1, <2>2, <1>1
<1>6. CASE ClosePool(t) \/ ResetPool(t)
  <2>1. mu' = mu /\ pc[t] \in HoldsMu /\ pc'[t] \in HoldsMu
    BY <1>6 DEF TypeOK, ClosePool, ResetPool, Goto
  <2> QED
    BY <2>1, <1>1
<1>7. CASE Configure(t) /\ Return(t) /\ mu' = mu
  <2>1. pc[t] \notin HoldsMu /\ pc'[t] \notin HoldsMu
    BY <1>7 DEF TypeOK, Configure, Return, Goto
  <2> QED
    BY <1>7, <2>1, <1>1
<1>8. Configure(t) => (Return(t) /\ mu' = mu) \/ (mu' = t /\ Goto(t, "resetPool"))
  BY DEF Configure
<1> QED
  BY <1>2, <1>3, <1>4, <1>5, <1>6, <1>7, <1>8 DEF Step

\* What a step does to createMu and to what its goroutine creates.
LEMMA CreateStep ==
    ASSUME TypeOK, CreateHolder, NEW t \in Threads, LocalsOK(t), Begin(t) \/ Step(t)
    PROVE  CreateHolder'
<1>1. ASSUME NEW u \in Threads \ {t}, NEW e \in Configs PROVE Creates(u, e)' <=> Creates(u, e)
  BY OthersStay DEF Creates
<1>2. CASE createMu' = createMu /\ \A e \in Configs : Creates(t, e)' <=> Creates(t, e)
  BY <1>1, <1>2 DEF CreateHolder
<1>3. CASE /\ createMu' = [e \in Configs |-> IF createMu[e] = t THEN None ELSE createMu[e]]
           /\ \A e \in Configs : ~Creates(t, e)'
  BY <1>1, <1>3, ClientAssumption DEF CreateHolder
<1>4. CASE Begin(t)
  <2>1. createMu' = createMu /\ \A e \in Configs : ~Creates(t, e) /\ ~Creates(t, e)'
    BY <1>4 DEF TypeOK, Begin, Start, Goto, Creates
  <2> QED
    BY <1>2, <2>1
<1>5. CASE \/ ReadLegacy(t) \/ Look(t) \/ Drop(t) \/ ReadSubscribed(t) \/ ReadGlobal(t)
          \/ ReadPool(t) \/ Mirror(t) \/ DropService(t) \/ ServicePool(t) \/ ServiceClose(t)
          \/ CloseLock(t) \/ ClosePool(t) \/ CloseLegacy(t) \/ Configure(t) \/ ResetPool(t) \/ Swap(t)
  <2>1. createMu' = createMu
    BY <1>5 DEF ReadLegacy, Look, Drop, ReadSubscribed, ReadGlobal, ReadPool, Mirror, DropService,
         ServicePool, ServiceClose, CloseLock, ClosePool, CloseLegacy, Configure, ResetPool, Swap
  <2>2. pc[t] \notin {"recheck", "append", "build"}
    BY <1>5 DEF ReadLegacy, Look, Drop, ReadSubscribed, ReadGlobal, ReadPool, Mirror, DropService,
         ServicePool, ServiceClose, CloseLock, ClosePool, CloseLegacy, Configure, ResetPool, Swap
  <2>3. \A e \in Configs : ~Creates(t, e)'
    <3>1. CASE ReadPool(t)
      BY <3>1, OthersStay DEF TypeOK, ReadPool, Goto, Creates, settings
    <3>2. CASE ~ReadPool(t)
      <4>1. pc'[t] \notin {"recheck", "append", "build"}
        BY <1>5, <3>2 DEF TypeOK, ReadLegacy, Look, Drop, ReadSubscribed, ReadGlobal, Mirror,
         DropService, ServicePool, ServiceClose, CloseLock, ClosePool, CloseLegacy, Configure,
         ResetPool, Swap, Return, Goto
      <4> QED
        BY <4>1 DEF Creates
    <3> QED
      BY <3>1, <3>2
  <2> QED
    BY <1>2, <2>1, <2>2, <2>3 DEF Creates
<1>6. CASE Reuse(t) \/ Recheck(t)
  <2>1. pooling' = pooling
    BY OthersStay
  <2>2. CASE createMu' = [e \in Configs |-> IF createMu[e] = t THEN None ELSE createMu[e]]
             /\ pc'[t] = "mirror"
    BY <1>3, <2>2 DEF Creates
  <2>3. CASE createMu' = createMu /\ frame' = frame /\ Reuse(t) /\ pc'[t] = "lock"
    <3>1. \A e \in Configs : ~Creates(t, e) /\ ~Creates(t, e)'
      BY <2>3 DEF Reuse, Creates
    <3> QED
      BY <1>2, <2>3, <3>1
  <2>4. CASE createMu' = createMu /\ frame' = frame /\ Recheck(t) /\ pc'[t] = "build"
    <3>1. pooling[frame[t].pool] /\ pc[t] = "recheck"
      BY <2>4 DEF Recheck, LocalsOK
    <3>2. \A e \in Configs : Creates(t, e)' <=> Creates(t, e)
      BY <2>1, <2>4, <3>1 DEF Creates
    <3> QED
      BY <1>2, <2>4, <3>2
  <2>5. \/ /\ createMu' = [e \in Configs |-> IF createMu[e] = t THEN None ELSE createMu[e]]
           /\ pc'[t] = "mirror"
        \/ /\ createMu' = createMu /\ frame' = frame
           /\ \/ Reuse(t) /\ pc'[t] = "lock"
              \/ Recheck(t) /\ pc'[t] = "build"
    BY <1>6 DEF TypeOK, Reuse, Recheck, TakePooled, Goto
  <2> QED
    BY <2>2, <2>3, <2>4, <2>5
<1>7. CASE LockCreate(t)
  <2> DEFINE p == frame[t].pool
  <2>1. p \in Configs /\ createMu[p] = None /\ createMu' = [createMu EXCEPT ![p] = t]
        /\ pc[t] = "lock" /\ pc'[t] = "recheck" /\ frame' = frame
    BY <1>7 DEF TypeOK, LockCreate, Goto
  <2>2. \A e \in Configs : ~Creates(t, e) /\ (Creates(t, e)' <=> e = p)
    BY <2>1 DEF Creates
  <2> QED
    BY <1>1, <2>1, <2>2, NoneIsNobody DEF CreateHolder, TypeOK
<1>8. CASE Append(t)
  <2> DEFINE p == frame[t].pool
  <2>1. p \in Configs /\ createMu' = [createMu EXCEPT ![p] = None]
        /\ pc[t] = "append" /\ pc'[t] = "mirror"
    BY <1>8 DEF TypeOK, Append, Goto
  <2>2. \A e \in Configs : ~Creates(t, e)' /\ (Creates(t, e) <=> e = p)
    BY <2>1 DEF Creates
  <2> QED
    BY <1>1, <2>1, <2>2, NoneIsNobody DEF CreateHolder, TypeOK
<1>9. CASE Build(t)
  <2>1. CASE Fail(t)
    <3>1. pc'[t] \in {"config", "idle"}
      BY <2>1 DEF TypeOK, Fail, Return, Goto
    <3> QED
      BY <1>3, <2>1, <3>1 DEF Fail, Creates
  <2>2. CASE createMu' = createMu /\ Goto(t, IF pooling[frame[t].pool] THEN "append" ELSE "mirror")
             /\ \E x \in FreeConns : frame' = [frame EXCEPT ![t].conn = x]
    <3>1. frame'[t].pool = frame[t].pool /\ pc[t] = "build"
          /\ pc'[t] = IF pooling[frame[t].pool] THEN "append" ELSE "mirror"
      BY <1>9, <2>2 DEF TypeOK, Build, Goto
    <3>2. \A e \in Configs : Creates(t, e)' <=> Creates(t, e)
      BY <3>1, OthersStay DEF Creates
    <3> QED
      BY <1>2, <2>2, <3>2
  <2> QED
    BY <1>9, <2>1, <2>2 DEF Build
<1> QED
  BY <1>4, <1>5, <1>6, <1>7, <1>8, <1>9 DEF Step

-----------------------------------------------------------------------------
(* The settings in force *)

\* A successful Configure, the one step that changes the settings.
Replaces(t) ==
    /\ Configure(t) /\ Unlocked /\ mu' = t /\ config' = config + 1
    /\ clean' = IF \E u \in Threads : OnItsWay(u) THEN clean ELSE config'
    /\ Close({legacy})
    /\ pc'[t] = "resetPool" /\ frame' = frame

LEMMA ConfigChange ==
    ASSUME TypeOK, NEW t \in Threads, Begin(t) \/ Step(t)
    PROVE  \/ Replaces(t)
           \/ config' = config /\ clean' = clean
<1>1. CASE Configure(t)
  <2>1. CASE Return(t) /\ UNCHANGED <<mu, config, conn, madeWith, clean>>
    BY <2>1
  <2>2. CASE /\ mu' = t /\ config' = config + 1
             /\ clean' = IF \E u \in Threads : OnItsWay(u) THEN clean ELSE config'
             /\ Close({legacy}) /\ Goto(t, "resetPool") /\ UNCHANGED frame
    <3>1. pc'[t] = "resetPool" /\ Unlocked
      BY <1>1, <2>2 DEF TypeOK, Goto, Configure
    <3> QED
      BY <1>1, <2>2, <3>1 DEF Replaces
  <2> QED
    BY <1>1, <2>1, <2>2 DEF Configure
<1>2. CASE ~Configure(t)
  BY <1>2 DEF Begin, Step, Start, settings, ReadLegacy, Look, Drop, ReadSubscribed,
         ReadGlobal, ReadPool, Reuse, LockCreate, Recheck, Build, Append, Mirror,
         DropService, ServicePool, ServiceClose, CloseLock, ClosePool, CloseLegacy,
         ResetPool, Swap
<1> QED
  BY <1>1, <1>2

\* Only Configure goes to resetPool, only ResetPool from there to swap, and only
\* Swap leaves that and changes the pool in use.
LEMMA ConfiguringChange ==
    ASSUME TypeOK, NEW t \in Threads, Begin(t) \/ Step(t), config' = config
    PROVE  /\ pc'[t] # "resetPool"
           /\ pc'[t] = "swap" => ResetPool(t)
           /\ pc[t] = "resetPool" => ResetPool(t)
           /\ pc[t] = "swap" => Swap(t)
           /\ current' # current => Swap(t)
<1>1. config + 1 # config
  BY Numbers DEF TypeOK
<1>2. pc'[t] # "resetPool" /\ (pc'[t] = "swap" => ResetPool(t))
  <2>1. CASE Configure(t)
    BY <1>1, <2>1 DEF TypeOK, Configure, Return, Goto
  <2>2. CASE Begin(t)
    BY <2>2 DEF TypeOK, Begin, Start, Goto
  <2>3. CASE ResetPool(t)
    BY <2>3 DEF TypeOK, ResetPool, Goto
  <2>4. CASE \/ ReadLegacy(t) \/ Look(t) \/ Drop(t) \/ ReadSubscribed(t) \/ ReadGlobal(t)
            \/ ReadPool(t) \/ Reuse(t) \/ LockCreate(t) \/ Recheck(t) \/ Build(t) \/ Append(t)
    BY <2>4 DEF TypeOK, ReadLegacy, Look, Drop, ReadSubscribed, ReadGlobal, ReadPool, Reuse,
         LockCreate, Recheck, TakePooled, Build, Fail, Append, Return, Goto
  <2>5. CASE \/ Mirror(t) \/ DropService(t) \/ ServicePool(t) \/ ServiceClose(t) \/ CloseLock(t)
            \/ ClosePool(t) \/ CloseLegacy(t) \/ Swap(t)
    BY <2>5 DEF TypeOK, Mirror, DropService, ServicePool, ServiceClose, CloseLock, ClosePool,
         CloseLegacy, Swap, Return, Goto
  <2> QED
    BY <2>1, <2>2, <2>3, <2>4, <2>5 DEF Step
<1>3. (pc[t] = "resetPool" => ResetPool(t)) /\ (pc[t] = "swap" => Swap(t))
  <2>1. (Swap(t) => pc[t] = "swap") /\ (ResetPool(t) => pc[t] = "resetPool")
    BY DEF Swap, ResetPool
  <2> QED
    BY <2>1 DEF Begin, Step, Start, ReadLegacy, Look, Drop, ReadSubscribed,
         ReadGlobal, ReadPool, Reuse, LockCreate, Recheck, Build, Append, Mirror,
         DropService, ServicePool, ServiceClose, CloseLock, ClosePool, CloseLegacy, Configure
<1>4. current' # current => Swap(t)
  BY DEF Begin, Step, Start, settings, ReadLegacy, Look, Drop, ReadSubscribed,
         ReadGlobal, ReadPool, Reuse, LockCreate, Recheck, Build, Append, Mirror,
         DropService, ServicePool, ServiceClose, CloseLock, ClosePool, CloseLegacy, Configure,
         ResetPool
<1> QED
  BY <1>2, <1>3, <1>4

LEMMA PoolOfSettingsStep ==
    ASSUME TypeOK, PoolOfSettings, NEW t \in Threads, Begin(t) \/ Step(t)
    PROVE  PoolOfSettings'
<1>1. CASE Replaces(t)
  BY <1>1 DEF Replaces, PoolOfSettings, Configuring
<1>2. CASE config' = config /\ Swap(t)
  BY <1>2 DEF Swap, PoolOfSettings
<1>3. CASE config' = config /\ ~Swap(t)
  <2>1. current' = current
    BY <1>3, ConfiguringChange
  <2>2. Configuring => Configuring'
    <3>1. SUFFICES ASSUME NEW u \in Threads, pc[u] \in {"resetPool", "swap"}
                   PROVE  pc'[u] \in {"resetPool", "swap"}
      BY DEF Configuring
    <3>2. CASE u # t
      BY <3>1, <3>2, OthersStay
    <3>3. CASE u = t
      <4>1. ResetPool(t)
        BY <1>3, <3>1, <3>3, ConfiguringChange
      <4> QED
        BY <3>3, <4>1 DEF TypeOK, ResetPool, Goto
    <3> QED
      BY <3>2, <3>3
  <2> QED
    BY <1>3, <2>1, <2>2 DEF PoolOfSettings
<1> QED
  BY <1>1, <1>2, <1>3, ConfigChange

\* While c.mu is free no Configure is under way.
LEMMA NotConfiguring ==
    ASSUME MuHolder, mu = None PROVE ~Configuring
  BY ClientAssumption DEF MuHolder, HoldsMu, Configuring

\* While the number of settings stays, a connection that may be handed out stays so.
LEMMA FreshStays ==
    ASSUME IInv, NEW t \in Threads, Begin(t) \/ Step(t), config' = config, clean' = clean
    PROVE  \A x \in Conns \cup {None} : Fresh(x) => Fresh(x)'
<1>1. CASE \E S : Close(S)
  BY <1>1 DEF Close, Fresh, IInv, TypeOK
<1>2. CASE UNCHANGED <<conn, madeWith>>
  BY <1>2 DEF Fresh
<1>3. CASE Build(t) /\ \E y \in FreeConns : /\ conn' = [conn EXCEPT ![y] = "open"]
                                           /\ madeWith' = [madeWith EXCEPT ![y] = frame[t].cfg]
  <2>1. frame[t].cfg >= clean
    BY <1>3 DEF Build, IInv, LocalsOK, GetLabels, HealingGet, OnItsWay, PoolLabels
  <2> QED
    BY <1>3, <2>1 DEF Fresh, IInv, TypeOK
<1> QED
  BY <1>1, <1>2, <1>3 DEF Begin, Step, Start, ReadLegacy, Look, Drop, ReadSubscribed,
         ReadGlobal, ReadPool, Reuse, TakePooled, LockCreate, Recheck, Build, Append, Mirror,
         DropService, ServicePool, ServiceClose, ClosePooled, CloseLock, ClosePool, CloseLegacy,
         Configure, ResetPool, Swap

\* Pools later than the one in use have nothing, and what a pool has stays fresh.
LEMMA PoolsStep ==
    ASSUME IInv, NEW t \in Threads, Begin(t) \/ Step(t), config' = config, clean' = clean
    PROVE  /\ \A e \in Configs : e > current => pooled'[e] = None
           /\ \A e \in Configs : Fresh(pooled[e]) => Fresh(pooled[e])'
           /\ ResetPool(t) => pooled'[current] = None
<1>1. TypeOK /\ LocalsOK(t) /\ HealingKept /\ HealingGet(t)
  BY DEF IInv
<1>2. \A x \in Conns \cup {None} :
         Fresh(x) => x = None \/ conn'[x] = "closed" \/ madeWith'[x] >= clean'
  BY FreshStays DEF Fresh
<1>3. \A e \in Configs : \/ pooled'[e] = pooled[e] \/ pooled'[e] = None
                         \/ Append(t) /\ e = frame[t].pool /\ pooled'[e] = frame[t].conn
  BY <1>1 DEF TypeOK, Begin, Step, Start, ReadLegacy, Look, Drop, ReadSubscribed,
         ReadGlobal, ReadPool, Reuse, TakePooled, LockCreate, Recheck, Build, Append, Mirror,
         DropService, ServicePool, ServiceClose, ClosePooled, CloseLock, ClosePool, CloseLegacy,
         Configure, ResetPool, Swap
<1>4. Append(t) => /\ frame[t].pool <= current /\ Fresh(frame[t].conn)
                   /\ frame[t].conn \in Conns \cup {None}
  BY <1>1 DEF Append, LocalsOK, GetLabels, HealingGet, OnItsWay, PoolLabels, TypeOK
<1>5. \A e \in Configs : e > current => pooled'[e] = None
  BY <1>1, <1>3, <1>4, Numbers DEF HealingKept, TypeOK
<1>6. ASSUME NEW e \in Configs, Fresh(pooled[e]) PROVE Fresh(pooled[e])'
  <2>1. pooled[e] \in Conns \cup {None}
    BY <1>1 DEF TypeOK
  <2> QED
    BY <1>2, <1>3, <1>4, <1>6, <2>1 DEF Fresh
<1>7. ResetPool(t) => pooled'[current] = None
  BY <1>1 DEF ResetPool, ClosePooled, TypeOK
<1> QED
  BY <1>5, <1>6, <1>7

\* The pool in use changes to a later one only, when a Configure ends.
LEMMA CurrentStep ==
    ASSUME IInv, NEW t \in Threads, Begin(t) \/ Step(t), config' = config
    PROVE  /\ current <= current'
           /\ Configuring' => Configuring
           /\ ~Swap(t) => current' = current
           /\ Swap(t) => current < current' /\ current' = config /\ ~Configuring'
<1>1. TypeOK /\ MuHolder /\ HealingKept
  BY DEF IInv
<1>2. Configuring' => Configuring
  BY <1>1, OthersStay, ConfiguringChange DEF Configuring, ResetPool
<1>3. ~Swap(t) => current' = current
  BY <1>1, ConfiguringChange
<1>4. ASSUME Swap(t) PROVE current < current' /\ current' = config /\ ~Configuring'
  <2>1. Configuring /\ current' = config
    BY <1>4 DEF Swap, Configuring
  <2>2. \A u \in Threads : pc'[u] \notin {"resetPool", "swap"}
    BY <1>1, <1>4, OthersStay, ReturnLocals DEF Swap, MuHolder, HoldsMu
  <2> QED
    BY <1>1, <2>1, <2>2 DEF HealingKept, Configuring
<1> QED
  BY <1>1, <1>2, <1>3, <1>4, Numbers DEF TypeOK

\* What a step of a GetConnection reads is fresh.
LEMMA HealingGetStep ==
    ASSUME IInv, NEW t \in Threads, Begin(t) \/ Step(t), config' = config, clean' = clean, LocalsOK(t)'
    PROVE  HealingGet(t)'
<1>1. HealingGet(t) /\ HealingKept /\ LocalsOK(t) /\ TypeOK /\ MuHolder
  BY DEF IInv
<1>2. \A x \in Conns \cup {None} :
         Fresh(x) => x = None \/ conn'[x] = "closed" \/ madeWith'[x] >= clean'
  BY FreshStays DEF Fresh
<1>3. \A e \in Configs : Fresh(pooled[e]) => Fresh(pooled[e])'
  BY PoolsStep
<1>4. Configuring' => Configuring
  BY CurrentStep
<1>5. clean <= config /\ current \in Configs /\ current <= current
  BY <1>1, Numbers DEF HealingKept, TypeOK
<1>6. CASE Begin(t)
  <2>1. frame'[t].op = "get" => pc'[t] = "legacy"
    BY <1>1, <1>6 DEF TypeOK, Begin, Start, Goto
  <2> QED
    BY <2>1 DEF HealingGet, OnItsWay
<1>7. CASE Step(t) /\ frame[t].op # "get"
  <2>1. pc[t] \notin GetLabels
    BY <1>1, <1>7 DEF LocalsOK
  <2>2. frame'[t].op = frame[t].op \/ frame'[t] = EmptyFrame
    BY <1>1, <1>7, <2>1 DEF GetLabels, TypeOK, Step, Return, ReadLegacy, Look, Drop, ReadSubscribed,
         ReadGlobal, ReadPool, Reuse, LockCreate, Recheck, Build, Append, Mirror,
         DropService, ServicePool, ServiceClose, CloseLock, ClosePool, CloseLegacy,
         Configure, ResetPool, Swap
  <2> QED
    BY <1>7, <2>2 DEF EmptyFrame, HealingGet, OnItsWay
<1>8. CASE Step(t) /\ pc[t] = "legacy"
  <2>1. ReadLegacy(t)
    BY <1>8 DEF Step, Look, Drop, ReadSubscribed,
         ReadGlobal, ReadPool, Reuse, LockCreate, Recheck, Build, Append, Mirror,
         DropService, ServicePool, ServiceClose, CloseLock, ClosePool, CloseLegacy,
         Configure, ResetPool, Swap
  <2>2. ~Configuring'
    BY <1>1, <1>4, <2>1, NotConfiguring DEF ReadLegacy, Unlocked
  <2>3. frame'[t].conn = legacy /\ pc'[t] \in {"config", "look"}
    BY <1>1, <2>1 DEF TypeOK, ReadLegacy, Goto
  <2>4. Fresh(frame[t].conn)'
    BY <1>1, <1>2, <2>3 DEF HealingKept, TypeOK, Fresh
  <2> QED
    BY <2>2, <2>3, <2>4 DEF HealingGet, PoolLabels
<1>9. CASE Step(t) /\ OnItsWay(t)
  <2> DEFINE x == frame[t].conn
  <2>1. (Configuring' => clean' < config') /\ clean' = clean /\ pc[t] \in GetLabels
    BY <1>1, <1>4, <1>9 DEF HealingGet, OnItsWay, LocalsOK
  <2>2. x = None \/ conn'[x] = "closed" \/ madeWith'[x] >= clean'
    <3>1. x \in Conns \cup {None} /\ Fresh(x)
      BY <1>1, <1>9 DEF TypeOK, HealingGet
    <3> QED
      BY <1>2, <3>1
  <2>3. pc[t] \in {"pool"} \cup PoolLabels => frame[t].cfg >= clean
    BY <1>1, <1>9 DEF HealingGet
  <2>4. pc[t] \in PoolLabels => /\ frame[t].pool \in Configs /\ frame[t].pool <= current
                                /\ Fresh(pooled[frame[t].pool])
    BY <1>1, <1>9 DEF HealingGet, TypeOK
  <2>5. CASE /\ \/ frame'[t].conn = x
                \/ frame'[t].conn = None
                \/ conn'[frame'[t].conn] = "closed"
                \/ madeWith'[frame'[t].conn] >= clean'
             /\ pc'[t] \in {"pool"} \cup PoolLabels => frame'[t].cfg >= clean
             /\ pc'[t] \in PoolLabels => /\ frame'[t].pool \in Configs /\ frame'[t].pool <= current
                                         /\ Fresh(pooled[frame'[t].pool])
    <3>1. Fresh(frame[t].conn)'
      BY <2>2, <2>5 DEF Fresh
    <3>2. pc'[t] \in PoolLabels => frame'[t].pool <= current' /\ Fresh(pooled[frame[t].pool])'
      <4> SUFFICES ASSUME pc'[t] \in PoolLabels
                   PROVE  frame'[t].pool <= current' /\ Fresh(pooled[frame[t].pool])'
        OBVIOUS
      <4> DEFINE q == frame'[t].pool
      <4>1. q \in Configs /\ q <= current /\ Fresh(pooled[q])
        BY <2>5
      <4>2. q \in Nat /\ current <= current' /\ current \in Nat /\ current' \in Nat
        BY <1>1, <4>1, CurrentStep, Numbers DEF TypeOK
      <4> HIDE DEF q
      <4>3. q <= current'
        BY <4>1, <4>2
      <4> QED
        BY <1>3, <4>1, <4>3 DEF q
    <3> QED
      BY <2>1, <2>5, <3>1, <3>2 DEF HealingGet
  <2>6. CASE Drop(t) \/ ReadSubscribed(t) \/ ReadGlobal(t)
    <3>1. /\ frame'[t].conn = x \/ frame'[t].conn = None
          /\ pc'[t] \in {"config", "pool"} /\ (pc'[t] = "pool" => frame'[t].cfg = config)
      BY <1>1, <2>6 DEF TypeOK, Drop, ReadSubscribed, ReadGlobal, Goto
    <3> QED
      BY <1>5, <2>5, <3>1 DEF PoolLabels
  <2>7. CASE ReadPool(t)
    <3>1. /\ frame'[t].conn = x /\ frame'[t].cfg = frame[t].cfg /\ frame'[t].pool = current
          /\ pc[t] = "pool" /\ pc'[t] \in PoolLabels
      BY <1>1, <2>7 DEF TypeOK, ReadPool, Goto, PoolLabels
    <3>2. Fresh(pooled[current])
      <4>1. Configuring => clean # config
        BY <1>1, <1>9, Numbers DEF HealingGet, TypeOK
      <4> QED
        BY <1>1, <4>1 DEF HealingKept, Resetting, Configuring
    <3> QED
      BY <1>5, <2>3, <2>5, <3>1, <3>2
  <2>8. CASE Look(t) \/ LockCreate(t) \/ Append(t)
    <3>1. CASE Return(t)
      BY <1>1, <3>1, ReturnLocals DEF HealingGet, OnItsWay, EmptyFrame
    <3>2. CASE frame' = frame /\ pc[t] = "lock" /\ pc'[t] = "recheck"
      BY <2>3, <2>4, <2>5, <3>2 DEF PoolLabels
    <3>3. CASE frame' = frame /\ pc'[t] \in {"drop", "mirror"}
      BY <2>5, <3>3 DEF PoolLabels
    <3> QED
      BY <1>1, <2>8, <3>1, <3>2, <3>3 DEF TypeOK, Look, LockCreate, Append, Goto
  <2>9. CASE Reuse(t) \/ Recheck(t)
    <3> DEFINE y == pooled[frame[t].pool]
    <3>1. pc[t] \in {"reuse", "recheck"} /\ y \in Conns \cup {None}
      BY <1>1, <2>9 DEF Reuse, Recheck, TypeOK
    <3>2. Fresh(y)
      BY <2>4, <3>1 DEF PoolLabels
    <3>3. y = None \/ conn'[y] = "closed" \/ madeWith'[y] >= clean'
      BY <1>2, <3>1, <3>2
    <3>4. \/ frame' = [frame EXCEPT ![t].conn = y] /\ pc'[t] = "mirror"
          \/ frame' = frame /\ pc'[t] \in {"lock", "build"}
      BY <1>1, <2>9 DEF TypeOK, Reuse, Recheck, TakePooled, Goto
    <3>5. CASE frame' = [frame EXCEPT ![t].conn = y] /\ pc'[t] = "mirror"
      <4>1. frame'[t].conn = y
        BY <1>1, <3>5 DEF TypeOK
      <4> HIDE DEF y
      <4> QED
        BY <2>5, <3>3, <3>5, <4>1 DEF PoolLabels
    <3>6. CASE frame' = frame /\ pc'[t] \in {"lock", "build"}
      BY <2>3, <2>4, <2>5, <3>1, <3>6 DEF PoolLabels
    <3> QED
      BY <3>4, <3>5, <3>6
  <2>10. CASE Build(t)
    <3>1. frame[t].cfg >= clean /\ pc[t] = "build"
      BY <2>3, <2>10 DEF Build, PoolLabels
    <3>2. CASE \E y \in FreeConns : /\ frame' = [frame EXCEPT ![t].conn = y]
                                    /\ madeWith' = [madeWith EXCEPT ![y] = frame[t].cfg]
                                    /\ Goto(t, IF pooling[frame[t].pool] THEN "append" ELSE "mirror")
      <4>1. PICK y \in Conns : /\ frame' = [frame EXCEPT ![t].conn = y]
                               /\ madeWith' = [madeWith EXCEPT ![y] = frame[t].cfg]
                               /\ Goto(t, IF pooling[frame[t].pool] THEN "append" ELSE "mirror")
        BY <3>2 DEF FreeConns
      <4>2. frame'[t].conn = y /\ frame'[t].cfg = frame[t].cfg
            /\ frame'[t].pool = frame[t].pool /\ madeWith'[y] = frame[t].cfg
        BY <1>1, <4>1 DEF TypeOK
      <4> QED
        BY <2>1, <2>4, <2>5, <3>1, <4>2 DEF PoolLabels
    <3>3. CASE Return(t)
      BY <1>1, <3>3, ReturnLocals DEF HealingGet, OnItsWay, EmptyFrame
    <3>4. CASE frame' = [frame EXCEPT ![t].attempt = 2] /\ Goto(t, "config")
      <4>1. frame'[t].conn = x /\ pc'[t] = "config"
        BY <1>1, <3>4 DEF TypeOK, Goto
      <4> QED
        BY <2>5, <4>1 DEF PoolLabels
    <3> QED
      BY <2>10, <3>2, <3>3, <3>4 DEF Build, Fail
  <2>11. CASE Mirror(t)
    BY <1>1, <2>11, ReturnLocals DEF Mirror, EmptyFrame, HealingGet, OnItsWay
  <2>12. CASE ~(\/ Drop(t) \/ ReadSubscribed(t) \/ ReadGlobal(t) \/ ReadPool(t) \/ Look(t)
               \/ LockCreate(t) \/ Append(t) \/ Reuse(t) \/ Recheck(t) \/ Build(t) \/ Mirror(t))
    BY <1>9, <2>1, <2>12 DEF OnItsWay, GetLabels, Step, ReadLegacy, DropService, ServicePool,
       ServiceClose, CloseLock, ClosePool, CloseLegacy, Configure, ResetPool, Swap
  <2> QED
    BY <1>9, <2>6, <2>7, <2>8, <2>9, <2>10, <2>11, <2>12
<1> QED
  BY <1>6, <1>7, <1>8, <1>9 DEF Step, OnItsWay

\* What a step puts where connections are kept is fresh.
LEMMA HealingKeptStep ==
    ASSUME IInv, NEW t \in Threads, Begin(t) \/ Step(t), config' = config, clean' = clean
    PROVE  HealingKept'
<1>1. HealingKept /\ HealingGet(t) /\ LocalsOK(t) /\ TypeOK /\ MuHolder
  BY DEF IInv
<1>2. \A x \in Conns \cup {None} :
         Fresh(x) => x = None \/ conn'[x] = "closed" \/ madeWith'[x] >= clean'
  BY FreshStays DEF Fresh
<1>3. Fresh(legacy)'
  <2>1. CASE legacy' = legacy \/ legacy' = None
    BY <1>1, <1>2, <2>1 DEF Fresh, HealingKept, TypeOK
  <2>2. CASE Mirror(t)
    <3>1. Fresh(frame[t].conn) /\ frame[t].conn \in Conns \cup {None}
      BY <1>1, <2>2 DEF Mirror, LocalsOK, GetLabels, HealingGet, OnItsWay, TypeOK
    <3> QED
      BY <1>2, <2>2, <3>1 DEF Mirror, Fresh
  <2> QED
    BY <2>1, <2>2 DEF Begin, Step, Start, ReadLegacy, Look, Drop, ReadSubscribed,
         ReadGlobal, ReadPool, Reuse, LockCreate, Recheck, Build, Append,
         DropService, ServicePool, ServiceClose, CloseLock, ClosePool, CloseLegacy,
         Configure, ResetPool, Swap
<1>4. /\ \A e \in Configs : e > current => pooled'[e] = None
      /\ \A e \in Configs : Fresh(pooled[e]) => Fresh(pooled[e])'
      /\ ResetPool(t) => pooled'[current] = None
  BY PoolsStep
<1>5. /\ current \in Configs /\ config \in Configs /\ current \in Nat /\ config \in Nat
      /\ Configs \subseteq Nat
  BY <1>1, Numbers DEF TypeOK
<1>6. CASE Swap(t)
  <2>1. current < config /\ current' = config /\ ~Configuring'
    BY <1>6, CurrentStep
  <2>2. \A e \in Configs : e > current' => pooled'[e] = None
    BY <1>4, <1>5, <2>1
  <2>3. pooled'[current'] = None
    BY <1>4, <1>5, <2>1
  <2> QED
    BY <1>1, <1>3, <2>1, <2>2, <2>3 DEF HealingKept, Fresh
<1>7. CASE ResetPool(t)
  <2>1. current' = current /\ (Configuring' => Configuring)
    BY <1>7, CurrentStep DEF ResetPool, settings
  <2>2. Fresh(pooled[current])'
    BY <1>4, <1>7, <2>1 DEF Fresh
  <2> QED
    BY <1>1, <1>3, <1>4, <2>1, <2>2 DEF HealingKept
<1>8. CASE ~Swap(t) /\ ~ResetPool(t)
  <2>1. current' = current /\ (Configuring' => Configuring)
    BY <1>8, CurrentStep
  <2>2. Resetting => Resetting'
    <3>1. SUFFICES ASSUME clean = config, NEW u \in Threads, pc[u] = "resetPool"
                   PROVE  pc'[u] = "resetPool"
      BY DEF Resetting
    <3> QED
      BY <1>1, <1>8, <3>1, OthersStay, ConfiguringChange
  <2>3. Fresh(pooled[current]) => Fresh(pooled[current])'
    <3>1. SUFFICES ASSUME NEW e \in Configs, e = current, Fresh(pooled[e])
                   PROVE  Fresh(pooled[current])'
      BY <1>5
    <3> QED
      BY <1>4, <2>1, <3>1 DEF Fresh
  <2> QED
    BY <1>1, <1>3, <1>4, <2>1, <2>2, <2>3 DEF HealingKept
<1> QED
  BY <1>6, <1>7, <1>8

\* A Configure closes what the legacy map has and leaves the pool in use to its next
\* step; if no GetConnection is on its way, none will be before c.mu is free again.
LEMMA ReplaceHeals ==
    ASSUME IInv, NEW t \in Threads, Begin(t) \/ Step(t), Replaces(t)
    PROVE  HealingKept' /\ \A u \in Threads : HealingGet(u)'
<1>1. /\ HealingKept /\ TypeOK /\ MuHolder /\ PoolOfSettings
      /\ legacy' = legacy /\ pooled' = pooled /\ current' = current
  BY DEF IInv, Replaces, Configure
<1>2. ~Configuring /\ current = config
  BY <1>1, NotConfiguring DEF Replaces, Unlocked, PoolOfSettings
<1>3. clean \in Nat /\ config \in Nat /\ current \in Nat /\ clean <= config /\ config' = config + 1
  BY <1>1, Numbers DEF TypeOK, HealingKept, Replaces
<1>4. Fresh(legacy)'
  BY <1>1 DEF Replaces, Close, Fresh, TypeOK
<1>5. pc'[t] = "resetPool" /\ frame' = frame /\ \A u \in Threads \ {t} : pc'[u] = pc[u]
  BY <1>1, OthersStay DEF Replaces
<1>6. \A e \in Configs : e > current' => pooled'[e] = None
  BY <1>1 DEF HealingKept
<1>7. frame[t].op # "get"
  BY DEF IInv, LocalsOK, GetLabels, Replaces, Configure
<1>8. \A u \in Threads : OnItsWay(u)' => OnItsWay(u)
  BY <1>5, <1>7 DEF OnItsWay
<1>9. CASE (\E u \in Threads : OnItsWay(u)) /\ clean' = clean
  <2>1. ASSUME NEW x \in Conns \cup {None}, Fresh(x)
        PROVE  x = None \/ conn'[x] = "closed" \/ madeWith'[x] >= clean'
    BY <1>1, <1>9, <2>1 DEF Replaces, Close, Fresh, TypeOK
  <2>2. Fresh(pooled[current]) /\ pooled[current] \in Conns \cup {None}
    BY <1>1, <1>2 DEF HealingKept, Resetting, Configuring, TypeOK
  <2>3. Fresh(pooled[current])'
    BY <1>1, <2>1, <2>2 DEF Fresh
  <2>4. HealingKept'
    BY <1>1, <1>2, <1>3, <1>4, <1>6, <1>9, <2>3 DEF HealingKept
  <2>5. ASSUME NEW u \in Threads, OnItsWay(u)' PROVE HealingGet(u)'
    <3>1. u # t /\ pc'[u] = pc[u] /\ frame'[u] = frame[u] /\ HealingGet(u) /\ OnItsWay(u)
      BY <1>5, <1>7, <1>8, <2>5 DEF IInv, OnItsWay
    <3>2. frame[u].conn \in Conns \cup {None} /\ pooled[frame[u].pool] \in Conns \cup {None}
      BY <1>1 DEF TypeOK
    <3>3. Fresh(frame[u].conn)'
      BY <2>1, <3>1, <3>2 DEF HealingGet, Fresh
    <3>4. pc[u] \in PoolLabels => Fresh(pooled[frame[u].pool])'
      BY <1>1, <2>1, <3>1, <3>2 DEF HealingGet, Fresh
    <3> QED
      BY <1>1, <1>3, <1>9, <3>1, <3>3, <3>4 DEF HealingGet
  <2> QED
    BY <2>4, <2>5 DEF HealingGet
<1>10. CASE (\A u \in Threads : ~OnItsWay(u)) /\ clean' = config'
  <2>1. \A u \in Threads : HealingGet(u)'
    BY <1>8, <1>10 DEF HealingGet
  <2>2. Resetting'
    BY <1>5, <1>10 DEF Resetting
  <2> QED
    BY <1>1, <1>2, <1>3, <1>4, <1>6, <1>10, <2>1, <2>2 DEF HealingKept
<1> QED
  BY <1>9, <1>10 DEF Replaces

LEMMA HealingStep ==
    ASSUME IInv, NEW t \in Threads, Begin(t) \/ Step(t), LocalsOK(t)'
    PROVE  HealingKept' /\ \A u \in Threads : HealingGet(u)'
<1>1. CASE Replaces(t)
  BY <1>1, ReplaceHeals
<1>2. CASE config' = config /\ clean' = clean
  <2>1. HealingKept' /\ HealingGet(t)'
    BY <1>2, HealingKeptStep, HealingGetStep
  <2>2. ASSUME NEW u \in Threads \ {t}, OnItsWay(u) PROVE HealingGet(u)'
    <3>1. pc'[u] = pc[u] /\ frame'[u] = frame[u]
      BY OthersStay DEF IInv
    <3>2. HealingGet(u) /\ TypeOK
      BY DEF IInv
    <3>3. (Configuring' => Configuring) /\ current <= current'
      BY <1>2, CurrentStep
    <3>4. Fresh(frame[u].conn)'
      <4>1. frame[u].conn \in Conns \cup {None} /\ Fresh(frame[u].conn)
        BY <2>2, <3>2 DEF TypeOK, HealingGet
      <4>2. Fresh(frame[u].conn) =>
               \/ frame[u].conn = None \/ conn'[frame[u].conn] = "closed"
               \/ madeWith'[frame[u].conn] >= clean'
        BY <1>2, <4>1, FreshStays DEF Fresh
      <4> QED
        BY <3>1, <4>1, <4>2 DEF Fresh
    <3>5. pc[u] \in PoolLabels => frame[u].pool <= current' /\ Fresh(pooled[frame[u].pool])'
      <4>1. SUFFICES ASSUME pc[u] \in PoolLabels, NEW e \in Configs, e = frame[u].pool
                     PROVE  e <= current' /\ Fresh(pooled[frame[u].pool])'
        BY <3>2 DEF TypeOK
      <4>2. e <= current /\ Fresh(pooled[e])
        BY <2>2, <3>2, <4>1 DEF HealingGet
      <4>3. Fresh(pooled[e])'
        BY <1>2, <4>2, PoolsStep
      <4>4. e \in Nat /\ current \in Nat /\ current' \in Nat
        BY <3>2, Numbers, StepTypeOK DEF TypeOK, Next
      <4> QED
        BY <3>1, <3>3, <4>1, <4>2, <4>3, <4>4 DEF Fresh
    <3> QED
      BY <1>2, <2>2, <3>1, <3>2, <3>3, <3>4, <3>5 DEF HealingGet
  <2>3. ASSUME NEW u \in Threads \ {t}, ~OnItsWay(u) PROVE HealingGet(u)'
    BY <2>3, OthersStay DEF IInv, HealingGet, OnItsWay
  <2> QED
    BY <2>1, <2>2, <2>3
<1> QED
  BY <1>1, <1>2, ConfigChange DEF IInv

-----------------------------------------------------------------------------
(* The invariant *)

LEMMA InitIInv == Init => IInv
<1> SUFFICES ASSUME Init PROVE IInv
  OBVIOUS
<1>1. TypeOK
  BY InitTypeOK
<1>2. \A t \in Threads : LocalsOK(t)
  BY DEF Init, LocalsOK, GetLabels, HasConn, EmptyFrame
<1>3. MuHolder
  BY ClientAssumption DEF Init, MuHolder, HoldsMu
<1>4. CreateHolder
  BY ClientAssumption DEF Init, CreateHolder, Creates
<1>5. PoolOfSettings
  BY DEF Init, PoolOfSettings
<1>6. \A t \in Threads : HealingGet(t)
  BY DEF Init, HealingGet, OnItsWay, EmptyFrame
<1>7. HealingKept
  BY Numbers DEF Init, HealingKept, Fresh, Configuring
<1> QED
  BY <1>1, <1>2, <1>3, <1>4, <1>5, <1>6, <1>7 DEF IInv

LEMMA StepIInv == IInv /\ [Next]_vars => IInv'
<1> SUFFICES ASSUME IInv, [Next]_vars PROVE IInv'
  OBVIOUS
<1>0. TypeOK'
  BY StepTypeOK DEF IInv
<1>1. ASSUME NEW t \in Threads, Begin(t) \/ Step(t) PROVE IInv'
  <2>1. \A u \in Threads : LocalsOK(u)'
    <3>1. LocalsOK(t)'
      BY <1>1, StepLocals DEF IInv
    <3>2. ASSUME NEW u \in Threads \ {t} PROVE LocalsOK(u)'
      BY <1>1, OthersStay DEF IInv, LocalsOK
    <3> QED
      BY <3>1, <3>2
  <2>2. MuHolder' /\ CreateHolder' /\ PoolOfSettings'
    BY <1>1, MuStep, CreateStep, PoolOfSettingsStep DEF IInv
  <2>3. HealingKept' /\ \A u \in Threads : HealingGet(u)'
    BY <1>1, <2>1, HealingStep
  <2> QED
    BY <1>0, <2>1, <2>2, <2>3 DEF IInv
<1>2. ASSUME NEW y \in Conns, ChangeHealth(y) PROVE IInv'
  <2>1. UNCHANGED <<mu, config, current, pooling, legacy, pooled, createMu, madeWith, pc, frame, clean>>
    BY <1>2 DEF ChangeHealth, settings
  <2>2. \A x \in Conns \cup {None} : Fresh(x)' <=> Fresh(x)
    BY <1>2, <2>1 DEF ChangeHealth, Fresh, IInv, TypeOK
  <2>3. \A u \in Threads : HealingGet(u)'
    <3>1. ASSUME NEW u \in Threads PROVE HealingGet(u) => HealingGet(u)'
      BY <2>1, <2>2 DEF HealingGet, OnItsWay, Configuring, IInv, TypeOK
    <3> QED
      BY <3>1 DEF IInv
  <2>4. HealingKept'
    BY <2>1, <2>2 DEF HealingKept, Resetting, Configuring, IInv, TypeOK
  <2> QED
    BY <1>0, <2>1, <2>3, <2>4
       DEF IInv, LocalsOK, MuHolder, CreateHolder, Creates, PoolOfSettings, Configuring
<1>3. CASE UNCHANGED vars
  BY <1>0, <1>3 DEF vars, settings, IInv, LocalsOK, MuHolder, CreateHolder, Creates, PoolOfSettings,
     Configuring, HealingGet, HealingKept, OnItsWay, Resetting, Fresh
<1> QED
  BY <1>1, <1>2, <1>3 DEF Next

LEMMA Invariance == Spec => []IInv
  BY InitIInv, StepIInv, PTL DEF Spec

\* client.go:398-407: whatever Configures that overlapped a GetConnection have left
\* behind, a connection handed out is not older than the last one that overlapped none.
THEOREM SettingsAlwaysHeal == Spec => []SettingsHeal
<1>1. IInv => SettingsHeal
  <2> SUFFICES ASSUME IInv, NEW t \in Threads, HandsOut(t)
               PROVE  madeWith[frame[t].conn] >= clean
    BY DEF SettingsHeal
  <2>1. pc[t] \in {"look", "mirror"} /\ conn[frame[t].conn] # "closed"
    BY DEF HandsOut
  <2>2. HealingGet(t) /\ OnItsWay(t)
    BY <2>1 DEF IInv, LocalsOK, GetLabels, OnItsWay
  <2>3. frame[t].conn # None
    BY <2>1, ClientAssumption DEF IInv, LocalsOK, HasConn
  <2> QED
    BY <2>1, <2>2, <2>3 DEF HealingGet, Fresh
<1> QED
  BY <1>1, Invariance, PTL

\* c.mu has one holder, the goroutine in the middle of its Close or Configure, and
\* the pool in use is the one of the settings in force whenever it is free.
THEOREM MuGuardsSettings ==
    Spec => [](/\ \A t \in Threads : mu = t <=> pc[t] \in HoldsMu
               /\ mu = None => current = config)
<1>1. IInv => /\ \A t \in Threads : mu = t <=> pc[t] \in HoldsMu
              /\ mu = None => current = config
  BY NotConfiguring DEF IInv, MuHolder, PoolOfSettings
<1> QED
  BY <1>1, Invariance, PTL

\* createFunc runs once at a time for a pool: who rechecks, builds or appends for a
\* pool holds its createMu alone, and nobody who waits for a createMu or returns
\* keeps one.
THEOREM OneCreatorPerPool ==
    Spec => [](/\ \A e \in Configs, t, u \in Threads : Creates(t, e) /\ Creates(u, e) => t = u
               /\ \A e \in Configs, t \in Threads :
                     createMu[e] = t => pc[t] \in {"recheck", "build", "append"})
<1>1. IInv => /\ \A e \in Configs, t, u \in Threads : Creates(t, e) /\ Creates(u, e) => t = u
              /\ \A e \in Configs, t \in Threads :
                    createMu[e] = t => pc[t] \in {"recheck", "build", "append"}
  BY DEF IInv, CreateHolder, Creates
<1> QED
  BY <1>1, Invariance, PTL
=============================================================================
