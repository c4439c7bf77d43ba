------------------------- MODULE ConnectionPoolProofs -------------------------
(***************************************************************************)
(* Proofs about ConnectionPool for every set of services, goroutines and   *)
(* connections and all limits.  With and without the cleanup goroutine:    *)
(* types, who holds a createMu, and that its holder never waits for        *)
(* another.  Without it (its writes back break them): the owner of each    *)
(* connection, the maximum of a pool, shared dials and that only empty     *)
(* pools leave the map.                                                    *)
(***************************************************************************)
EXTENDS ConnectionPool, TLAPS, FiniteSetTheorems

\* Where a goroutine holds the createMu of its pool object, where it has one, and
\* where it is in a GetConnection.
HoldsCreate == {"recheck", "prepare", "dial", "append", "take", "remove", "release"}
HasPool == HoldsCreate \cup {"select", "lock", "closeLock"}
GetLabels == {"lookup", "insert", "reread", "direct", "select", "lock", "recheck",
              "prepare", "dial", "append"}

ThreadStep(t) ==
    \/ \E s \in Services : StartGet(t, s) \/ StartClose(t, s)
    \/ StartCloseAll(t) \/ GetStep(t) \/ CloseStep(t) \/ Acquire(t) \/ CloseDoomed(t)

\* What the locals of one goroutine say of it.
LocalsOK(t) ==
    /\ pc[t] \in GetLabels => frame[t].op = "get"
    /\ frame[t].op = "get" => frame[t].svc \in Services
    /\ pc[t] \in HasPool => frame[t].sp \in Pools
    /\ pc[t] # "direct" => frame[t].retries < MaxRetries
    /\ IF pc[t] = "append" THEN \E x \in Conns : fresh[t] = {x} ELSE fresh[t] = {}

Holds(t, p) == pc[t] \in HoldsCreate /\ frame[t].sp = p

\* The createMu of a pool object is held by the goroutine that creates in it or
\* closes it, and by nobody else.
CreateHolder ==
    \A p \in Pools, t \in Threads :
        createMu[p] = t <=> Holds(t, p)

\* What a sweep keeps of a pool are connections.
SweepTyped == \A s \in DOMAIN sweep.keep : sweep.keep[s] \subseteq Conns

LockInv == TypeOK /\ SweepTyped /\ CreateHolder /\ \A t \in Threads : LocalsOK(t)

-----------------------------------------------------------------------------
(* Types *)

LEMMA NoneApart == None \notin Pools /\ None \notin Threads /\ None \notin Services
  BY PoolAssumption

LEMMA EmptyFrameType == EmptyFrame \in FrameType
  BY DEF EmptyFrame, FrameType, MaxRetries

LEMMA InitLockInv == Init => LockInv
<1> SUFFICES ASSUME Init PROVE LockInv
  OBVIOUS
<1>1. TypeOK
  <2>1. frame \in [Threads -> FrameType]
    BY EmptyFrameType DEF Init
  <2>2. pc \in [Threads -> Labels] /\ conn \in [Conns -> {"healthy", "broken", "closed"}]
    BY DEF Init, Labels
  <2>3. /\ cleaner \in {"wait", "close", "write", "stopped"} /\ stopped \in BOOLEAN
        /\ sweep.reap \subseteq Conns /\ sweep.gone \subseteq Services
        /\ DOMAIN sweep.keep \subseteq Services
    BY DEF Init, EmptySweep
  <2>4. /\ services \in [Services -> Pools \cup {None}] /\ list \in [Pools -> SUBSET Conns]
        /\ usedBefore \subseteq (Services \cup Threads) \X (Services \cup Threads)
        /\ clocked \subseteq Threads
        /\ idleServices \subseteq Services /\ idleConns \subseteq Conns
        /\ createMu \in [Pools -> Threads \cup {None}]
        /\ doomed \in [Threads -> SUBSET Conns] /\ fresh \in [Threads -> SUBSET Conns]
    BY DEF Init
  <2> QED
    BY <2>1, <2>2, <2>3, <2>4 DEF TypeOK
<1>2. SweepTyped
  BY DEF Init, SweepTyped, EmptySweep
<1>3. CreateHolder
  BY NoneApart DEF Init, CreateHolder, Holds, HoldsCreate
<1>4. \A t \in Threads : LocalsOK(t)
  BY DEF Init, LocalsOK, GetLabels, HasPool, HoldsCreate, EmptyFrame, MaxRetries
<1> QED
  BY <1>1, <1>2, <1>3, <1>4 DEF LockInv

\* Where the steps go.
LEMMA PcType ==
    ASSUME TypeOK, NEW t \in Threads, ThreadStep(t)
    PROVE  pc' \in [Threads -> Labels]
<1> USE DEF TypeOK, Goto, Labels
<1>1. CASE (\E s \in Services : StartGet(t, s) \/ StartClose(t, s)) \/ StartCloseAll(t) \/ CloseDoomed(t)
  BY <1>1 DEF StartGet, StartClose, StartCloseAll, CloseDoomed
<1>2. CASE Return(t)
  BY <1>2 DEF Return
<1>3. CASE Lookup(t) \/ Insert(t) \/ Reread(t)
  BY <1>3 DEF Lookup, Insert, Reread
<1>4. CASE Direct(t) \/ ReadClock(t) \/ Select(t) \/ Recheck(t) \/ Dial(t) \/ AppendFresh(t) \/ DeleteAll(t)
  BY <1>2, <1>4 DEF Direct, ReadClock, Select, Recheck, SelectReusable, Dial, AppendFresh, DeleteAll
<1>5. CASE Find(t) \/ Remove(t)
  BY <1>2, <1>5 DEF Find, Remove, AfterClose
<1>6. CASE Prepare(t) \/ Take(t) \/ StopCleanup(t) \/ Snapshot(t) \/ NextPool(t) \/ Release(t)
           \/ Acquire(t)
  BY <1>6 DEF Prepare, Take, StopCleanup, Snapshot, NextPool, Release, Acquire, AcquireCreate,
              AcquireClose
<1> QED
  BY <1>1, <1>3, <1>4, <1>5, <1>6 DEF ThreadStep, GetStep, CloseStep

\* Locals with one field changed are locals.
LEMMA SetField ==
    ASSUME NEW r \in FrameType
    PROVE  /\ \A o \in {"none", "get", "close", "closeAll"} : [r EXCEPT !.op = o] \in FrameType
           /\ \A s \in Services \cup {None} : [r EXCEPT !.svc = s] \in FrameType
           /\ \A s \in Services \cup {None} : [r EXCEPT !.target = s] \in FrameType
           /\ \A p \in Pools \cup {None} : [r EXCEPT !.sp = p] \in FrameType
           /\ \A n \in 0..MaxRetries : [r EXCEPT !.retries = n] \in FrameType
           /\ \A f \in [Services -> Pools \cup {None}] : [r EXCEPT !.snap = f] \in FrameType
           /\ \A S \in SUBSET Pools : [r EXCEPT !.todo = S] \in FrameType
<1>1. \A o \in {"none", "get", "close", "closeAll"} : [r EXCEPT !.op = o] \in FrameType
  BY DEF FrameType
<1>2. \A s \in Services \cup {None} : [r EXCEPT !.svc = s] \in FrameType
  BY DEF FrameType
<1>3. \A s \in Services \cup {None} : [r EXCEPT !.target = s] \in FrameType
  BY DEF FrameType
<1>4. \A p \in Pools \cup {None} : [r EXCEPT !.sp = p] \in FrameType
  BY DEF FrameType
<1>5. \A n \in 0..MaxRetries : [r EXCEPT !.retries = n] \in FrameType
  BY DEF FrameType
<1>6. \A f \in [Services -> Pools \cup {None}] : [r EXCEPT !.snap = f] \in FrameType
  BY DEF FrameType
<1>7. \A S \in SUBSET Pools : [r EXCEPT !.todo = S] \in FrameType
  BY DEF FrameType
<1> QED
  BY <1>1, <1>2, <1>3, <1>4, <1>5, <1>6, <1>7

\* Writing one goroutine's locals.
LEMMA WriteFrame ==
    ASSUME frame \in [Threads -> FrameType], NEW t \in Threads, NEW r \in FrameType,
           frame' = [frame EXCEPT ![t] = r]
    PROVE  frame' \in [Threads -> FrameType]
  OBVIOUS

\* What the steps do to the locals.
LEMMA FrameStep ==
    ASSUME LockInv, NEW t \in Threads, ThreadStep(t)
    PROVE  frame' \in [Threads -> FrameType]
<1> DEFINE r == frame[t]
<1>1. TypeOK /\ LocalsOK(t) /\ frame \in [Threads -> FrameType] /\ r \in FrameType
  BY DEF LockInv, TypeOK
<1>2. CASE UNCHANGED frame
  BY <1>1, <1>2
<1>3. CASE Return(t)
  BY <1>1, <1>3, EmptyFrameType DEF Return
<1>4. ASSUME NEW s \in Services, StartGet(t, s) PROVE frame' \in [Threads -> FrameType]
  <2>1. frame' = [frame EXCEPT ![t] = [[r EXCEPT !.op = "get"] EXCEPT !.svc = s]]
    BY <1>1, <1>4 DEF StartGet
  <2>2. [r EXCEPT !.op = "get"] \in FrameType
    BY <1>1, SetField
  <2> QED
    BY <1>1, <2>1, <2>2, SetField, WriteFrame
<1>5. ASSUME NEW s \in Services, StartClose(t, s) PROVE frame' \in [Threads -> FrameType]
  <2>1. frame' = [frame EXCEPT ![t] = [[r EXCEPT !.op = "close"] EXCEPT !.target = s]]
    BY <1>1, <1>5 DEF StartClose
  <2>2. [r EXCEPT !.op = "close"] \in FrameType
    BY <1>1, SetField
  <2> QED
    BY <1>1, <2>1, <2>2, SetField, WriteFrame
<1>6. CASE StartCloseAll(t)
  <2>1. frame' = [frame EXCEPT ![t] = [r EXCEPT !.op = "closeAll"]]
    BY <1>1, <1>6 DEF StartCloseAll
  <2> QED
    BY <1>1, <2>1, SetField, WriteFrame
<1>7. ASSUME NEW s \in Services, frame' = [frame EXCEPT ![t].target = s]
      PROVE  frame' \in [Threads -> FrameType]
  <2>1. frame' = [frame EXCEPT ![t] = [r EXCEPT !.target = s]]
    BY <1>1, <1>7
  <2> QED
    BY <1>1, <2>1, SetField, WriteFrame
<1>8. ASSUME NEW p \in Pools \cup {None}, frame' = [frame EXCEPT ![t].sp = p]
      PROVE  frame' \in [Threads -> FrameType]
  <2>1. frame' = [frame EXCEPT ![t] = [r EXCEPT !.sp = p]]
    BY <1>1, <1>8
  <2> QED
    BY <1>1, <2>1, SetField, WriteFrame
<1>9. CASE Reread(t)
  <2>1. CASE frame[t].svc \in Pooled
    BY <1>1, <1>8, <1>9, <2>1 DEF Reread, Pooled, TypeOK
  <2>2. CASE frame[t].svc \notin Pooled
    <3> DEFINE n == r.retries + 1
    <3>1. r.retries \in 0..MaxRetries /\ r.retries < MaxRetries
      BY <1>1, <1>9 DEF LocalsOK, Reread, At, FrameType
    <3>2. n \in 0..MaxRetries
      BY <3>1 DEF MaxRetries
    <3>3. frame' = [frame EXCEPT ![t] = [r EXCEPT !.retries = n]]
      BY <1>1, <1>9, <2>2 DEF Reread
    <3> QED
      BY <1>1, <3>2, <3>3, SetField, WriteFrame
  <2> QED
    BY <2>1, <2>2
<1>10. CASE AfterClose(t)
  <2>1. CASE frame[t].op = "get"
    <3>1. frame' = [frame EXCEPT ![t] = [[r EXCEPT !.sp = None] EXCEPT !.target = None]]
      BY <1>1, <1>10, <2>1 DEF AfterClose
    <3>2. [r EXCEPT !.sp = None] \in FrameType
      BY <1>1, SetField
    <3> QED
      BY <1>1, <3>1, <3>2, SetField, WriteFrame
  <2>2. CASE frame[t].op # "get"
    BY <1>3, <1>10, <2>2 DEF AfterClose
  <2> QED
    BY <2>1, <2>2
<1>11. CASE Find(t)
  <2>1. CASE frame[t].target \in Pooled
    BY <1>1, <1>8, <1>11, <2>1 DEF Find, Pooled, TypeOK
  <2>2. CASE frame[t].target \notin Pooled
    BY <1>10, <1>11, <2>2 DEF Find
  <2> QED
    BY <2>1, <2>2
<1>12. CASE Snapshot(t)
  <2>1. frame' = [frame EXCEPT ![t] = [[r EXCEPT !.snap = services] EXCEPT !.todo = Mapped]]
    BY <1>1, <1>12 DEF Snapshot
  <2>2. services \in [Services -> Pools \cup {None}] /\ Mapped \in SUBSET Pools
    BY <1>1 DEF TypeOK, Mapped, Pooled
  <2>3. [r EXCEPT !.snap = services] \in FrameType
    BY <1>1, <2>2, SetField
  <2> QED
    BY <1>1, <2>1, <2>2, <2>3, SetField, WriteFrame
<1>13. ASSUME NEW p \in frame[t].todo,
              frame' = [frame EXCEPT ![t].sp = p, ![t].todo = @ \ {p}]
       PROVE  frame' \in [Threads -> FrameType]
  <2>1. frame' = [frame EXCEPT ![t] = [[r EXCEPT !.sp = p] EXCEPT !.todo = r.todo \ {p}]]
    BY <1>1, <1>13
  <2>2. p \in Pools /\ r.todo \ {p} \in SUBSET Pools
    BY <1>1, <1>13 DEF FrameType
  <2>3. [r EXCEPT !.sp = p] \in FrameType
    BY <1>1, <2>2, SetField
  <2> QED
    BY <1>1, <2>1, <2>2, <2>3, SetField, WriteFrame
<1>14. CASE NextPool(t)
  BY <1>2, <1>13, <1>14 DEF NextPool
<1>15. CASE GetStep(t)
  <2>1. CASE Lookup(t)
    BY <1>2, <1>7, <2>1 DEF Lookup, LeastRecentlyUsed, Pooled
  <2> QED
    BY <1>2, <1>3, <1>9, <1>15, <2>1 DEF GetStep, Insert, Direct, ReadClock, Select, SelectReusable,
       Recheck, Prepare, Dial, AppendFresh
<1>16. CASE CloseStep(t)
  BY <1>2, <1>3, <1>10, <1>11, <1>12, <1>14, <1>16
     DEF CloseStep, Take, Remove, StopCleanup, Release, DeleteAll
<1>17. CASE Acquire(t) \/ CloseDoomed(t)
  BY <1>2, <1>17 DEF Acquire, AcquireCreate, AcquireClose, CloseDoomed
<1> QED
  BY <1>4, <1>5, <1>6, <1>15, <1>16, <1>17 DEF ThreadStep

\* What the steps do to p.services, to the order of last use and to what is idle.
LEMMA RegistryStep ==
    ASSUME LockInv, NEW t \in Threads, ThreadStep(t)
    PROVE  /\ services' \in [Services -> Pools \cup {None}]
           /\ usedBefore' \subseteq (Services \cup Threads) \X (Services \cup Threads)
           /\ clocked' \subseteq Threads
           /\ idleServices' \subseteq Services
<1>1. TypeOK /\ LocalsOK(t)
  BY DEF LockInv
<1> USE DEF TypeOK, Pooled
<1>2. CASE UNCHANGED registry
  BY <1>1, <1>2 DEF registry
<1>3. CASE frame[t].svc \in Services /\ NewPool(frame[t].svc)
  BY <1>1, <1>3 DEF NewPool, FreePools, Now, Stamped
<1>4. CASE UNCHANGED services /\ \E p : Touch(t, p)
  BY <1>1, <1>4 DEF Touch, Without, Stamped
<1>5. CASE \E S : Delete(S)
  BY <1>1, <1>5 DEF Delete, Without
<1> HIDE DEF TypeOK, Pooled
<1>6. CASE Lookup(t) \/ Insert(t)
  BY <1>1, <1>2, <1>3, <1>6 DEF Lookup, Insert, LocalsOK, GetLabels, At
<1>7. CASE Select(t) \/ Recheck(t) \/ AppendFresh(t)
  BY <1>4, <1>7 DEF Select, Recheck, SelectReusable, AppendFresh
<1>8. CASE Remove(t) \/ DeleteAll(t)
  BY <1>2, <1>5, <1>8 DEF Remove, DeleteAll
<1>10. CASE ReadClock(t)
  BY <1>1, <1>10 DEF ReadClock, Now, Stamped, TypeOK, Pooled
<1>9. CASE Reread(t) \/ Direct(t) \/ Prepare(t) \/ Dial(t) \/ Find(t) \/ Take(t)
           \/ StopCleanup(t) \/ Snapshot(t) \/ NextPool(t) \/ Release(t) \/ Acquire(t)
           \/ CloseDoomed(t) \/ StartCloseAll(t)
           \/ \E s \in Services : StartGet(t, s) \/ StartClose(t, s)
  BY <1>2, <1>9 DEF Reread, Direct, Prepare, Dial, Find, Take, StopCleanup, Snapshot, NextPool,
     Release, Acquire, AcquireCreate, AcquireClose, CloseDoomed, StartCloseAll, StartGet, StartClose
<1> QED
  BY <1>6, <1>7, <1>8, <1>9, <1>10 DEF ThreadStep, GetStep, CloseStep

-----------------------------------------------------------------------------
(* What the steps do to the connections *)

SameOpen == \A x \in Conns : Open(x)' <=> Open(x)

\* Connections leave a list, and whoever took them out is to close them.
TakesOut(t) ==
    /\ \E p \in Pools, K \in SUBSET Conns :
          /\ K \subseteq list[p]
          /\ frame[t].sp = p
          /\ list' = [list EXCEPT ![p] = K]
          /\ doomed[t] = {} /\ doomed' = [doomed EXCEPT ![t] = list[p] \ K]
    /\ fresh' = fresh /\ services' = services /\ SameOpen

\* A pool object is used again, with nothing in it.
Empties(t) ==
    /\ frame[t].svc \in Services \ Pooled /\ NewPool(frame[t].svc)
    /\ doomed' = doomed /\ fresh' = fresh /\ conn' = conn

Dials(t) ==
    /\ pc[t] = "dial" /\ pc'[t] = "append"
    /\ \E x \in FreeConns : /\ conn' = [conn EXCEPT ![x] = "healthy"]
                            /\ fresh' = [fresh EXCEPT ![t] = {x}]
    /\ list' = list /\ doomed' = doomed /\ services' = services

LEMMA Effect ==
    ASSUME LockInv, NEW t \in Threads, ThreadStep(t)
    PROVE  /\ conn' \in [Conns -> {"healthy", "broken", "closed"}]
           /\ \/ list' = list /\ doomed' = doomed /\ fresh' = fresh /\ conn' = conn
              \/ TakesOut(t)
              \/ Empties(t)
              \/ Dials(t)
              \/ AppendFresh(t)
              \/ CloseDoomed(t)
<1>1. TypeOK /\ LocalsOK(t)
  BY DEF LockInv
<1>2. ASSUME SelectReusable(t, "lock") \/ SelectReusable(t, "prepare"), frame[t].sp \in Pools, doomed[t] = {}
      PROVE  TakesOut(t) /\ conn' \in [Conns -> {"healthy", "broken", "closed"}]
  <2> DEFINE p == frame[t].sp
             good == {x \in list[p] : conn[x] = "healthy"}
  <2>1. p \in Pools /\ good \in SUBSET Conns /\ good \subseteq list[p]
    BY <1>1, <1>2 DEF TypeOK
  <2>2. list' = [list EXCEPT ![p] = good] /\ fresh' = fresh
        /\ doomed' = [doomed EXCEPT ![t] = list[p] \ good] /\ services' = services
    BY <1>2 DEF SelectReusable
  <2>3. conn' = conn \/ \E x \in good : conn' = [conn EXCEPT ![x] = "broken"]
    BY <1>2 DEF SelectReusable
  <2>4. SameOpen /\ conn' \in [Conns -> {"healthy", "broken", "closed"}]
    BY <1>1, <2>3 DEF TypeOK, SameOpen, Open
  <2> HIDE DEF good, p
  <2>5. \E q \in Pools, K \in SUBSET Conns :
           /\ K \subseteq list[q] /\ frame[t].sp = q /\ list' = [list EXCEPT ![q] = K]
           /\ doomed[t] = {} /\ doomed' = [doomed EXCEPT ![t] = list[q] \ K]
    <3>1. frame[t].sp = p
      BY DEF p
    <3> QED
      BY <1>2, <2>1, <2>2, <3>1
  <2> QED
    BY <2>2, <2>4, <2>5 DEF TakesOut
<1>3. CASE Select(t) \/ Recheck(t)
  BY <1>1, <1>2, <1>3 DEF Select, Recheck, At, LocalsOK, HasPool, HoldsCreate
<1>4. CASE Empties(t)
  BY <1>1, <1>4 DEF Empties, TypeOK
<1>5. CASE UNCHANGED <<list, doomed, fresh, conn>>
  BY <1>1, <1>5 DEF TypeOK
<1>6. CASE Lookup(t) \/ Insert(t)
  <2>1. frame[t].svc \in Services
    BY <1>1, <1>6 DEF Lookup, Insert, At, LocalsOK, GetLabels
  <2> QED
    BY <1>4, <1>5, <1>6, <2>1 DEF Lookup, Insert, Empties
<1>7. CASE Prepare(t)
  <2> DEFINE p == frame[t].sp
  <2>1. p \in Pools /\ doomed[t] = {} /\ list[p] \subseteq Conns
    BY <1>1, <1>7 DEF Prepare, At, LocalsOK, HasPool, HoldsCreate, TypeOK
  <2>2. CASE \E x \in list[p] : /\ list' = [list EXCEPT ![p] = @ \ {x}]
                                /\ doomed' = [doomed EXCEPT ![t] = {x}]
    <3>1. PICK x \in list[p] : /\ list' = [list EXCEPT ![p] = @ \ {x}]
                               /\ doomed' = [doomed EXCEPT ![t] = {x}]
      BY <2>2
    <3> DEFINE K == list[p] \ {x}
    <3>2. list[p] \ K = {x} /\ K \in SUBSET Conns /\ K \subseteq list[p]
      BY <2>1
    <3>3. list' = [list EXCEPT ![p] = K] /\ doomed' = [doomed EXCEPT ![t] = list[p] \ K]
      BY <3>1, <3>2
    <3>4. fresh' = fresh /\ conn' = conn /\ services' = services /\ SameOpen
      BY <1>7 DEF Prepare, SameOpen, Open, registry
    <3> HIDE DEF K
    <3> QED
      BY <1>1, <2>1, <3>2, <3>3, <3>4 DEF TakesOut, TypeOK
  <2>3. CASE UNCHANGED <<list, doomed>>
    BY <1>5, <1>7, <2>3 DEF Prepare
  <2> QED
    BY <1>7, <2>2, <2>3 DEF Prepare
<1>8. CASE Take(t)
  <2> DEFINE p == frame[t].sp
  <2>1. p \in Pools /\ doomed[t] = {}
    BY <1>1, <1>8 DEF Take, At, LocalsOK, HasPool, HoldsCreate
  <2>2. list' = [list EXCEPT ![p] = {}] /\ doomed' = [doomed EXCEPT ![t] = list[p] \ {}]
        /\ fresh' = fresh /\ conn' = conn /\ services' = services /\ SameOpen
    BY <1>8 DEF Take, SameOpen, Open, registry
  <2> QED
    BY <1>1, <2>1, <2>2 DEF TakesOut, TypeOK
<1>9. CASE Dial(t)
  <2>1. CASE \E x \in FreeConns : /\ conn' = [conn EXCEPT ![x] = "healthy"]
                                  /\ fresh' = [fresh EXCEPT ![t] = {x}]
                                  /\ Goto(t, "append")
    BY <1>1, <1>9, <2>1 DEF Dial, Dials, At, Goto, FreeConns, TypeOK, registry
  <2>2. CASE UNCHANGED <<conn, fresh>>
    BY <1>5, <1>9, <2>2 DEF Dial
  <2> QED
    BY <1>9, <2>1, <2>2 DEF Dial
<1>10. CASE AppendFresh(t)
  BY <1>1, <1>10 DEF AppendFresh, TypeOK
<1>11. CASE CloseDoomed(t)
  BY <1>1, <1>11 DEF CloseDoomed, TypeOK
<1>12. CASE Reread(t) \/ Direct(t) \/ ReadClock(t) \/ Find(t) \/ Remove(t) \/ DeleteAll(t)
           \/ StopCleanup(t) \/ Snapshot(t) \/ NextPool(t) \/ Release(t) \/ Acquire(t)
           \/ StartCloseAll(t) \/ \E s \in Services : StartGet(t, s) \/ StartClose(t, s)
  BY <1>5, <1>12 DEF Reread, Direct, ReadClock, Find, Remove, DeleteAll, StopCleanup, Snapshot, NextPool,
     Release, Acquire, AcquireCreate, AcquireClose, StartCloseAll, StartGet, StartClose
<1> QED
  BY <1>3, <1>6, <1>7, <1>8, <1>9, <1>10, <1>11, <1>12 DEF ThreadStep, GetStep, CloseStep

LEMMA ListType ==
    ASSUME LockInv, NEW t \in Threads, ThreadStep(t)
    PROVE  /\ list' \in [Pools -> SUBSET Conns]
           /\ doomed' \in [Threads -> SUBSET Conns] /\ fresh' \in [Threads -> SUBSET Conns]
<1>1. TypeOK
  BY DEF LockInv
<1> USE DEF TypeOK
<1>2. CASE list' = list /\ doomed' = doomed /\ fresh' = fresh /\ conn' = conn
  BY <1>1, <1>2
<1>3. CASE TakesOut(t)
  BY <1>1, <1>3 DEF TakesOut
<1>4. CASE Empties(t)
  BY <1>1, <1>4 DEF Empties, NewPool, FreePools
<1>5. CASE Dials(t)
  BY <1>1, <1>5 DEF Dials, FreeConns
<1>6. CASE AppendFresh(t)
  BY <1>1, <1>6 DEF AppendFresh
<1>7. CASE CloseDoomed(t)
  BY <1>1, <1>7 DEF CloseDoomed
<1> QED
  BY <1>2, <1>3, <1>4, <1>5, <1>6, <1>7, Effect

LEMMA ThreadTypeOK ==
    ASSUME LockInv, NEW t \in Threads, ThreadStep(t)
    PROVE  TypeOK'
<1>1. TypeOK
  BY DEF LockInv
<1>2. idleConns' \subseteq Conns
  <2>1. idleConns' = idleConns \/ \E S : idleConns' = idleConns \ S
    BY DEF ThreadStep, GetStep, CloseStep, Lookup, Insert, Reread, Direct, ReadClock, Select, Recheck,
       SelectReusable, Prepare, Dial, AppendFresh, Find, Take, Remove, StopCleanup, Snapshot,
       NextPool, Release, DeleteAll, Acquire, AcquireCreate, AcquireClose, CloseDoomed,
       StartGet, StartClose, StartCloseAll
  <2> QED
    BY <1>1, <2>1 DEF TypeOK
<1>3. createMu' \in [Pools -> Threads \cup {None}]
  <2> USE DEF TypeOK
  <2>1. CASE UNCHANGED createMu
    BY <1>1, <2>1
  <2>2. CASE createMu' = [p \in Pools |-> IF createMu[p] = t THEN None ELSE createMu[p]]
    BY <1>1, <2>2
  <2>3. CASE \E p : Lock(t, p) \/ Unlock(p)
    BY <1>1, <2>3 DEF Lock, Unlock
  <2> HIDE DEF TypeOK
  <2>4. CASE GetStep(t)
    BY <2>1, <2>2, <2>4 DEF GetStep, Lookup, Insert, Reread, Direct, ReadClock, Select, Recheck,
       SelectReusable, Prepare, Dial, AppendFresh, Return
  <2>5. CASE CloseStep(t)
    BY <2>1, <2>2, <2>3, <2>5 DEF CloseStep, Find, AfterClose, Take, Remove, StopCleanup, Snapshot,
       NextPool, Release, DeleteAll, Return
  <2>6. CASE Acquire(t)
    BY <2>3, <2>6 DEF Acquire, AcquireCreate, AcquireClose
  <2> QED
    BY <2>1, <2>4, <2>5, <2>6 DEF ThreadStep, CloseDoomed, StartGet, StartClose, StartCloseAll
<1>4. /\ cleaner' = cleaner /\ sweep' = sweep
      /\ stopped' \in BOOLEAN
  BY <1>1 DEF TypeOK, ThreadStep, GetStep, CloseStep, Lookup, Insert, Reread, Direct, ReadClock, Select, Recheck,
     SelectReusable, Prepare, Dial, AppendFresh, Find, Take, Remove, StopCleanup, Snapshot,
     NextPool, Release, DeleteAll, Acquire, AcquireCreate, AcquireClose, CloseDoomed,
     StartGet, StartClose, StartCloseAll, reaper
<1>5. pc' \in [Threads -> Labels] /\ frame' \in [Threads -> FrameType]
  BY <1>1, PcType, FrameStep
<1>6. conn' \in [Conns -> {"healthy", "broken", "closed"}]
  BY Effect
<1> QED
  BY <1>1, <1>2, <1>3, <1>4, <1>5, <1>6, RegistryStep, ListType DEF TypeOK

-----------------------------------------------------------------------------
(* Locks *)

\* A step of one goroutine leaves the others where they are, with their locals
\* and what they have taken or made, and the sweeps where they are.
LEMMA OthersStay ==
    ASSUME TypeOK, NEW t \in Threads, ThreadStep(t)
    PROVE  /\ \A u \in Threads \ {t} : /\ pc'[u] = pc[u] /\ frame'[u] = frame[u]
                                       /\ doomed'[u] = doomed[u] /\ fresh'[u] = fresh[u]
           /\ cleaner' = cleaner /\ sweep' = sweep
<1> USE DEF TypeOK
<1>1. CASE GetStep(t)
  BY <1>1 DEF GetStep, Lookup, Insert, Reread, Direct, ReadClock, Select, Recheck,
     SelectReusable, Prepare, Dial, AppendFresh, Return, Goto, reaper
<1>2. CASE CloseStep(t)
  BY <1>2 DEF CloseStep, Find, AfterClose, Take, Remove, StopCleanup, Snapshot,
     NextPool, Release, DeleteAll, Return, Goto, reaper
<1>3. CASE ~GetStep(t) /\ ~CloseStep(t)
  BY <1>3 DEF ThreadStep, Acquire, AcquireCreate, AcquireClose, CloseDoomed, StartGet, StartClose,
     StartCloseAll, Goto, reaper
<1> QED
  BY <1>1, <1>2, <1>3

LEMMA ReturnLocals ==
    ASSUME TypeOK, NEW t \in Threads, Return(t)
    PROVE  /\ pc'[t] = "idle" /\ frame'[t] = EmptyFrame
           /\ createMu' = [p \in Pools |-> IF createMu[p] = t THEN None ELSE createMu[p]]
  BY DEF TypeOK, Return, Goto

LEMMA FreshStep ==
    ASSUME LockInv, NEW t \in Threads, ThreadStep(t)
    PROVE  IF pc'[t] = "append" THEN \E x \in Conns : fresh'[t] = {x} ELSE fresh'[t] = {}
<1>1. TypeOK /\ LocalsOK(t)
  BY DEF LockInv
<1>2. CASE Dials(t)
  BY <1>1, <1>2 DEF Dials, FreeConns, TypeOK
<1>3. CASE AppendFresh(t)
  BY <1>1, <1>3, ReturnLocals DEF AppendFresh, TypeOK
<1>4. CASE ~Dials(t) /\ ~AppendFresh(t)
  <2>1. fresh'[t] = fresh[t]
    BY <1>1, <1>4, Effect DEF TakesOut, Empties, CloseDoomed
  <2>2. CASE CloseDoomed(t)
    BY <1>1, <2>1, <2>2 DEF CloseDoomed, LocalsOK
  <2>3. CASE ~CloseDoomed(t)
    <3> CASE ReadClock(t)
      BY <1>1, <2>1 DEF ReadClock, LocalsOK
    <3> SUFFICES ASSUME ~ReadClock(t)
                 PROVE  IF pc'[t] = "append" THEN \E x \in Conns : fresh'[t] = {x}
                                             ELSE fresh'[t] = {}
      OBVIOUS
    <3>1. pc[t] # "append"
      BY <1>4, <2>3 DEF ThreadStep, GetStep, CloseStep, Lookup, Insert, Reread, Direct, ReadClock, Select, Recheck,
         Prepare, Dial, Find, Take, Remove, StopCleanup, Snapshot,
         NextPool, Release, DeleteAll, Acquire, AcquireCreate, AcquireClose,
         StartGet, StartClose, StartCloseAll, At
    <3>2. pc'[t] # "append"
      <4>1. CASE Dial(t)
        <5>1. CASE Return(t)
          BY <1>1, <5>1, ReturnLocals
        <5>2. CASE (\E x \in FreeConns : /\ conn' = [conn EXCEPT ![x] = "healthy"]
                                        /\ fresh' = [fresh EXCEPT ![t] = {x}])
                   /\ Goto(t, "append")
          BY <1>1, <1>4, <4>1, <5>2 DEF Dial, Dials, At, Goto, TypeOK, registry
        <5> QED
          BY <4>1, <5>1, <5>2 DEF Dial
      <4>2. CASE GetStep(t) /\ ~Dial(t)
        BY <1>1, <1>4, <4>2 DEF TypeOK, GetStep, Lookup, Insert, Reread, Direct, ReadClock, Select, Recheck,
           SelectReusable, Prepare, Return, Goto
      <4>3. CASE CloseStep(t)
        BY <1>1, <4>3 DEF TypeOK, CloseStep, Find, AfterClose, Take, Remove, StopCleanup, Snapshot,
           NextPool, Release, DeleteAll, Return, Goto
      <4>4. CASE ~GetStep(t) /\ ~CloseStep(t)
        BY <1>1, <2>3, <4>4 DEF TypeOK, ThreadStep, Acquire, AcquireCreate, AcquireClose, StartGet,
           StartClose, StartCloseAll, Goto
      <4> QED
        BY <4>1, <4>2, <4>3, <4>4
    <3> QED
      BY <1>1, <2>1, <3>1, <3>2 DEF LocalsOK
  <2> QED
    BY <2>2, <2>3
<1> QED
  BY <1>2, <1>3, <1>4

\* What writing a field leaves of the others.
LEMMA WroteTarget ==
    ASSUME frame \in [Threads -> FrameType], NEW t \in Threads, NEW v,
           frame' = [frame EXCEPT ![t].target = v]
    PROVE  /\ frame'[t].op = frame[t].op /\ frame'[t].svc = frame[t].svc
           /\ frame'[t].retries = frame[t].retries /\ frame'[t].sp = frame[t].sp
<1>1. frame'[t] = [frame[t] EXCEPT !.target = v]
  OBVIOUS
<1> QED
  BY <1>1 DEF FrameType

LEMMA WrotePool ==
    ASSUME frame \in [Threads -> FrameType], NEW t \in Threads, NEW v, NEW w,
           \/ frame' = [frame EXCEPT ![t].sp = v]
           \/ frame' = [frame EXCEPT ![t].sp = v, ![t].todo = w]
           \/ frame' = [frame EXCEPT ![t].sp = v, ![t].target = w]
    PROVE  /\ frame'[t].op = frame[t].op /\ frame'[t].svc = frame[t].svc
           /\ frame'[t].retries = frame[t].retries /\ frame'[t].sp = v
<1>1. \/ frame'[t] = [frame[t] EXCEPT !.sp = v]
      \/ frame'[t] = [frame[t] EXCEPT !.sp = v, !.todo = w]
      \/ frame'[t] = [frame[t] EXCEPT !.sp = v, !.target = w]
  OBVIOUS
<1> QED
  BY <1>1 DEF FrameType

LEMMA LocalsStep ==
    ASSUME LockInv, NEW t \in Threads, ThreadStep(t)
    PROVE  LocalsOK(t)'
<1> DEFINE Fields ==
        /\ pc'[t] \in GetLabels => frame'[t].op = "get"
        /\ frame'[t].op = "get" => frame'[t].svc \in Services
        /\ pc'[t] \in HasPool => frame'[t].sp \in Pools
        /\ pc'[t] # "direct" => frame'[t].retries < MaxRetries
<1>1. /\ pc \in [Threads -> Labels] /\ frame \in [Threads -> FrameType]
      /\ TypeOK /\ LocalsOK(t)
  BY DEF LockInv, TypeOK
<1>2. SUFFICES Fields
  BY FreshStep DEF LocalsOK
<1> USE DEF LocalsOK, GetLabels, HasPool, HoldsCreate, At
<1>3. CASE Return(t)
  BY <1>1, <1>3, ReturnLocals DEF EmptyFrame, MaxRetries
<1>4. CASE \E s \in Services : StartGet(t, s)
  BY <1>1, <1>4 DEF StartGet, Goto, TypeOK
<1>5. CASE (\E s \in Services : StartClose(t, s)) \/ StartCloseAll(t)
  <2>1. frame'[t].op \in {"close", "closeAll"} /\ frame'[t].retries = frame[t].retries
    BY <1>1, <1>5 DEF StartClose, StartCloseAll, FrameType
  <2>2. pc'[t] \in {"find", "stop"} /\ pc[t] = "idle"
    BY <1>1, <1>5 DEF StartClose, StartCloseAll, Goto
  <2> QED
    BY <1>1, <2>1, <2>2
<1>6. CASE CloseDoomed(t)
  BY <1>1, <1>6 DEF CloseDoomed
<1>7. CASE Lookup(t) \/ Insert(t)
  <2>1. pc[t] \in {"lookup", "insert"} /\ pc'[t] \in {"reread", "insert", "find"}
    BY <1>1, <1>7 DEF Lookup, Insert, Goto
  <2>2. frame' = frame \/ \E s : frame' = [frame EXCEPT ![t].target = s]
    BY <1>7 DEF Lookup, Insert
  <2>3. frame'[t].op = frame[t].op /\ frame'[t].svc = frame[t].svc
        /\ frame'[t].retries = frame[t].retries
    BY <1>1, <2>2, WroteTarget
  <2> QED
    BY <1>1, <2>1, <2>3
<1>8. CASE Reread(t)
  <2>1. CASE frame[t].svc \in Pooled
    <3>1. services[frame[t].svc] \in Pools
      BY <1>1, <2>1 DEF Pooled, TypeOK
    <3>2. pc[t] = "reread" /\ pc'[t] = "select"
          /\ frame' = [frame EXCEPT ![t].sp = services[frame[t].svc]]
      BY <1>1, <1>8, <2>1 DEF Reread, Goto
    <3> QED
      BY <1>1, <3>1, <3>2, WrotePool
  <2>2. CASE frame[t].svc \notin Pooled
    <3> DEFINE n == frame[t].retries + 1
    <3>1. frame' = [frame EXCEPT ![t].retries = n]
          /\ pc'[t] = IF n >= MaxRetries THEN "direct" ELSE "lookup"
      BY <1>1, <1>8, <2>2 DEF Reread, Goto, TypeOK
    <3>2. n \in Nat
      BY <1>1 DEF TypeOK, FrameType
    <3>3. frame'[t].op = frame[t].op /\ frame'[t].svc = frame[t].svc /\ frame'[t].retries = n
      BY <1>1, <3>1 DEF TypeOK, FrameType
    <3>4. frame[t].op = "get"
      BY <1>1, <1>8 DEF Reread
    <3> HIDE DEF n
    <3>5. pc'[t] # "direct" => n < MaxRetries
      BY <3>1, <3>2 DEF MaxRetries
    <3> QED
      BY <1>1, <3>1, <3>3, <3>4, <3>5
  <2> QED
    BY <2>1, <2>2
<1>9. CASE ReadClock(t) \/ ((Select(t) \/ Recheck(t) \/ Dial(t)) /\ UNCHANGED frame)
  BY <1>1, <1>9 DEF ReadClock, Select, Recheck, SelectReusable, Dial, Return, Goto, TypeOK, EmptyFrame
<1>10. CASE Prepare(t) \/ Take(t) \/ StopCleanup(t) \/ Release(t)
  BY <1>1, <1>10 DEF Prepare, Take, StopCleanup, Release, Goto, TypeOK
<1>11. CASE AfterClose(t) /\ pc[t] # "direct"
  <2>1. CASE frame[t].op = "get"
    <3>1. pc'[t] = "insert" /\ frame' = [frame EXCEPT ![t].sp = None, ![t].target = None]
      BY <1>1, <1>11, <2>1 DEF AfterClose, Goto
    <3> QED
      BY <1>1, <1>11, <2>1, <3>1, WrotePool
  <2>2. CASE frame[t].op # "get"
    BY <1>3, <1>11, <2>2 DEF AfterClose
  <2> QED
    BY <2>1, <2>2
<1>12. CASE Find(t)
  <2>1. CASE frame[t].target \in Pooled
    <3>1. services[frame[t].target] \in Pools
      BY <1>1, <2>1 DEF Pooled, TypeOK
    <3>2. pc[t] = "find" /\ pc'[t] = "closeLock"
          /\ frame' = [frame EXCEPT ![t].sp = services[frame[t].target]]
      BY <1>1, <1>12, <2>1 DEF Find, Goto
    <3> QED
      BY <1>1, <3>1, <3>2, WrotePool
  <2>2. CASE frame[t].target \notin Pooled
    BY <1>11, <1>12, <2>2 DEF Find
  <2> QED
    BY <2>1, <2>2
<1>13. CASE Snapshot(t)
  BY <1>1, <1>13 DEF Snapshot, Goto, TypeOK
<1>14. CASE NextPool(t)
  <2>1. frame[t].todo \subseteq Pools
    BY <1>1 DEF TypeOK, FrameType
  <2>2. CASE \E p \in frame[t].todo : frame' = [frame EXCEPT ![t].sp = p, ![t].todo = @ \ {p}]
    <3>1. PICK p \in frame[t].todo : frame' = [frame EXCEPT ![t].sp = p, ![t].todo = frame[t].todo \ {p}]
      BY <1>1, <2>2
    <3>2. pc[t] = "nextPool" /\ pc'[t] \in {"delete", "closeLock"}
      BY <1>1, <1>14 DEF NextPool, Goto
    <3> QED
      BY <1>1, <2>1, <3>1, <3>2, WrotePool
  <2>3. CASE Goto(t, "delete") /\ UNCHANGED frame
    BY <1>1, <1>14, <2>3 DEF NextPool, Goto
  <2> QED
    BY <1>14, <2>2, <2>3 DEF NextPool
<1>15. CASE Acquire(t)
  BY <1>1, <1>15 DEF Acquire, AcquireCreate, AcquireClose, Goto, TypeOK
<1> HIDE DEF LocalsOK, GetLabels, HasPool, HoldsCreate, At
<1>16. CASE GetStep(t)
  BY <1>3, <1>7, <1>8, <1>9, <1>10, <1>16 DEF GetStep, Direct, Select, Recheck, SelectReusable, Dial, AppendFresh
<1>17. CASE CloseStep(t)
  BY <1>3, <1>10, <1>11, <1>12, <1>13, <1>14, <1>17 DEF CloseStep, Remove, DeleteAll, At
<1> QED
  BY <1>4, <1>5, <1>6, <1>15, <1>16, <1>17 DEF ThreadStep

LEMMA CreateHolderStep ==
    ASSUME LockInv, NEW t \in Threads, ThreadStep(t)
    PROVE  CreateHolder'
<1>1. /\ TypeOK /\ CreateHolder /\ LocalsOK(t)
      /\ pc \in [Threads -> Labels] /\ frame \in [Threads -> FrameType]
      /\ createMu \in [Pools -> Threads \cup {None}]
  BY DEF LockInv, TypeOK
<1>2. \A u \in Threads \ {t}, p \in Pools : Holds(u, p)' <=> Holds(u, p)
  BY <1>1, OthersStay DEF Holds
<1>3. CASE createMu' = createMu /\ \A p \in Pools : Holds(t, p)' <=> Holds(t, p)
  BY <1>1, <1>2, <1>3 DEF CreateHolder
<1>4. CASE /\ createMu' = [p \in Pools |-> IF createMu[p] = t THEN None ELSE createMu[p]]
           /\ pc'[t] \notin HoldsCreate
  BY <1>1, <1>2, <1>4, NoneApart DEF CreateHolder, Holds
<1>5. CASE createMu' = createMu /\ frame'[t].sp = frame[t].sp
           /\ (pc'[t] \in HoldsCreate <=> pc[t] \in HoldsCreate)
  BY <1>3, <1>5 DEF Holds
<1>6. CASE createMu' = createMu /\ pc'[t] \notin HoldsCreate /\ pc[t] \notin HoldsCreate
  BY <1>3, <1>6 DEF Holds
<1>7. CASE Return(t)
  BY <1>1, <1>4, <1>7, ReturnLocals DEF HoldsCreate
<1>8. CASE AfterClose(t)
  BY <1>1, <1>4, <1>7, <1>8 DEF AfterClose, Goto, HoldsCreate
<1>9. CASE Acquire(t)
  <2> DEFINE p == frame[t].sp
  <2>1. /\ p \in Pools /\ createMu[p] = None /\ createMu' = [createMu EXCEPT ![p] = t]
        /\ pc[t] \notin HoldsCreate /\ pc'[t] \in HoldsCreate /\ frame' = frame
    BY <1>1, <1>9 DEF Acquire, AcquireCreate, AcquireClose, Lock, At, Goto, HoldsCreate, HasPool, LocalsOK
  <2> HIDE DEF p
  <2>2. \A q \in Pools : ~Holds(t, q) /\ (Holds(t, q)' <=> q = p)
    BY <2>1 DEF Holds, p
  <2> QED
    BY <1>1, <1>2, <2>1, <2>2, NoneApart DEF CreateHolder
<1>10. CASE Release(t)
  <2> DEFINE p == frame[t].sp
  <2>1. /\ p \in Pools /\ createMu' = [createMu EXCEPT ![p] = None]
        /\ pc[t] \in HoldsCreate /\ pc'[t] \notin HoldsCreate
    BY <1>1, <1>10 DEF Release, Unlock, At, Goto, HoldsCreate, HasPool, LocalsOK
  <2> HIDE DEF p
  <2>2. \A q \in Pools : ~Holds(t, q)' /\ (Holds(t, q) <=> q = p)
    BY <2>1 DEF Holds, p
  <2> QED
    BY <1>1, <1>2, <2>1, <2>2, NoneApart DEF CreateHolder
<1>11. CASE (Select(t) \/ Recheck(t) \/ Dial(t)) /\ ~Return(t)
  <2>1. createMu' = createMu /\ frame' = frame
        /\ (pc'[t] \in HoldsCreate <=> pc[t] \in HoldsCreate)
    BY <1>1, <1>11 DEF Select, Recheck, SelectReusable, Dial, At, Goto, HoldsCreate
  <2> QED
    BY <1>5, <2>1
<1>12. CASE Prepare(t) \/ Take(t) \/ CloseDoomed(t) \/ ReadClock(t)
  <2>1. createMu' = createMu /\ frame' = frame
        /\ (pc'[t] \in HoldsCreate <=> pc[t] \in HoldsCreate)
    BY <1>1, <1>12 DEF Prepare, Take, CloseDoomed, ReadClock, At, Goto, HoldsCreate
  <2> QED
    BY <1>5, <2>1
<1>13. CASE Lookup(t) \/ Insert(t) \/ Reread(t) \/ StopCleanup(t) \/ Snapshot(t) \/ NextPool(t)
            \/ (Find(t) /\ ~AfterClose(t)) \/ StartCloseAll(t)
            \/ \E s \in Services : StartGet(t, s) \/ StartClose(t, s)
  <2>1. createMu' = createMu /\ pc'[t] \notin HoldsCreate /\ pc[t] \notin HoldsCreate
    BY <1>1, <1>13 DEF Lookup, Insert, Reread, StopCleanup, Snapshot, NextPool, Find, StartCloseAll,
       StartGet, StartClose, At, Goto, HoldsCreate
  <2> QED
    BY <1>6, <2>1
<1> QED
  BY <1>7, <1>8, <1>9, <1>10, <1>11, <1>12, <1>13
     DEF ThreadStep, GetStep, CloseStep, Direct, AppendFresh, Remove, DeleteAll

LEMMA ThreadLockInv ==
    ASSUME LockInv, NEW t \in Threads, ThreadStep(t)
    PROVE  LockInv'
<1>1. TypeOK'
  BY ThreadTypeOK
<1>2. SweepTyped'
  BY OthersStay DEF LockInv, SweepTyped
<1>3. ASSUME NEW u \in Threads \ {t} PROVE LocalsOK(u)'
  BY OthersStay DEF LockInv, LocalsOK
<1> QED
  BY <1>1, <1>2, <1>3, LocalsStep, CreateHolderStep DEF LockInv

\* The sweeps, the environment and what no goroutine takes part in.
LEMMA OtherLockInv ==
    ASSUME LockInv, \/ Sweep \/ CleanerExits \/ GoIdle \/ UNCHANGED vars
                    \/ \E x \in Breakable : ChangeHealth(x)
    PROVE  LockInv' /\ UNCHANGED <<createMu, pc, frame, doomed, fresh>>
<1>1. TypeOK /\ SweepTyped
  BY DEF LockInv
<1>2. UNCHANGED <<createMu, pc, frame, doomed, fresh>>
  BY DEF Sweep, Collect, Reap, WriteBack, CleanerExits, GoIdle, ChangeHealth, vars
<1>3. SweepTyped' /\ TypeOK'
  <2>1. CASE Collect
    <3> DEFINE gone == Pooled \cap idleServices
               keep == [s \in Pooled \ gone |-> list[services[s]] \ idleConns]
               reap == (UNION {list[services[s]] : s \in gone}) \cup
                       (UNION {list[services[s]] \cap idleConns : s \in Pooled})
    <3>1. \A s \in Pooled : s \in Services /\ list[services[s]] \in SUBSET Conns
      BY <1>1 DEF Pooled, TypeOK
    <3>2. sweep' = [gone |-> gone, keep |-> keep, reap |-> reap]
      BY <2>1 DEF Collect
    <3>3. gone \subseteq Services /\ DOMAIN keep \subseteq Services
      BY <3>1
    <3>4. \A s \in DOMAIN keep : keep[s] \subseteq Conns
      BY <3>1
    <3> DEFINE idle == UNION {list[services[s]] : s \in gone}
               rest == UNION {list[services[s]] \cap idleConns : s \in Pooled}
    <3>5. idle \subseteq Conns /\ rest \subseteq Conns
      BY <3>1
    <3>6. reap \subseteq Conns
      <4>1. reap = idle \cup rest
        OBVIOUS
      <4> HIDE DEF idle, rest, reap
      <4> QED
        BY <3>5, <4>1
    <3> HIDE DEF gone, keep, reap
    <3>7. sweep'.gone = gone /\ sweep'.keep = keep /\ sweep'.reap = reap
      BY <3>2
    <3>8. UNCHANGED <<services, usedBefore, clocked, idleServices, list, idleConns, conn, stopped>>
          /\ cleaner' = "close"
      BY <2>1 DEF Collect, registry
    <3> QED
      BY <1>1, <1>2, <3>3, <3>4, <3>6, <3>7, <3>8 DEF SweepTyped, TypeOK
  <2>2. CASE WriteBack
    <3> DEFINE kept == (DOMAIN sweep.keep) \cap Pooled
    <3>1. list' \in [Pools -> SUBSET Conns]
      <4>1. SUFFICES ASSUME NEW p \in Pools, \E s \in kept : services[s] = p
                     PROVE  sweep.keep[CHOOSE s \in kept : services[s] = p] \subseteq Conns
        BY <1>1, <2>2 DEF WriteBack, TypeOK
      <4>2. (CHOOSE s \in kept : services[s] = p) \in kept
        BY <4>1
      <4> QED
        BY <1>1, <4>2 DEF SweepTyped
    <3>2. /\ services' \in [Services -> Pools \cup {None}]
          /\ usedBefore' \subseteq (Services \cup Threads) \X (Services \cup Threads)
          /\ clocked' \subseteq Threads /\ idleServices' \subseteq Services
      BY <1>1, <2>2 DEF WriteBack, Delete, Without, TypeOK
    <3>3. /\ sweep'.reap \subseteq Conns /\ sweep'.gone \subseteq Services
          /\ DOMAIN sweep'.keep = {}
      BY <2>2 DEF WriteBack, EmptySweep
    <3>4. UNCHANGED <<idleConns, conn, stopped>> /\ cleaner' = "wait"
      BY <2>2 DEF WriteBack
    <3> QED
      BY <1>1, <1>2, <3>1, <3>2, <3>3, <3>4 DEF SweepTyped, TypeOK
  <2>3. CASE Reap \/ CleanerExits
    BY <1>1, <1>2, <2>3 DEF Reap, CleanerExits, SweepTyped, TypeOK, registry
  <2>4. CASE GoIdle
    <3>1. idleConns' \subseteq Conns /\ idleServices' \subseteq Services
      BY <1>1, <2>4 DEF GoIdle, TypeOK, Pooled
    <3>2. UNCHANGED <<services, usedBefore, clocked, list, conn, cleaner, sweep, stopped>>
      BY <2>4 DEF GoIdle, reaper
    <3> QED
      BY <1>1, <1>2, <3>1, <3>2 DEF SweepTyped, TypeOK
  <2>5. CASE \E x \in Breakable : ChangeHealth(x)
    BY <1>1, <1>2, <2>5 DEF ChangeHealth, SweepTyped, TypeOK, registry, reaper
  <2>6. CASE UNCHANGED vars
    BY <1>1, <2>6 DEF vars, SweepTyped, TypeOK, registry, reaper
  <2> QED
    BY <2>1, <2>2, <2>3, <2>4, <2>5, <2>6 DEF Sweep
<1> QED
  BY <1>2, <1>3 DEF LockInv, CreateHolder, Holds, LocalsOK

LEMMA NextCases ==
    ASSUME [Next]_vars
    PROVE  \/ \E t \in Threads : ThreadStep(t)
           \/ Sweep \/ CleanerExits \/ GoIdle \/ UNCHANGED vars
           \/ \E x \in Breakable : ChangeHealth(x)
  BY DEF Next, ThreadStep

LEMMA LockInvariance == Spec => []LockInv
<1>1. LockInv /\ [Next]_vars => LockInv'
  BY NextCases, ThreadLockInv, OtherLockInv
<1> QED
  BY <1>1, InitLockInv, PTL DEF Spec

\* The state stays within its types, sweeps or not; a get is retried at most
\* maxGetConnectionRetries times.
THEOREM TypeCorrect == Spec => []TypeOK
<1>1. LockInv => TypeOK
  BY DEF LockInv
<1> QED
  BY <1>1, LockInvariance, PTL

\* connection_pool.go:172, 353, 395: sweeps or not, a goroutine that waits for a
\* createMu holds none, so no two can wait for each other.
THEOREM NoLockCycle == Spec => []HolderNeverWaits
<1>1. LockInv => HolderNeverWaits
  BY DEF LockInv, CreateHolder, Holds, HoldsCreate, HolderNeverWaits
<1> QED
  BY <1>1, LockInvariance, PTL

\* connection_pool.go:172: no two goroutines create in, or close, one pool object
\* at a time.
THEOREM OneAtATime ==
    Spec => [](\A p \in Pools, t, u \in Threads : Holds(t, p) /\ Holds(u, p) => t = u)
<1>1. LockInv => \A p \in Pools, t, u \in Threads : Holds(t, p) /\ Holds(u, p) => t = u
  BY DEF LockInv, CreateHolder
<1> QED
  BY <1>1, LockInvariance, PTL

-----------------------------------------------------------------------------
(* Without the cleanup goroutine: owners, limits and closes *)

\* One owner for x, and x is open while it has one.
OneOwner(x) ==
    /\ \A p, q \in Pools : x \in list[p] /\ x \in list[q] => p = q
    /\ \A t, u \in Threads : x \in doomed[t] /\ x \in doomed[u] => t = u
    /\ \A t, u \in Threads : x \in fresh[t] /\ x \in fresh[u] => t = u
    /\ \A p \in Pools, t \in Threads : x \in list[p] => x \notin doomed[t] /\ x \notin fresh[t]
    /\ \A t, u \in Threads : x \in doomed[t] => x \notin fresh[u]
    /\ \/ \E p \in Pools : x \in list[p]
       \/ \E t \in Threads : x \in doomed[t] \/ x \in fresh[t]
       => Open(x)

\* Room in p for the connection that t is creating.
Room(t, p) == pc[t] \in {"dial", "append"} /\ frame[t].sp = p => Cardinality(list[p]) < MaxConns
Load ==
    \A p \in Pools : /\ Cardinality(list[p]) <= MaxConns
                     /\ \A t \in Threads : Room(t, p)

Emptied == \A t \in Threads : pc[t] = "remove" => list[frame[t].sp] = {}

PoolInv ==
    /\ cleaner = "stopped"
    /\ \A x \in Conns : OneOwner(x)
    /\ Load
    /\ Emptied

\* Closing what it took out and reading the clock leave a goroutine where it is.
Stays(t) == CloseDoomed(t) \/ ReadClock(t)

\* How a goroutine comes to where it dials, or removes an entry.
LEMMA Arrives ==
    ASSUME LockInv, NEW t \in Threads, ThreadStep(t), ~Stays(t)
    PROVE  /\ pc'[t] = "prepare" => Recheck(t) /\ SelectReusable(t, "prepare") /\ ~Return(t)
           /\ pc'[t] = "dial" => Prepare(t)
           /\ pc'[t] = "append" => Dials(t) /\ frame' = frame
           /\ pc'[t] = "remove" => Take(t)
<1>1. TypeOK /\ pc \in [Threads -> Labels]
  BY DEF LockInv, TypeOK
<1>2. CASE Return(t)
  BY <1>1, <1>2, ReturnLocals
<1>3. CASE AfterClose(t)
  BY <1>1, <1>2, <1>3 DEF AfterClose, Goto
<1>4. CASE Recheck(t) /\ ~Return(t)
  BY <1>1, <1>4 DEF Recheck, SelectReusable, Goto
<1>5. CASE Dial(t) /\ ~Return(t)
  <2>1. /\ pc[t] = "dial" /\ pc'[t] = "append" /\ list' = list /\ doomed' = doomed
        /\ frame' = frame /\ services' = services
    BY <1>1, <1>5 DEF Dial, At, Goto, registry
  <2> QED
    BY <1>5, <2>1 DEF Dial, Dials
<1>6. CASE Prepare(t)
  BY <1>1, <1>6 DEF Prepare, Goto
<1>7. CASE Take(t)
  BY <1>1, <1>7 DEF Take, Goto
<1>8. CASE Lookup(t) \/ Insert(t) \/ Reread(t) \/ (Select(t) /\ ~Return(t))
  BY <1>1, <1>8 DEF Lookup, Insert, Reread, Select, SelectReusable, Goto
<1>9. CASE (Find(t) /\ ~AfterClose(t)) \/ StopCleanup(t) \/ Snapshot(t) \/ NextPool(t) \/ Release(t)
  BY <1>1, <1>9 DEF Find, StopCleanup, Snapshot, NextPool, Release, Goto
<1>10. CASE Acquire(t) \/ StartCloseAll(t) \/ \E s \in Services : StartGet(t, s) \/ StartClose(t, s)
  BY <1>1, <1>10 DEF Acquire, AcquireCreate, AcquireClose, StartCloseAll, StartGet, StartClose, Goto
<1> QED
  BY <1>2, <1>3, <1>4, <1>5, <1>6, <1>7, <1>8, <1>9, <1>10
     DEF Stays, ThreadStep, GetStep, CloseStep, Direct, AppendFresh, Remove, DeleteAll

LEMMA OneOwnerStep ==
    ASSUME LockInv, NEW t \in Threads, ThreadStep(t), \A y \in Conns : OneOwner(y), NEW x \in Conns
    PROVE  OneOwner(x)'
<1>1. TypeOK /\ OneOwner(x)
  BY DEF LockInv
<1> USE DEF OneOwner
<1>2. CASE list' = list /\ doomed' = doomed /\ fresh' = fresh /\ conn' = conn
  BY <1>1, <1>2 DEF Open
<1>3. CASE TakesOut(t)
  <2>1. PICK p \in Pools, K \in SUBSET Conns :
           /\ K \subseteq list[p]
           /\ list' = [list EXCEPT ![p] = K]
           /\ doomed[t] = {} /\ doomed' = [doomed EXCEPT ![t] = list[p] \ K]
    BY <1>3 DEF TakesOut
  <2>2. fresh' = fresh /\ (Open(x)' <=> Open(x))
    BY <1>3 DEF TakesOut, SameOpen
  <2>3. \A q \in Pools : x \in list'[q] <=> x \in list[q] /\ (q = p => x \in K)
    BY <1>1, <2>1 DEF TypeOK
  <2>4. \A u \in Threads : x \in doomed'[u] <=>
            \/ u # t /\ x \in doomed[u]
            \/ u = t /\ x \in list[p] /\ x \notin K
    BY <1>1, <2>1 DEF TypeOK
  <2> QED
    BY <1>1, <2>2, <2>3, <2>4
<1>4. CASE Empties(t)
  <2>1. PICK p \in Pools : list' = [list EXCEPT ![p] = {}]
    BY <1>4 DEF Empties, NewPool, FreePools
  <2>2. doomed' = doomed /\ fresh' = fresh /\ conn' = conn
    BY <1>4 DEF Empties
  <2>3. \A q \in Pools : x \in list'[q] <=> x \in list[q] /\ q # p
    BY <1>1, <2>1 DEF TypeOK
  <2> QED
    BY <1>1, <2>2, <2>3 DEF Open
<1>5. CASE Dials(t)
  <2>1. PICK y \in FreeConns : /\ conn' = [conn EXCEPT ![y] = "healthy"]
                               /\ fresh' = [fresh EXCEPT ![t] = {y}]
    BY <1>5 DEF Dials
  <2>2. list' = list /\ doomed' = doomed
    BY <1>5 DEF Dials
  <2>3. CASE x # y
    <3>1. \A u \in Threads : x \in fresh'[u] => x \in fresh[u]
      BY <1>1, <2>1, <2>3 DEF TypeOK
    <3>2. Open(x)' <=> Open(x)
      BY <1>1, <2>1, <2>3 DEF TypeOK, Open
    <3> QED
      BY <1>1, <2>2, <3>1, <3>2
  <2>4. CASE x = y
    <3>1. /\ \A p \in Pools : x \notin list[p]
          /\ \A u \in Threads : x \notin doomed[u] /\ x \notin fresh[u]
      BY <2>1, <2>4 DEF FreeConns
    <3>2. \A u \in Threads : x \in fresh'[u] => u = t
      BY <1>1, <2>1, <3>1 DEF TypeOK
    <3>3. Open(x)'
      BY <1>1, <2>1, <2>4 DEF TypeOK, Open
    <3> QED
      BY <1>1, <2>2, <3>1, <3>2, <3>3
  <2> QED
    BY <2>3, <2>4
<1>6. CASE AppendFresh(t)
  <2> DEFINE p == frame[t].sp
  <2>1. list' = [list EXCEPT ![p] = list[p] \cup fresh[t]] /\ fresh' = [fresh EXCEPT ![t] = {}]
        /\ doomed' = doomed /\ conn' = conn
    BY <1>6 DEF AppendFresh
  <2>2. p \in Pools
    BY <1>6 DEF AppendFresh, At, LockInv, LocalsOK, HasPool, HoldsCreate
  <2> HIDE DEF p
  <2>3. \A q \in Pools : x \in list'[q] <=> x \in list[q] \/ (q = p /\ x \in fresh[t])
    BY <1>1, <2>1, <2>2 DEF TypeOK
  <2>4. \A u \in Threads : x \in fresh'[u] <=> x \in fresh[u] /\ u # t
    BY <1>1, <2>1 DEF TypeOK
  <2> QED
    BY <1>1, <2>1, <2>2, <2>3, <2>4 DEF Open
<1>7. CASE CloseDoomed(t)
  <2>1. list' = list /\ fresh' = fresh /\ doomed' = [doomed EXCEPT ![t] = {}]
        /\ conn' = [y \in Conns |-> IF y \in doomed[t] THEN "closed" ELSE conn[y]]
    BY <1>7 DEF CloseDoomed
  <2>2. \A u \in Threads : x \in doomed'[u] <=> x \in doomed[u] /\ u # t
    BY <1>1, <2>1 DEF TypeOK
  <2>3. x \notin doomed[t] => (Open(x)' <=> Open(x))
    BY <2>1 DEF Open
  <2> QED
    BY <1>1, <2>1, <2>2, <2>3
<1> QED
  BY <1>2, <1>3, <1>4, <1>5, <1>6, <1>7, Effect

-----------------------------------------------------------------------------
(* Sizes of lists *)

LEMMA ListFinite ==
    ASSUME TypeOK, NEW p \in Pools
    PROVE  IsFiniteSet(list[p]) /\ Cardinality(list[p]) \in Nat
  BY PoolAssumption, FS_Subset, FS_CardinalityType DEF TypeOK

\* What a step does to the size of a list: it grows by one in an append of its
\* goroutine, or it does not grow.
LEMMA SizeStep ==
    ASSUME LockInv, NEW t \in Threads, ThreadStep(t), NEW p \in Pools
    PROVE  /\ list'[p] \subseteq list[p] \/ (AppendFresh(t) /\ frame[t].sp = p)
           /\ list'[p] \subseteq list[p] => Cardinality(list'[p]) <= Cardinality(list[p])
           /\ Cardinality(list'[p]) <= Cardinality(list[p]) + 1
<1>1. TypeOK /\ LocalsOK(t)
  BY DEF LockInv
<1>2. list'[p] \subseteq list[p] \/ (AppendFresh(t) /\ frame[t].sp = p)
  <2>1. CASE TakesOut(t)
    BY <1>1, <2>1 DEF TakesOut, TypeOK
  <2>2. CASE Empties(t)
    BY <1>1, <2>2 DEF Empties, NewPool, FreePools, TypeOK
  <2>3. CASE AppendFresh(t)
    BY <1>1, <2>3 DEF AppendFresh, TypeOK
  <2> QED
    BY <2>1, <2>2, <2>3, Effect DEF Dials, CloseDoomed
<1>3. IsFiniteSet(list[p]) /\ Cardinality(list[p]) \in Nat
  BY <1>1, ListFinite
<1>4. list'[p] \subseteq list[p] => /\ Cardinality(list'[p]) <= Cardinality(list[p])
                                   /\ Cardinality(list'[p]) \in Nat
  BY <1>3, FS_Subset, FS_CardinalityType
<1>5. CASE AppendFresh(t) /\ frame[t].sp = p
  <2>1. PICK x \in Conns : fresh[t] = {x}
    BY <1>1, <1>5 DEF AppendFresh, At, LocalsOK
  <2>2. list'[p] = list[p] \cup {x}
    BY <1>1, <1>5, <2>1 DEF AppendFresh, TypeOK
  <2>3. Cardinality(list[p] \cup {x}) = Cardinality(list[p])
        \/ Cardinality(list[p] \cup {x}) = Cardinality(list[p]) + 1
    BY <1>3, FS_AddElement
  <2> QED
    BY <1>2, <1>3, <1>4, <2>2, <2>3
<1> QED
  BY <1>2, <1>3, <1>4, <1>5

\* Whoever creates in a pool object has room there, and the lock that keeps
\* everybody else from adding to it.
LEMMA LoadStep ==
    ASSUME LockInv, NEW t \in Threads, ThreadStep(t), Load
    PROVE  Load'
<1>1. TypeOK /\ CreateHolder
  BY DEF LockInv
<1> SUFFICES ASSUME NEW p \in Pools
             PROVE  /\ Cardinality(list'[p]) <= MaxConns
                    /\ \A u \in Threads : Room(u, p)'
  BY DEF Load
<1>2. Cardinality(list[p]) \in Nat /\ IsFiniteSet(list[p]) /\ MaxConns \in Nat \ {0}
  BY <1>1, ListFinite, PoolAssumption
<1>3. Cardinality(list'[p]) \in Nat
  BY ThreadTypeOK, <1>1, FS_Subset, FS_CardinalityType, PoolAssumption DEF TypeOK
<1>4. Cardinality(list[p]) <= MaxConns /\ \A u \in Threads : Room(u, p)
  BY DEF Load
<1>5. CASE AppendFresh(t) /\ frame[t].sp = p
  <2>1. Cardinality(list[p]) < MaxConns /\ Holds(t, p)
    BY <1>4, <1>5 DEF AppendFresh, At, Room, Holds, HoldsCreate
  <2>2. Cardinality(list'[p]) <= MaxConns
    BY <1>2, <1>3, <2>1, SizeStep
  <2>3. ASSUME NEW u \in Threads PROVE Room(u, p)'
    <3>1. CASE u = t
      <4>1. pc'[t] = "idle"
        BY <1>1, <1>5, ReturnLocals DEF AppendFresh
      <4> QED
        BY <3>1, <4>1 DEF Room
    <3>2. CASE u # t
      <4>1. ~Holds(u, p)
        BY <1>1, <2>1, <3>2 DEF CreateHolder
      <4>2. pc'[u] = pc[u] /\ frame'[u] = frame[u]
        BY <1>1, <3>2, OthersStay
      <4> QED
        BY <4>1, <4>2 DEF Holds, HoldsCreate, Room
    <3> QED
      BY <3>1, <3>2
  <2> QED
    BY <2>2, <2>3
<1>6. CASE ~(AppendFresh(t) /\ frame[t].sp = p)
  <2>1. Cardinality(list'[p]) <= Cardinality(list[p])
    BY <1>6, SizeStep
  <2>2. ASSUME NEW u \in Threads, Room(u, p), pc'[u] = pc[u], frame'[u] = frame[u]
        PROVE  Room(u, p)'
    BY <1>2, <1>3, <2>1, <2>2 DEF Room
  <2>3. ASSUME Stays(t) PROVE \A u \in Threads : Room(u, p)'
    BY <1>4, <2>2, <2>3 DEF Stays, CloseDoomed, ReadClock
  <2>4. ASSUME ~Stays(t) PROVE \A u \in Threads : Room(u, p)'
    <3>1. ASSUME NEW u \in Threads \ {t} PROVE Room(u, p)'
      BY <1>1, <1>4, <2>2, <3>1, OthersStay
    <3>2. ASSUME pc'[t] = "append" PROVE Room(t, p)'
      <4>1. Dials(t) /\ frame' = frame
        BY <2>4, <3>2, Arrives
      <4>2. pc[t] = "dial" /\ list' = list
        BY <4>1 DEF Dials
      <4> QED
        BY <1>4, <4>1, <4>2 DEF Room
    <3>3. ASSUME pc'[t] = "dial" PROVE Room(t, p)'
      <4>1. Prepare(t) /\ frame' = frame
        BY <2>4, <3>3, Arrives DEF Prepare
      <4>2. CASE frame[t].sp # p
        BY <4>1, <4>2 DEF Room
      <4>3. CASE frame[t].sp = p /\ Cardinality(list[p]) >= MaxConns
        <5>1. PICK x \in list[p] : list' = [list EXCEPT ![p] = list[p] \ {x}]
          BY <4>1, <4>3 DEF Prepare
        <5>2. list'[p] = list[p] \ {x}
          BY <1>1, <5>1 DEF TypeOK
        <5>3. Cardinality(list'[p]) = Cardinality(list[p]) - 1
          BY <1>2, <5>2, FS_RemoveElement
        <5> QED
          BY <1>2, <1>4, <5>3 DEF Room
      <4>4. CASE frame[t].sp = p /\ ~(Cardinality(list[p]) >= MaxConns)
        <5>1. list' = list
          BY <4>1, <4>4 DEF Prepare
        <5> QED
          BY <1>2, <4>4, <5>1 DEF Room
      <4> QED
        BY <4>2, <4>3, <4>4
    <3>4. ASSUME pc'[t] \notin {"dial", "append"} PROVE Room(t, p)'
      BY <3>4 DEF Room
    <3> QED
      BY <3>1, <3>2, <3>3, <3>4
  <2>5. \A u \in Threads : Room(u, p)'
    BY <2>3, <2>4
  <2> QED
    BY <1>2, <1>3, <1>4, <2>1, <2>5
<1> QED
  BY <1>5, <1>6

\* A pool object that was emptied stays empty until its entry is removed.
LEMMA EmptiedStep ==
    ASSUME LockInv, NEW t \in Threads, ThreadStep(t), Emptied
    PROVE  Emptied'
<1>1. TypeOK /\ CreateHolder
  BY DEF LockInv
<1> SUFFICES ASSUME NEW u \in Threads, pc'[u] = "remove"
             PROVE  list'[frame'[u].sp] = {}
  BY DEF Emptied
<1>2. LocalsOK(u)'
  BY ThreadLockInv DEF LockInv
<1>3. frame'[u].sp \in Pools
  BY <1>2 DEF LocalsOK, HasPool, HoldsCreate
<1>4. CASE pc[u] = "remove" /\ frame'[u] = frame[u]
  <2>1. list[frame[u].sp] = {} /\ Holds(u, frame[u].sp)
    BY <1>4 DEF Emptied, Holds, HoldsCreate
  <2>2. ~(AppendFresh(t) /\ frame[t].sp = frame[u].sp)
    <3>1. SUFFICES ASSUME AppendFresh(t), frame[t].sp = frame[u].sp PROVE FALSE
      OBVIOUS
    <3>2. pc[t] = "append" /\ Holds(t, frame[u].sp)
      BY <3>1 DEF AppendFresh, At, Holds, HoldsCreate
    <3>3. t = u
      BY <1>1, <1>3, <1>4, <2>1, <3>2 DEF CreateHolder
    <3> QED
      BY <1>4, <3>2, <3>3
  <2> QED
    BY <1>3, <1>4, <2>1, <2>2, SizeStep
<1>5. CASE u # t
  BY <1>1, <1>4, <1>5, OthersStay
<1>6. CASE Stays(t)
  BY <1>4, <1>6 DEF Stays, CloseDoomed, ReadClock
<1>7. CASE u = t /\ ~Stays(t)
  <2>1. Take(t)
    BY <1>7, Arrives
  <2>2. frame' = frame /\ list' = [list EXCEPT ![frame[t].sp] = {}]
    BY <2>1 DEF Take
  <2> QED
    BY <1>1, <1>3, <1>7, <2>2 DEF TypeOK
<1> QED
  BY <1>5, <1>6, <1>7

LEMMA InitPoolInv == Init /\ ~Sweeping => PoolInv
<1> SUFFICES ASSUME Init, ~Sweeping PROVE PoolInv
  OBVIOUS
<1>1. cleaner = "stopped"
  BY DEF Init
<1>2. \A x \in Conns : OneOwner(x)
  BY DEF Init, OneOwner
<1>3. Load
  <2>1. \A p \in Pools : list[p] = {}
    BY DEF Init
  <2>2. Cardinality({}) = 0 /\ MaxConns \in Nat \ {0}
    BY FS_EmptySet, PoolAssumption
  <2>3. \A t \in Threads : pc[t] = "idle"
    BY DEF Init
  <2> QED
    BY <2>1, <2>2, <2>3 DEF Load, Room
<1>4. Emptied
  BY DEF Init, Emptied
<1> QED
  BY <1>1, <1>2, <1>3, <1>4 DEF PoolInv

\* Time and the transport take nothing out of a list and close nothing.
LEMMA OtherQuiet ==
    ASSUME TypeOK, cleaner = "stopped",
           \/ Sweep \/ CleanerExits \/ GoIdle \/ UNCHANGED vars
           \/ \E x \in Breakable : ChangeHealth(x)
    PROVE  UNCHANGED <<services, list, pc, frame, doomed, fresh, cleaner>> /\ SameOpen
<1>1. ~Sweep /\ ~CleanerExits
  BY DEF Sweep, Collect, Reap, WriteBack, CleanerExits
<1>2. CASE GoIdle \/ UNCHANGED vars
  BY <1>2 DEF GoIdle, vars, registry, reaper, SameOpen, Open
<1>3. CASE \E x \in Breakable : ChangeHealth(x)
  BY <1>3, PoolAssumption DEF ChangeHealth, registry, reaper, SameOpen, Open, TypeOK
<1> QED
  BY <1>1, <1>2, <1>3

LEMMA PoolInvStep ==
    ASSUME LockInv, PoolInv, [Next]_vars
    PROVE  PoolInv'
<1>1. TypeOK /\ cleaner = "stopped"
  BY DEF LockInv, PoolInv
<1>2. CASE \E t \in Threads : ThreadStep(t)
  <2>1. PICK t \in Threads : ThreadStep(t)
    BY <1>2
  <2>2. cleaner' = "stopped"
    BY <1>1, <2>1, OthersStay
  <2>3. \A x \in Conns : OneOwner(x)'
    BY <2>1, OneOwnerStep DEF PoolInv
  <2>4. Load' /\ Emptied'
    BY <2>1, LoadStep, EmptiedStep DEF PoolInv
  <2> QED
    BY <2>2, <2>3, <2>4 DEF PoolInv
<1>3. CASE ~\E t \in Threads : ThreadStep(t)
  <2>1. UNCHANGED <<list, pc, frame, doomed, fresh, cleaner>> /\ SameOpen
    BY <1>1, <1>3, NextCases, OtherQuiet
  <2>2. \A x \in Conns : OneOwner(x)'
    BY <2>1 DEF PoolInv, OneOwner, SameOpen
  <2>3. Load' /\ Emptied'
    BY <2>1 DEF PoolInv, Load, Room, Emptied
  <2> QED
    BY <1>1, <2>1, <2>2, <2>3 DEF PoolInv
<1> QED
  BY <1>2, <1>3

LEMMA PoolInvariance ==
    ASSUME ~Sweeping
    PROVE  Spec => [](LockInv /\ PoolInv)
<1>1. Init => PoolInv
  BY InitPoolInv
<1>2. LockInv /\ PoolInv /\ [Next]_vars => PoolInv'
  BY PoolInvStep
<1> QED
  BY <1>1, <1>2, LockInvariance, PTL DEF Spec

\* connection_pool.go: without sweeps, a connection in a list or on its way out of
\* or into one is open and has one owner: none is closed twice, none is offered
\* closed.
THEOREM OneOwnerEach ==
    ASSUME ~Sweeping
    PROVE  Spec => []OwnedOnce
<1>1. ASSUME LockInv, PoolInv PROVE OwnedOnce
  <2> SUFFICES ASSUME NEW x \in Conns
               PROVE  Cardinality(Owners(x)) <= 1 /\ (Owners(x) # {} => Open(x))
    BY DEF OwnedOnce
  <2>1. OneOwner(x)
    BY <1>1 DEF PoolInv
  <2>2. Owners(x) # {} => Open(x)
    BY <2>1 DEF OneOwner, Owners
  <2>3. \A a, b \in Owners(x) : a = b
    BY <2>1 DEF OneOwner, Owners
  <2>4. CASE Owners(x) = {}
    BY <2>2, <2>4, FS_EmptySet
  <2>5. CASE Owners(x) # {}
    <3>1. PICK a : a \in Owners(x)
      BY <2>5
    <3>2. Owners(x) = {a}
      BY <2>3, <3>1
    <3>3. Cardinality(Owners(x)) = 1
      BY <3>2, FS_Singleton
    <3> QED
      BY <2>2, <3>3
  <2> QED
    BY <2>4, <2>5
<1> QED
  BY <1>1, PoolInvariance, PTL

\* Who creates in a pool object is one goroutine at most.
LEMMA OneCreates ==
    ASSUME LockInv, NEW p \in Pools
    PROVE  \/ Creating(p) = {}
           \/ \E t \in Threads : Creating(p) = {t} /\ Holds(t, p) /\ pc[t] \in {"dial", "append"}
<1>1. \A t \in Creating(p) : t \in Threads /\ Holds(t, p) /\ pc[t] \in {"dial", "append"}
  BY DEF Creating, Holds, HoldsCreate
<1>2. \A t, u \in Creating(p) : t = u
  BY <1>1 DEF LockInv, CreateHolder
<1> QED
  BY <1>1, <1>2

\* connection_pool.go:36: without sweeps, a pool never has more than its maximum of
\* connections, the one being dialled included.
THEOREM PoolBounded ==
    ASSUME ~Sweeping
    PROVE  Spec => []WithinMaxConns
<1>1. ASSUME LockInv, PoolInv PROVE WithinMaxConns
  <2> SUFFICES ASSUME NEW p \in Pools
               PROVE  Cardinality(list[p]) + Cardinality(Creating(p)) <= MaxConns
    BY DEF WithinMaxConns
  <2>1. Cardinality(list[p]) \in Nat /\ MaxConns \in Nat
    BY <1>1, ListFinite, PoolAssumption DEF LockInv
  <2>2. Cardinality(list[p]) <= MaxConns /\ \A t \in Threads : Room(t, p)
    BY <1>1 DEF PoolInv, Load
  <2>3. CASE Creating(p) = {}
    BY <2>1, <2>2, <2>3, FS_EmptySet
  <2>4. ASSUME NEW t \in Threads, Creating(p) = {t}, Holds(t, p), pc[t] \in {"dial", "append"}
        PROVE  Cardinality(list[p]) + Cardinality(Creating(p)) <= MaxConns
    <3>1. Cardinality(list[p]) < MaxConns
      BY <2>2, <2>4 DEF Room, Holds
    <3>2. Cardinality(Creating(p)) = 1
      BY <2>4, FS_Singleton
    <3> QED
      BY <2>1, <3>1, <3>2
  <2> QED
    BY <1>1, <2>3, <2>4, OneCreates
<1> QED
  BY <1>1, PoolInvariance, PTL

\* connection_pool.go:353-365: without sweeps, what CloseConnection removes from the
\* map is an empty pool with nothing on its way into it.
THEOREM OnlyEmptyRemoved ==
    ASSUME ~Sweeping
    PROVE  Spec => []RemovedEmpty
<1>1. ASSUME LockInv, PoolInv PROVE RemovedEmpty
  <2> SUFFICES ASSUME NEW t \in Threads, pc[t] = "remove"
               PROVE  list[frame[t].sp] = {} /\ Creating(frame[t].sp) = {}
    BY DEF RemovedEmpty
  <2>1. list[frame[t].sp] = {}
    BY <1>1 DEF PoolInv, Emptied
  <2>2. frame[t].sp \in Pools /\ Holds(t, frame[t].sp)
    BY <1>1 DEF LockInv, LocalsOK, HasPool, HoldsCreate, Holds
  <2>3. ASSUME NEW u \in Threads, Holds(u, frame[t].sp) PROVE pc[u] = "remove"
    BY <1>1, <2>2, <2>3 DEF LockInv, CreateHolder
  <2> QED
    BY <1>1, <2>1, <2>2, <2>3, OneCreates
<1> QED
  BY <1>1, PoolInvariance, PTL

-----------------------------------------------------------------------------
(* Without the cleanup goroutine: shared dials *)

\* Who goes on to create saw, with createMu held, that nothing in the list stays
\* reusable.  Where a pool has room for several connections, a selected one may
\* break beside others that are healthy: hence the condition.
LEMMA MissLeavesNone ==
    ASSUME LockInv, PoolInv, MaxConns = 1 \/ Breakable = {},
           NEW t \in Threads, Recheck(t), SelectReusable(t, "prepare"), ~Return(t)
    PROVE  frame' = frame /\ list'[frame[t].sp] \subseteq Breakable
<1> DEFINE p == frame[t].sp
           good == {x \in list[p] : conn[x] = "healthy"}
<1>1. TypeOK /\ p \in Pools
  BY DEF LockInv, LocalsOK, Recheck, At, HasPool, HoldsCreate
<1>2. frame' = frame /\ list' = [list EXCEPT ![p] = good]
      /\ (good = {} \/ \E x \in good : x \in Breakable)
  BY DEF SelectReusable
<1>3. list'[p] = good
  BY <1>1, <1>2 DEF TypeOK
<1>4. CASE good = {} \/ Breakable = {}
  BY <1>2, <1>3, <1>4
<1>5. CASE MaxConns = 1 /\ \E x \in good : x \in Breakable
  <2>1. PICK x \in good : x \in Breakable
    BY <1>5
  <2>2. Cardinality(list[p]) <= 1 /\ IsFiniteSet(list[p]) /\ Cardinality(list[p]) \in Nat
    BY <1>1, <1>5, ListFinite DEF PoolInv, Load
  <2>3. Cardinality(list[p]) # 0
    BY <2>1, <2>2, FS_EmptySet
  <2>4. Cardinality(list[p]) = 1
    BY <2>2, <2>3
  <2>5. PICK y : list[p] = {y}
    BY <2>2, <2>4, FS_Singleton
  <2> QED
    BY <1>2, <1>3, <2>1, <2>5
<1> QED
  BY <1>2, <1>4, <1>5

LEMMA SharedStep ==
    ASSUME LockInv, PoolInv, NoNeedlessDial, [Next]_vars, MaxConns = 1 \/ Breakable = {}
    PROVE  NoNeedlessDial'
<1>1. TypeOK /\ CreateHolder /\ cleaner = "stopped"
  BY DEF LockInv, PoolInv
<1>2. ASSUME NEW t \in Threads, ThreadStep(t) PROVE NoNeedlessDial'
  <2> SUFFICES ASSUME NEW u \in Threads, pc'[u] \in {"prepare", "dial", "append"}
               PROVE  list'[frame'[u].sp] \subseteq Breakable
    BY DEF NoNeedlessDial
  <2>1. LocalsOK(u)'
    BY <1>2, ThreadLockInv DEF LockInv
  <2>2. frame'[u].sp \in Pools
    BY <2>1 DEF LocalsOK, HasPool, HoldsCreate
  <2>3. CASE pc[u] \in {"prepare", "dial", "append"} /\ frame'[u] = frame[u]
             /\ ~(AppendFresh(t) /\ u = t)
    <3>1. list[frame[u].sp] \subseteq Breakable /\ Holds(u, frame[u].sp)
      BY <2>3 DEF NoNeedlessDial, Holds, HoldsCreate
    <3>2. ~(AppendFresh(t) /\ frame[t].sp = frame[u].sp)
      <4>1. SUFFICES ASSUME AppendFresh(t), frame[t].sp = frame[u].sp PROVE FALSE
        OBVIOUS
      <4>2. Holds(t, frame[u].sp)
        BY <4>1 DEF AppendFresh, At, Holds, HoldsCreate
      <4>3. t = u
        BY <1>1, <2>2, <2>3, <3>1, <4>2 DEF CreateHolder
      <4> QED
        BY <2>3, <4>1, <4>3
    <3> QED
      BY <1>2, <2>2, <2>3, <3>1, <3>2, SizeStep
  <2>4. CASE u # t
    BY <1>1, <1>2, <2>3, <2>4, OthersStay
  <2>5. CASE Stays(t) /\ ~AppendFresh(t)
    BY <2>3, <2>5 DEF Stays, CloseDoomed, ReadClock
  <2>9. CASE AppendFresh(t)
    <3>1. pc'[t] = "idle"
      BY <1>1, <2>9, ReturnLocals DEF AppendFresh
    <3> QED
      BY <2>4, <3>1
  <2>6. CASE u = t /\ ~Stays(t) /\ pc'[t] = "prepare"
    <3>1. Recheck(t) /\ SelectReusable(t, "prepare") /\ ~Return(t)
      BY <1>2, <2>6, Arrives
    <3> QED
      BY <2>6, <3>1, MissLeavesNone
  <2>7. CASE u = t /\ ~Stays(t) /\ pc'[t] = "dial"
    <3>1. Prepare(t)
      BY <1>2, <2>7, Arrives
    <3>2. pc[t] = "prepare" /\ frame' = frame
      BY <3>1 DEF Prepare, At
    <3> QED
      BY <2>3, <2>7, <3>2 DEF AppendFresh, At
  <2>8. CASE u = t /\ ~Stays(t) /\ pc'[t] = "append"
    <3>1. Dials(t) /\ frame' = frame
      BY <1>2, <2>8, Arrives
    <3> QED
      BY <2>3, <2>8, <3>1 DEF Dials, AppendFresh, At
  <2> QED
    BY <2>4, <2>5, <2>6, <2>7, <2>8, <2>9
<1>3. CASE ~\E t \in Threads : ThreadStep(t)
  <2>1. UNCHANGED <<list, pc, frame>>
    BY <1>1, <1>3, NextCases, OtherQuiet
  <2> QED
    BY <2>1 DEF NoNeedlessDial
<1> QED
  BY <1>2, <1>3

\* connection_pool_test.go:14: without sweeps, whoever dials has found the pool's list
\* empty, where no connection changes its health; and with one connection to a
\* pool, at most one that broke when it was selected.
THEOREM DialsAreShared ==
    ASSUME ~Sweeping, MaxConns = 1 \/ Breakable = {}
    PROVE  Spec => []NoNeedlessDial
<1>1. Init => NoNeedlessDial
  BY DEF Init, NoNeedlessDial
<1>2. LockInv /\ PoolInv /\ NoNeedlessDial /\ [Next]_vars => NoNeedlessDial'
  BY SharedStep
<1> QED
  BY <1>1, <1>2, PoolInvariance, PTL DEF Spec

-----------------------------------------------------------------------------
(* Without the cleanup goroutine: the pool implements PoolOwnership *)

\* The holder of a connection that has one owner.
HolderFacts ==
    \A x \in Conns : OneOwner(x) =>
        /\ \A p \in Pools : x \in list[p] => HoldersOf(x) = {Owner!ListOf(p)}
        /\ \A t \in Threads : x \in fresh[t] => HoldersOf(x) = {Owner!MakerFor(frame[t].sp)}
        /\ \A t \in Threads : x \in doomed[t] => HoldersOf(x) = {Owner!Closer(t)}
        /\ \/ \E p \in Pools : x \in list[p]
           \/ \E t \in Threads : x \in fresh[t] \/ x \in doomed[t]
           \/ HoldersOf(x) = {}

LEMMA HolderIs == HolderFacts
<1> SUFFICES ASSUME NEW x \in Conns, OneOwner(x)
             PROVE  /\ \A p \in Pools : x \in list[p] => HoldersOf(x) = {Owner!ListOf(p)}
                    /\ \A t \in Threads : x \in fresh[t] => HoldersOf(x) = {Owner!MakerFor(frame[t].sp)}
                    /\ \A t \in Threads : x \in doomed[t] => HoldersOf(x) = {Owner!Closer(t)}
                    /\ \/ \E p \in Pools : x \in list[p]
                       \/ \E t \in Threads : x \in fresh[t] \/ x \in doomed[t]
                       \/ HoldersOf(x) = {}
  BY DEF HolderFacts
<1> DEFINE L == {q \in Pools : x \in list[q]}
           F == {u \in Threads : x \in fresh[u]}
           D == {u \in Threads : x \in doomed[u]}
<1>1. HoldersOf(x) = {<<"list", p>> : p \in L} \cup {<<"maker", frame[t].sp>> : t \in F}
                     \cup {<<"closer", t>> : t \in D}
  BY DEF HoldersOf
<1>2. ASSUME NEW p \in Pools, x \in list[p] PROVE L = {p} /\ F = {} /\ D = {}
  BY <1>2 DEF OneOwner
<1>3. ASSUME NEW t \in Threads, x \in fresh[t] PROVE L = {} /\ F = {t} /\ D = {}
  BY <1>3 DEF OneOwner
<1>4. ASSUME NEW t \in Threads, x \in doomed[t] PROVE L = {} /\ F = {} /\ D = {t}
  BY <1>4 DEF OneOwner
<1>5. \/ \E p \in Pools : x \in list[p]
      \/ \E t \in Threads : x \in fresh[t] \/ x \in doomed[t]
      \/ L = {} /\ F = {} /\ D = {}
  OBVIOUS
<1> HIDE DEF L, F, D
<1>6. \A p \in Pools : x \in list[p] => HoldersOf(x) = {Owner!ListOf(p)}
  BY <1>1, <1>2 DEF Owner!ListOf
<1>7. \A t \in Threads : x \in fresh[t] => HoldersOf(x) = {Owner!MakerFor(frame[t].sp)}
  BY <1>1, <1>3 DEF Owner!MakerFor
<1>8. \A t \in Threads : x \in doomed[t] => HoldersOf(x) = {Owner!Closer(t)}
  BY <1>1, <1>4 DEF Owner!Closer
<1>9. L = {} /\ F = {} /\ D = {} => HoldersOf(x) = {}
  BY <1>1
<1> QED
  BY <1>5, <1>6, <1>7, <1>8, <1>9

\* Holders in different roles differ.
LEMMA Tags ==
    \A a, b :
        /\ <<"list", a>> # <<"maker", b>> /\ <<"list", a>> # <<"closer", b>>
        /\ <<"maker", a>> # <<"closer", b>>
        /\ <<"list", a>> = <<"list", b>> => a = b
        /\ <<"maker", a>> = <<"maker", b>> => a = b
        /\ <<"closer", a>> = <<"closer", b>> => a = b
  OBVIOUS

\* What the abstract holders hold.
LEMMA Held ==
    ASSUME LockInv, PoolInv
    PROVE  /\ \A p \in Pools : Owner!HeldBy(Owner!ListOf(p)) = list[p]
           /\ \A t \in Threads : Owner!HeldBy(Owner!Closer(t)) = doomed[t]
           /\ \A p \in Pools : Owner!HeldBy(Owner!MakerFor(p))
                               = {x \in Conns : \E t \in Threads : x \in fresh[t] /\ frame[t].sp = p}
<1>1. \A x \in Conns : OneOwner(x)
  BY DEF PoolInv
<1>2. /\ \A p \in Pools : list[p] \subseteq Conns
      /\ \A t \in Threads : doomed[t] \subseteq Conns /\ fresh[t] \subseteq Conns
  BY DEF LockInv, TypeOK
<1>3. \A h : Owner!HeldBy(h) = {x \in Conns : HoldersOf(x) = {h}}
  BY DEF Owner!HeldBy
<1>4. ASSUME NEW x \in Conns, NEW p \in Pools, HoldersOf(x) = {Owner!ListOf(p)} PROVE x \in list[p]
  <2>1. <<"list", p>> \in HoldersOf(x)
    BY <1>4 DEF Owner!ListOf
  <2> QED
    BY <2>1, Tags DEF HoldersOf
<1>5. ASSUME NEW x \in Conns, NEW t \in Threads, HoldersOf(x) = {Owner!Closer(t)} PROVE x \in doomed[t]
  <2>1. <<"closer", t>> \in HoldersOf(x)
    BY <1>5 DEF Owner!Closer
  <2> QED
    BY <2>1, Tags DEF HoldersOf
<1>6. ASSUME NEW x \in Conns, NEW p \in Pools, HoldersOf(x) = {Owner!MakerFor(p)}
      PROVE  \E t \in Threads : x \in fresh[t] /\ frame[t].sp = p
  <2>1. <<"maker", p>> \in HoldersOf(x)
    BY <1>6 DEF Owner!MakerFor
  <2> QED
    BY <2>1, Tags DEF HoldersOf
<1>7. \A p \in Pools : Owner!HeldBy(Owner!ListOf(p)) = list[p]
  BY <1>1, <1>2, <1>3, <1>4, HolderIs DEF HolderFacts
<1>8. \A t \in Threads : Owner!HeldBy(Owner!Closer(t)) = doomed[t]
  BY <1>1, <1>2, <1>3, <1>5, HolderIs DEF HolderFacts
<1>9. \A p \in Pools : Owner!HeldBy(Owner!MakerFor(p))
                       = {x \in Conns : \E t \in Threads : x \in fresh[t] /\ frame[t].sp = p}
  BY <1>1, <1>3, <1>6, HolderIs DEF HolderFacts
<1> QED
  BY <1>7, <1>8, <1>9

\* A connection that stays where it is keeps its holder.
LEMMA StaysHeld ==
    ASSUME NEW x \in Conns,
           \A p \in Pools : x \in list'[p] <=> x \in list[p],
           \A u \in Threads : x \in doomed'[u] <=> x \in doomed[u],
           \A u \in Threads : x \in fresh'[u] <=> x \in fresh[u],
           \A u \in Threads : x \in fresh'[u] => frame'[u].sp = frame[u].sp
    PROVE  HoldersOf(x)' = HoldersOf(x)
<1>1. {q \in Pools : x \in list'[q]} = {q \in Pools : x \in list[q]}
  OBVIOUS
<1>2. {u \in Threads : x \in doomed'[u]} = {u \in Threads : x \in doomed[u]}
  OBVIOUS
<1>3. {<<"maker", frame'[t].sp>> : t \in {u \in Threads : x \in fresh'[u]}}
      = {<<"maker", frame[t].sp>> : t \in {u \in Threads : x \in fresh[u]}}
  OBVIOUS
<1> QED
  BY <1>1, <1>2, <1>3 DEF HoldersOf

\* Whoever has made a connection still creates in the same pool object.
LEMMA MakerStays ==
    ASSUME LockInv, NEW t \in Threads, ThreadStep(t)
    PROVE  \A u \in Threads : fresh'[u] # {} => frame'[u].sp = frame[u].sp
<1>1. \A u \in Threads \ {t} : frame'[u] = frame[u]
  BY OthersStay DEF LockInv
<1>2. fresh'[t] # {} => pc'[t] = "append"
  BY FreshStep
<1>3. pc'[t] = "append" => frame' = frame
  BY Arrives DEF Stays, CloseDoomed, ReadClock
<1> QED
  BY <1>1, <1>2, <1>3

\* The abstract state of a connection, and its holders after a step.
LEMMA AbstractPass ==
    ASSUME NEW S, NEW H, \A x \in Conns : HoldersOf(x)' = IF x \in S THEN H ELSE HoldersOf(x)
    PROVE  Owner!Pass(S, H)
  BY DEF Owner!Pass

LEMMA OpenSame == SameOpen => {x \in Conns : Open(x)}' = {x \in Conns : Open(x)}
  BY DEF SameOpen

LEMMA MappedSame == services' = services => Mapped' = Mapped
  BY DEF Mapped, Pooled

\* The abstract step for each effect of a step.
LEMMA WithdrawStep ==
    ASSUME LockInv, PoolInv, PoolInv', NEW t \in Threads, ThreadStep(t), TakesOut(t)
    PROVE  (\E p \in Pools : Owner!Withdraw(t, p)) \/ UNCHANGED Owner!ownershipVars
<1>1. TypeOK /\ (\A x \in Conns : OneOwner(x)) /\ (\A x \in Conns : OneOwner(x)')
  BY DEF LockInv, PoolInv
<1>2. HolderFacts'
  BY HolderIs, PTL
<1>3. PICK p \in Pools, K \in SUBSET Conns :
         /\ K \subseteq list[p]
         /\ list' = [list EXCEPT ![p] = K]
         /\ doomed[t] = {} /\ doomed' = [doomed EXCEPT ![t] = list[p] \ K]
  BY DEF TakesOut
<1> DEFINE S == list[p] \ K
<1>4. fresh' = fresh /\ services' = services /\ SameOpen
  BY DEF TakesOut
<1>5. ASSUME NEW x \in Conns PROVE HoldersOf(x)' = IF x \in S THEN {Owner!Closer(t)} ELSE HoldersOf(x)
  <2>1. CASE x \in S
    <3>1. x \in doomed'[t]
      BY <1>1, <1>3, <2>1 DEF TypeOK
    <3> QED
      BY <1>1, <1>2, <2>1, <3>1 DEF HolderFacts
  <2>2. CASE x \notin S
    <3>1. \A q \in Pools : x \in list'[q] <=> x \in list[q]
      BY <1>1, <1>3, <2>2 DEF TypeOK
    <3>2. \A u \in Threads : x \in doomed'[u] <=> x \in doomed[u]
      BY <1>1, <1>3, <2>2 DEF TypeOK
    <3>3. \A u \in Threads : x \in fresh'[u] => frame'[u].sp = frame[u].sp
      BY MakerStays
    <3> QED
      BY <1>4, <2>2, <3>1, <3>2, <3>3, StaysHeld
  <2> QED
    BY <2>1, <2>2
<1>6. {x \in Conns : Open(x)}' = {x \in Conns : Open(x)} /\ Mapped' = Mapped
  BY <1>4, OpenSame, MappedSame
<1>7. CASE S = {}
  BY <1>5, <1>6, <1>7 DEF Owner!ownershipVars
<1>8. CASE S # {}
  <2>1. Owner!HeldBy(Owner!Closer(t)) = {} /\ Owner!HeldBy(Owner!ListOf(p)) = list[p]
    BY <1>3, Held
  <2>2. Owner!Pass(S, {Owner!Closer(t)})
    <3> HIDE DEF S
    <3> QED
      BY <1>5, AbstractPass
  <2>3. S \in (SUBSET Owner!HeldBy(Owner!ListOf(p))) \ {{}}
    BY <1>8, <2>1
  <2> HIDE DEF S
  <2> QED
    BY <1>6, <2>1, <2>2, <2>3 DEF Owner!Withdraw
<1> QED
  BY <1>7, <1>8

LEMMA EnterStep ==
    ASSUME LockInv, PoolInv, PoolInv', NEW t \in Threads, ThreadStep(t), Empties(t)
    PROVE  \E p \in Pools : Owner!Enter(p)
<1>1. TypeOK /\ (\A x \in Conns : OneOwner(x)) /\ (\A x \in Conns : OneOwner(x)')
  BY DEF LockInv, PoolInv
<1>2. HolderFacts'
  BY HolderIs, PTL
<1> DEFINE s == frame[t].svc
<1>3. PICK p \in FreePools : /\ services' = [services EXCEPT ![s] = p]
                             /\ list' = [list EXCEPT ![p] = {}]
  BY DEF Empties, NewPool
<1>4. s \in Services \ Pooled /\ doomed' = doomed /\ fresh' = fresh /\ conn' = conn
  BY DEF Empties
<1>5. p \in Pools \ Mapped /\ p # None
  BY NoneApart DEF FreePools
<1>6. Mapped' = Mapped \cup {p}
  <2>1. Pooled' = Pooled \cup {s} /\ services'[s] = p /\ \A r \in Pooled : services'[r] = services[r]
    BY <1>1, <1>3, <1>4, <1>5 DEF TypeOK, Pooled
  <2> HIDE DEF s
  <2> QED
    BY <2>1 DEF Mapped
<1>7. ASSUME NEW x \in Conns PROVE HoldersOf(x)' = IF x \in list[p] THEN {} ELSE HoldersOf(x)
  <2>1. CASE x \in list[p]
    <3>1. \A q \in Pools : x \notin list'[q]
      BY <1>1, <1>3, <1>5, <2>1 DEF OneOwner, TypeOK
    <3>2. \A u \in Threads : x \notin fresh'[u] /\ x \notin doomed'[u]
      BY <1>1, <1>4, <1>5, <2>1 DEF OneOwner
    <3> QED
      BY <1>1, <1>2, <2>1, <3>1, <3>2 DEF HolderFacts
  <2>2. CASE x \notin list[p]
    <3>1. \A q \in Pools : x \in list'[q] <=> x \in list[q]
      BY <1>1, <1>3, <2>2 DEF TypeOK
    <3>2. \A u \in Threads : x \in fresh'[u] => frame'[u].sp = frame[u].sp
      BY MakerStays
    <3> QED
      BY <1>4, <2>2, <3>1, <3>2, StaysHeld
  <2> QED
    BY <2>1, <2>2
<1>8. Owner!HeldBy(Owner!ListOf(p)) = list[p]
  BY <1>5, Held
<1>9. Owner!Pass(Owner!HeldBy(Owner!ListOf(p)), {})
  BY <1>7, <1>8, AbstractPass
<1>10. {x \in Conns : Open(x)}' = {x \in Conns : Open(x)}
  BY <1>4 DEF Open
<1> HIDE DEF s
<1> QED
  BY <1>5, <1>6, <1>9, <1>10 DEF Owner!Enter

LEMMA MakeStep ==
    ASSUME LockInv, PoolInv, PoolInv', NEW t \in Threads, ThreadStep(t), Dials(t)
    PROVE  \E p \in Pools : Owner!Make(p)
<1> DEFINE p == frame[t].sp
<1>1. TypeOK /\ (\A x \in Conns : OneOwner(x)) /\ (\A x \in Conns : OneOwner(x)')
  BY DEF LockInv, PoolInv
<1>2. HolderFacts /\ HolderFacts'
  BY HolderIs, PTL
<1>3. p \in Pools /\ Holds(t, p) /\ pc[t] = "dial"
  BY DEF LockInv, LocalsOK, Dials, HasPool, HoldsCreate, Holds
<1>4. frame' = frame
  <2>1. pc[t] = "dial" /\ pc'[t] = "append"
    BY DEF Dials
  <2> QED
    BY <2>1, Arrives DEF Stays, CloseDoomed, ReadClock
<1>5. PICK y \in FreeConns : /\ conn' = [conn EXCEPT ![y] = "healthy"]
                             /\ fresh' = [fresh EXCEPT ![t] = {y}]
  BY DEF Dials
<1>6. list' = list /\ doomed' = doomed /\ services' = services
  BY DEF Dials
<1>7. /\ y \in Conns /\ ~Open(y)
      /\ \A q \in Pools : y \notin list[q]
      /\ \A u \in Threads : y \notin doomed[u] /\ y \notin fresh[u]
  BY DEF FreeConns
<1>8. HoldersOf(y) = {}
  BY <1>1, <1>2, <1>7 DEF HolderFacts
<1>9. Owner!HeldBy(Owner!MakerFor(p)) = {}
  <2> SUFFICES ASSUME NEW x \in Conns, NEW u \in Threads, x \in fresh[u], frame[u].sp = p
               PROVE  FALSE
    BY <1>3, Held
  <2>1. pc[u] = "append" /\ Holds(u, p)
    BY DEF LockInv, LocalsOK, Holds, HoldsCreate
  <2>2. u = t
    BY <1>3, <2>1 DEF LockInv, CreateHolder
  <2> QED
    BY <1>3, <2>1, <2>2
<1>10. Owner!HasRoom(p)
  <2>1. Cardinality(list[p]) < MaxConns
    BY <1>3 DEF PoolInv, Load, Room
  <2>2. Owner!HeldBy(Owner!ListOf(p)) = list[p]
    BY <1>3, Held
  <2> HIDE DEF p
  <2> QED
    BY <2>1, <2>2 DEF Owner!HasRoom, Owner!Cardinality, Cardinality
<1>11. ASSUME NEW x \in Conns PROVE HoldersOf(x)' = IF x \in {y} THEN {Owner!MakerFor(p)} ELSE HoldersOf(x)
  <2>1. CASE x = y
    <3>1. x \in fresh'[t] /\ frame'[t].sp = p
      BY <1>1, <1>4, <1>5, <2>1 DEF TypeOK
    <3> QED
      BY <1>1, <1>2, <2>1, <3>1 DEF HolderFacts
  <2>2. CASE x # y
    <3>1. \A u \in Threads : x \in fresh'[u] <=> x \in fresh[u]
      <4>1. fresh[t] = {}
        BY <1>3 DEF LockInv, LocalsOK
      <4> QED
        BY <1>1, <1>5, <2>2, <4>1 DEF TypeOK
    <3> QED
      BY <1>4, <1>6, <2>2, <3>1, StaysHeld
  <2> QED
    BY <2>1, <2>2
<1>12. {x \in Conns : Open(x)}' = {x \in Conns : Open(x)} \cup {y}
  BY <1>1, <1>5, <1>7 DEF Open, TypeOK
<1>13. Mapped' = Mapped
  BY <1>6, MappedSame
<1> HIDE DEF p
<1>14. Owner!Pass({y}, {Owner!MakerFor(p)})
  BY <1>11, AbstractPass
<1> QED
  BY <1>3, <1>7, <1>8, <1>9, <1>10, <1>12, <1>13, <1>14 DEF Owner!Make

LEMMA OfferStep ==
    ASSUME LockInv, PoolInv, PoolInv', NEW t \in Threads, ThreadStep(t), AppendFresh(t)
    PROVE  \E p \in Pools : Owner!Offer(p)
<1> DEFINE p == frame[t].sp
<1>1. TypeOK /\ (\A x \in Conns : OneOwner(x)) /\ (\A x \in Conns : OneOwner(x)')
  BY DEF LockInv, PoolInv
<1>2. HolderFacts'
  BY HolderIs, PTL
<1>3. p \in Pools /\ Holds(t, p) /\ pc[t] = "append"
  BY DEF LockInv, LocalsOK, AppendFresh, At, HasPool, HoldsCreate, Holds
<1>4. PICK y \in Conns : fresh[t] = {y}
  BY <1>3 DEF LockInv, LocalsOK
<1>5. /\ list' = [list EXCEPT ![p] = list[p] \cup {y}] /\ fresh' = [fresh EXCEPT ![t] = {}]
      /\ doomed' = doomed /\ conn' = conn /\ services' = services
  BY <1>4 DEF AppendFresh
<1>6. Owner!HeldBy(Owner!MakerFor(p)) = {y}
  <2>1. ASSUME NEW u \in Threads, fresh[u] # {}, frame[u].sp = p PROVE u = t
    <3>1. Holds(u, p)
      BY <2>1 DEF LockInv, LocalsOK, Holds, HoldsCreate
    <3> QED
      BY <1>3, <3>1 DEF LockInv, CreateHolder
  <2>2. {x \in Conns : \E u \in Threads : x \in fresh[u] /\ frame[u].sp = p} = {y}
    BY <1>4, <2>1
  <2> QED
    BY <1>3, <2>2, Held
<1>7. Owner!HasRoom(p)
  <2>1. Cardinality(list[p]) < MaxConns
    BY <1>3 DEF PoolInv, Load, Room
  <2>2. Owner!HeldBy(Owner!ListOf(p)) = list[p]
    BY <1>3, Held
  <2> HIDE DEF p
  <2> QED
    BY <2>1, <2>2 DEF Owner!HasRoom, Owner!Cardinality, Cardinality
<1>8. ASSUME NEW x \in Conns PROVE HoldersOf(x)' = IF x \in {y} THEN {Owner!ListOf(p)} ELSE HoldersOf(x)
  <2>1. CASE x = y
    <3>1. x \in list'[p]
      BY <1>1, <1>3, <1>5, <2>1 DEF TypeOK
    <3> QED
      BY <1>1, <1>2, <1>3, <2>1, <3>1 DEF HolderFacts
  <2>2. CASE x # y
    <3>1. \A q \in Pools : x \in list'[q] <=> x \in list[q]
      BY <1>1, <1>5, <2>2 DEF TypeOK
    <3>2. \A u \in Threads : x \in fresh'[u] <=> x \in fresh[u]
      BY <1>1, <1>4, <1>5, <2>2 DEF TypeOK
    <3>3. \A u \in Threads : x \in fresh'[u] => frame'[u].sp = frame[u].sp
      BY MakerStays
    <3> QED
      BY <1>5, <2>2, <3>1, <3>2, <3>3, StaysHeld
  <2> QED
    BY <2>1, <2>2
<1>9. {x \in Conns : Open(x)}' = {x \in Conns : Open(x)} /\ Mapped' = Mapped
  BY <1>5, MappedSame DEF Open
<1> HIDE DEF p
<1>10. Owner!Pass({y}, {Owner!ListOf(p)})
  BY <1>8, AbstractPass
<1> QED
  BY <1>3, <1>6, <1>7, <1>9, <1>10 DEF Owner!Offer

LEMMA CloseOwnStep ==
    ASSUME LockInv, PoolInv, PoolInv', NEW t \in Threads, ThreadStep(t), CloseDoomed(t)
    PROVE  Owner!Close(t)
<1>1. TypeOK /\ (\A x \in Conns : OneOwner(x)) /\ (\A x \in Conns : OneOwner(x)')
  BY DEF LockInv, PoolInv
<1>2. HolderFacts'
  BY HolderIs, PTL
<1>3. /\ doomed[t] # {} /\ doomed' = [doomed EXCEPT ![t] = {}]
      /\ conn' = [x \in Conns |-> IF x \in doomed[t] THEN "closed" ELSE conn[x]]
      /\ list' = list /\ fresh' = fresh /\ frame' = frame /\ services' = services
  BY DEF CloseDoomed, registry
<1>4. ASSUME NEW x \in Conns PROVE HoldersOf(x)' = IF x \in doomed[t] THEN {} ELSE HoldersOf(x)
  <2>1. CASE x \in doomed[t]
    <3>1. \A q \in Pools : x \notin list'[q]
      BY <1>1, <1>3, <2>1 DEF OneOwner
    <3>2. \A u \in Threads : x \notin fresh'[u]
      BY <1>1, <1>3, <2>1 DEF OneOwner
    <3>3. \A u \in Threads : x \notin doomed'[u]
      BY <1>1, <1>3, <2>1 DEF OneOwner, TypeOK
    <3> QED
      BY <1>1, <1>2, <2>1, <3>1, <3>2, <3>3 DEF HolderFacts
  <2>2. CASE x \notin doomed[t]
    <3>1. \A u \in Threads : x \in doomed'[u] <=> x \in doomed[u]
      BY <1>1, <1>3, <2>2 DEF TypeOK
    <3> QED
      BY <1>3, <2>2, <3>1, StaysHeld
  <2> QED
    BY <2>1, <2>2
<1>5. Owner!HeldBy(Owner!Closer(t)) = doomed[t]
  BY Held
<1>6. {x \in Conns : Open(x)}' = {x \in Conns : Open(x)} \ doomed[t]
  BY <1>3 DEF Open
<1>7. Mapped' = Mapped
  BY <1>3, MappedSame
<1>8. Owner!Pass(doomed[t], {})
  BY <1>4, AbstractPass
<1> QED
  BY <1>3, <1>5, <1>6, <1>7, <1>8 DEF Owner!Close

\* What a step of a goroutine does to the map.
LEMMA MapEffect ==
    ASSUME LockInv, NEW t \in Threads, ThreadStep(t)
    PROVE  \/ UNCHANGED services
           \/ frame[t].svc \in Services \ Pooled /\ NewPool(frame[t].svc)
           \/ \E S : Delete(S)
<1>1. LocalsOK(t)
  BY DEF LockInv
<1>2. CASE Lookup(t) \/ Insert(t)
  <2>1. frame[t].svc \in Services
    BY <1>1, <1>2 DEF Lookup, Insert, At, LocalsOK, GetLabels
  <2> QED
    BY <1>2, <2>1 DEF Lookup, Insert, registry
<1>3. CASE ReadClock(t) \/ Select(t) \/ Recheck(t) \/ AppendFresh(t)
  BY <1>3 DEF ReadClock, Select, Recheck, SelectReusable, AppendFresh
<1>4. CASE Remove(t) \/ DeleteAll(t)
  BY <1>4 DEF Remove, DeleteAll, registry
<1>5. CASE Reread(t) \/ Direct(t) \/ Prepare(t) \/ Dial(t) \/ Find(t) \/ Take(t)
           \/ StopCleanup(t) \/ Snapshot(t) \/ NextPool(t) \/ Release(t) \/ Acquire(t)
           \/ CloseDoomed(t) \/ StartCloseAll(t)
           \/ \E s \in Services : StartGet(t, s) \/ StartClose(t, s)
  BY <1>5 DEF Reread, Direct, Prepare, Dial, Find, Take, StopCleanup, Snapshot, NextPool,
     Release, Acquire, AcquireCreate, AcquireClose, CloseDoomed, StartCloseAll, StartGet,
     StartClose, registry
<1> QED
  BY <1>2, <1>3, <1>4, <1>5 DEF ThreadStep, GetStep, CloseStep

\* A step that moves no connection may only take pool objects out of the map, or
\* put a new one, which is empty, into it.
LEMMA StillStep ==
    ASSUME LockInv, PoolInv, PoolInv', NEW t \in Threads, ThreadStep(t),
           list' = list, doomed' = doomed, fresh' = fresh, conn' = conn
    PROVE  Owner!Leave \/ \E p \in Pools : Owner!Enter(p)
<1>1. CASE frame[t].svc \in Services \ Pooled /\ NewPool(frame[t].svc)
  <2>1. Empties(t)
    BY <1>1 DEF Empties
  <2> QED
    BY <2>1, EnterStep
<1>2. CASE services' = services \/ \E S : Delete(S)
  <2>1. Mapped' \subseteq Mapped
    BY <1>2 DEF Delete, Mapped, Pooled
  <2>2. ASSUME NEW x \in Conns PROVE HoldersOf(x)' = HoldersOf(x)
    BY MakerStays, StaysHeld
  <2>3. {x \in Conns : Open(x)}' = {x \in Conns : Open(x)}
    BY DEF Open
  <2>4. [x \in Conns |-> HoldersOf(x)]' = [x \in Conns |-> HoldersOf(x)]
    BY <2>2
  <2> QED
    BY <2>1, <2>3, <2>4 DEF Owner!Leave
<1> QED
  BY <1>1, <1>2, MapEffect

LEMMA OwnerStep ==
    ASSUME LockInv, PoolInv, PoolInv', [Next]_vars
    PROVE  [Owner!Next]_(Owner!ownershipVars)
<1>1. ASSUME NEW t \in Threads, ThreadStep(t) PROVE [Owner!Next]_(Owner!ownershipVars)
  <2> USE DEF Owner!Next
  <2>1. CASE list' = list /\ doomed' = doomed /\ fresh' = fresh /\ conn' = conn
    BY <1>1, <2>1, StillStep
  <2>2. CASE TakesOut(t)
    BY <1>1, <2>2, WithdrawStep
  <2>3. CASE Empties(t)
    BY <1>1, <2>3, EnterStep
  <2>4. CASE Dials(t)
    BY <1>1, <2>4, MakeStep
  <2>5. CASE AppendFresh(t)
    BY <1>1, <2>5, OfferStep
  <2>6. CASE CloseDoomed(t)
    BY <1>1, <2>6, CloseOwnStep
  <2> QED
    BY <1>1, <2>1, <2>2, <2>3, <2>4, <2>5, <2>6, Effect
<1>2. CASE ~\E t \in Threads : ThreadStep(t)
  <2>1. UNCHANGED <<services, list, pc, frame, doomed, fresh>> /\ SameOpen
    BY <1>2, NextCases, OtherQuiet DEF LockInv, PoolInv
  <2>2. ASSUME NEW x \in Conns PROVE HoldersOf(x)' = HoldersOf(x)
    BY <2>1 DEF HoldersOf
  <2>3. {x \in Conns : Open(x)}' = {x \in Conns : Open(x)} /\ Mapped' = Mapped
    BY <2>1, OpenSame, MappedSame
  <2> QED
    BY <2>2, <2>3 DEF Owner!ownershipVars
<1> QED
  BY <1>1, <1>2

\* connection_pool.go:205, 225, 251, 427: without sweeps, the pool passes each
\* connection on as PoolOwnership says, for any goroutines, services and limits.
THEOREM ImplementsOwnership ==
    ASSUME ~Sweeping
    PROVE  Spec => KeepsOwners
<1>1. ASSUME Init PROVE Owner!Init
  <2>1. \A x \in Conns : HoldersOf(x) = {}
    BY <1>1 DEF Init, HoldersOf
  <2>2. {x \in Conns : Open(x)} = {} /\ Mapped = {}
    BY <1>1 DEF Init, Open, Mapped, Pooled
  <2> QED
    BY <2>1, <2>2 DEF Owner!Init
<1>2. LockInv /\ PoolInv /\ PoolInv' /\ [Next]_vars => [Owner!Next]_(Owner!ownershipVars)
  BY OwnerStep
<1> QED
  BY <1>1, <1>2, PoolInvariance, PTL DEF Spec, KeepsOwners, Owner!Spec
=============================================================================
