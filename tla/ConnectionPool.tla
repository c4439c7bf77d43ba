--------------------------- MODULE ConnectionPool ---------------------------
(***************************************************************************)
(* connection_pool.go: the pool of connections by service, used by callers *)
(* of GetConnection, CloseConnection and CloseAll and by the goroutine     *)
(* that sweeps idle connections.                                           *)
(*                                                                         *)
(* A critical section of p.mu or of a service pool's mu is one step: no    *)
(* goroutine blocks inside one.  createMu is held across the dial, so it   *)
(* is a lock of the model.  Connections leave a list under the lock and    *)
(* are closed after it, so each goroutine has a set of doomed connections. *)
(* Pool objects and connections have identities, because CloseConnection   *)
(* and CloseAll compare them; an identity nothing refers to is used again. *)
(* Which member of a list a selection strategy picks, and which one has    *)
(* the lowest use count, is left open.                                     *)
(*                                                                         *)
(* Instants are modelled by their order: the clock is monotonic, but two   *)
(* readings may be equal, and a get reads it before it takes the lock under*)
(* which it writes lastUsed, so a lastUsed may tie or go back.             *)
(***************************************************************************)
EXTENDS Naturals, FiniteSets

CONSTANTS
    Services,     \* service names
    Threads,      \* goroutines calling the pool
    Ops,          \* the operations they call
    Pools,        \* bound: identities of serviceConnectionPool objects
    Conns,        \* bound: identities of connections
    None,         \* no pool object, no name, no goroutine
    MaxServices,  \* p.maxServices
    MaxConns,     \* p.maxConnsPerService, 1 when it is configured below 1
    Sweeping,     \* idleTimeout > 0: the cleanup goroutine runs
    Breakable     \* the connections whose health may change

MaxRetries == 3   \* maxGetConnectionRetries

ASSUME PoolAssumption ==
    /\ IsFiniteSet(Conns) /\ IsFiniteSet(Pools) /\ IsFiniteSet(Services)
    /\ None \notin Pools \cup Threads \cup Services
    /\ Services \cap Threads = {}
    /\ Ops \subseteq {"get", "close", "closeAll"}
    /\ MaxServices \in Nat /\ MaxConns \in Nat \ {0}
    /\ Sweeping \in BOOLEAN /\ Breakable \subseteq Conns

VARIABLES
    services,     \* p.services: name -> pool object, or None
    list,         \* sp.connections of each pool object, as a set
    usedBefore,   \* <<r, s>>: r's instant is before s's.  That of a name is its pool's
                  \* lastUsed, that of a goroutine the now it is going to write there
    clocked,      \* the goroutines that have such a now
    idleServices, \* those whose lastUsed is older than idleTimeout
    idleConns,    \* the connections whose lastUsed is older than idleTimeout
    conn,         \* "healthy" (Ready or Idle), "broken" or "closed"
    createMu,     \* holder of each pool object's createMu
    pc,           \* where each goroutine is
    frame,        \* the parameters and locals of the operation it is in
    doomed,       \* connections it has taken out of a list and must close
    fresh,        \* the connection createFunc gave it, as a set
    cleaner,      \* where the cleanup goroutine is
    sweep,        \* what its first phase collected
    stopped       \* p.stopCleanup is closed

registry == <<services, usedBefore, clocked, idleServices>>
reaper   == <<cleaner, sweep, stopped>>
vars == <<registry, list, idleConns, conn, createMu, pc, frame, doomed, fresh, reaper>>

-----------------------------------------------------------------------------
Pooled == {s \in Services : services[s] # None}
Mapped == {services[s] : s \in Pooled}
Open(x) == conn[x] # "closed"

EmptyFrame == [op |-> "none", svc |-> None, target |-> None, sp |-> None, retries |-> 0,
               snap |-> [s \in Services |-> None], todo |-> {}]
EmptySweep == [reap |-> {}, keep |-> [s \in {} |-> {}], gone |-> {}]

Labels == {"idle", "lookup", "insert", "reread", "direct", "select", "lock", "recheck",
           "prepare", "dial", "append", "find", "closeLock", "take", "remove",
           "release", "stop", "snapshot", "nextPool", "delete"}

FrameType ==
    [op : {"none", "get", "close", "closeAll"}, svc : Services \cup {None},
     target : Services \cup {None}, sp : Pools \cup {None}, retries : 0..MaxRetries,
     snap : [Services -> Pools \cup {None}], todo : SUBSET Pools]

TypeOK ==
    /\ services \in [Services -> Pools \cup {None}]
    /\ list \in [Pools -> SUBSET Conns]
    /\ usedBefore \subseteq (Services \cup Threads) \X (Services \cup Threads)
    /\ clocked \subseteq Threads
    /\ idleServices \subseteq Services /\ idleConns \subseteq Conns
    /\ conn \in [Conns -> {"healthy", "broken", "closed"}]
    /\ createMu \in [Pools -> Threads \cup {None}]
    /\ pc \in [Threads -> Labels]
    /\ frame \in [Threads -> FrameType]
    /\ doomed \in [Threads -> SUBSET Conns] /\ fresh \in [Threads -> SUBSET Conns]
    /\ cleaner \in {"wait", "close", "write", "stopped"}
    /\ sweep.reap \subseteq Conns /\ sweep.gone \subseteq Services
    /\ DOMAIN sweep.keep \subseteq Services
    /\ stopped \in BOOLEAN

Init ==
    /\ services = [s \in Services |-> None]
    /\ list = [p \in Pools |-> {}]
    /\ usedBefore = {} /\ clocked = {} /\ idleServices = {} /\ idleConns = {}
    /\ conn = [x \in Conns |-> "closed"]
    /\ createMu = [p \in Pools |-> None]
    /\ pc = [t \in Threads |-> "idle"]
    /\ frame = [t \in Threads |-> EmptyFrame]
    /\ doomed = [t \in Threads |-> {}] /\ fresh = [t \in Threads |-> {}]
    /\ cleaner = IF Sweeping THEN "wait" ELSE "stopped"
    /\ sweep = EmptySweep
    /\ stopped = FALSE

\* Identities that nothing refers to any more.
FreePools ==
    {p \in Pools \ Mapped :
        \A t \in Threads : /\ p # frame[t].sp /\ p \notin frame[t].todo
                           /\ \A s \in Services : p # frame[t].snap[s]}

FreeConns ==
    {x \in Conns : /\ ~Open(x)
                   /\ \A p \in Pools : x \notin list[p]
                   /\ \A t \in Threads : x \notin doomed[t] \cup fresh[t]
                   /\ x \notin sweep.reap
                   /\ \A s \in DOMAIN sweep.keep : x \notin sweep.keep[s]}

\* A goroutine goes on once it has closed what it took out of a list.
At(t, l) == pc[t] = l /\ doomed[t] = {}
Goto(t, l) == pc' = [pc EXCEPT ![t] = l]

Stamped == Pooled \cup clocked
Latest  == {q \in Stamped : \A r \in Stamped : <<q, r>> \notin usedBefore}
Without(S) == {q \in usedBefore : q[1] \notin S /\ q[2] \notin S}

\* time.Now() for q: after every earlier reading, or equal to the latest of them.
Now(q) == \E equal \in {{}, Latest} :
              usedBefore' = usedBefore \cup ((Stamped \ equal) \X {q})

\* now := time.Now(), before the lock is asked for.
ReadClock(t) ==
    /\ \E l \in {"select", "recheck", "append"} : At(t, l)
    /\ t \notin clocked
    /\ Now(t)
    /\ clocked' = clocked \cup {t}
    /\ UNCHANGED <<services, idleServices, list, idleConns, conn, createMu, pc, frame,
                   doomed, fresh, reaper>>

\* sp.lastUsed = now: the name of p, if the map still has p, gets the instant that t read.
Touch(t, p) ==
    LET names == {s \in Services : services[s] = p}
    IN  /\ t \in clocked
        /\ usedBefore' = Without(names \cup {t})
               \cup ({q \in Stamped \ names : <<q, t>> \in usedBefore} \X names)
               \cup (names \X {q \in Stamped \ names : <<t, q>> \in usedBefore})
        /\ clocked' = clocked \ {t}
        /\ idleServices' = idleServices \ names

\* delete(p.services, name) for the names of S.
Delete(S) ==
    /\ services' = [s \in Services |-> IF s \in S THEN None ELSE services[s]]
    /\ usedBefore' = Without(S)
    /\ idleServices' = idleServices \ S
    /\ UNCHANGED clocked

Lock(t, p) == createMu[p] = None /\ createMu' = [createMu EXCEPT ![p] = t]
Unlock(p)  == createMu' = [createMu EXCEPT ![p] = None]

\* The operation returns; a deferred createMu.Unlock runs.
Return(t) ==
    /\ Goto(t, "idle")
    /\ frame' = [frame EXCEPT ![t] = EmptyFrame]
    /\ createMu' = [p \in Pools |-> IF createMu[p] = t THEN None ELSE createMu[p]]

\* conn.Close() for everything taken out of a list, after the lock is released.
CloseDoomed(t) ==
    /\ doomed[t] # {}
    /\ conn' = [x \in Conns |-> IF x \in doomed[t] THEN "closed" ELSE conn[x]]
    /\ doomed' = [doomed EXCEPT ![t] = {}]
    /\ UNCHANGED <<registry, list, idleConns, createMu, pc, frame, fresh, reaper>>

(***************************************************************************)
(* getConnectionWithRetry                                                  *)
(***************************************************************************)
StartGet(t, s) ==
    /\ At(t, "idle") /\ "get" \in Ops
    /\ Goto(t, "lookup")
    /\ frame' = [frame EXCEPT ![t].op = "get", ![t].svc = s]
    /\ UNCHANGED <<registry, list, idleConns, conn, createMu, doomed, fresh, reaper>>

NewPool(s) ==
    \E p \in FreePools :
        /\ services' = [services EXCEPT ![s] = p]
        /\ list' = [list EXCEPT ![p] = {}]
        /\ Now(s)
        /\ idleServices' = idleServices \ {s}
        /\ UNCHANGED clocked

\* getLRUServiceNameLocked: the map's order decides between equal instants.
LeastRecentlyUsed == {s \in Pooled : \A r \in Pooled : <<r, s>> \notin usedBefore}

\* At capacity the least recently used service is to be closed, without p.mu.
Lookup(t) ==
    LET full == Cardinality(Pooled) >= MaxServices IN
    /\ At(t, "lookup")
    /\ \/ /\ frame[t].svc \in Pooled
          /\ Goto(t, "reread")
          /\ UNCHANGED <<registry, list, frame>>
       \/ /\ frame[t].svc \notin Pooled /\ ~full
          /\ NewPool(frame[t].svc)
          /\ Goto(t, "reread")
          /\ UNCHANGED frame
       \/ /\ frame[t].svc \notin Pooled /\ full
          /\ \/ Pooled = {} /\ Goto(t, "insert") /\ UNCHANGED frame
             \/ \E s \in LeastRecentlyUsed : /\ frame' = [frame EXCEPT ![t].target = s]
                                             /\ Goto(t, "find")
          /\ UNCHANGED <<registry, list>>
    /\ UNCHANGED <<idleConns, conn, createMu, doomed, fresh, reaper>>

\* p.mu is taken again after the eviction: the name is looked up again, the
\* number of services is not.
Insert(t) ==
    /\ At(t, "insert")
    /\ IF frame[t].svc \in Pooled THEN UNCHANGED <<registry, list>> ELSE NewPool(frame[t].svc)
    /\ Goto(t, "reread")
    /\ UNCHANGED <<idleConns, conn, createMu, frame, doomed, fresh, reaper>>

\* Variant: the retry is not bounded.
RereadUnbounded(t) ==
    /\ At(t, "reread")
    /\ IF frame[t].svc \in Pooled
          THEN /\ frame' = [frame EXCEPT ![t].sp = services[frame[t].svc]]
               /\ Goto(t, "select")
          ELSE /\ frame' = [frame EXCEPT ![t].retries = @ + 1]
               /\ Goto(t, "lookup")
    /\ UNCHANGED <<registry, list, idleConns, conn, createMu, doomed, fresh, reaper>>

Reread(t) ==
    LET n == frame[t].retries + 1 IN
    /\ At(t, "reread")
    /\ IF frame[t].svc \in Pooled
          THEN /\ frame' = [frame EXCEPT ![t].sp = services[frame[t].svc]]
               /\ Goto(t, "select")
          ELSE /\ frame' = [frame EXCEPT ![t].retries = n]
               /\ Goto(t, IF n >= MaxRetries THEN "direct" ELSE "lookup")
    /\ UNCHANGED <<registry, list, idleConns, conn, createMu, doomed, fresh, reaper>>

\* The connection made here is the caller's own: the pool never has it.
Direct(t) ==
    /\ At(t, "direct")
    /\ Return(t)
    /\ UNCHANGED <<registry, list, idleConns, conn, doomed, fresh, reaper>>

(***************************************************************************)
(* serviceConnectionPool.GetConnection                                     *)
(***************************************************************************)

\* selectReusableConnection: the unhealthy are dropped, one of the others is
\* handed back, unless its health has changed since they were examined.
SelectReusable(t, miss) ==
    LET p == frame[t].sp
        good == {x \in list[p] : conn[x] = "healthy"}
    IN  /\ Touch(t, p)
        /\ list' = [list EXCEPT ![p] = good]
        /\ doomed' = [doomed EXCEPT ![t] = list[p] \ good]
        /\ \/ /\ \E x \in good : idleConns' = idleConns \ {x}
              /\ Return(t)
              /\ UNCHANGED conn
           \/ /\ \/ good = {} /\ UNCHANGED conn
                 \/ \E x \in good \cap Breakable : conn' = [conn EXCEPT ![x] = "broken"]
              /\ Goto(t, miss)
              /\ UNCHANGED <<idleConns, frame, createMu>>
        /\ UNCHANGED <<services, fresh, reaper>>

Select(t) == At(t, "select") /\ SelectReusable(t, "lock")

\* Variant: the reuse check is not repeated under createMu.
AcquireCreateUnchecked(t) ==
    /\ At(t, "lock")
    /\ Lock(t, frame[t].sp)
    /\ Goto(t, "prepare")
    /\ UNCHANGED <<registry, list, idleConns, conn, frame, doomed, fresh, reaper>>

AcquireCreate(t) ==
    /\ At(t, "lock")
    /\ Lock(t, frame[t].sp)
    /\ Goto(t, "recheck")
    /\ UNCHANGED <<registry, list, idleConns, conn, frame, doomed, fresh, reaper>>

Recheck(t) == At(t, "recheck") /\ SelectReusable(t, "prepare")

\* Variant: room is made only when the maximum is already exceeded.
PrepareLate(t) ==
    LET p == frame[t].sp IN
    /\ At(t, "prepare")
    /\ IF Cardinality(list[p]) > MaxConns
          THEN \E x \in list[p] : /\ list' = [list EXCEPT ![p] = @ \ {x}]
                                  /\ doomed' = [doomed EXCEPT ![t] = {x}]
          ELSE UNCHANGED <<list, doomed>>
    /\ Goto(t, "dial")
    /\ UNCHANGED <<registry, idleConns, conn, createMu, frame, fresh, reaper>>

\* prepareForCreate: the least used connection makes room for the new one.
Prepare(t) ==
    LET p == frame[t].sp IN
    /\ At(t, "prepare")
    /\ IF Cardinality(list[p]) >= MaxConns
          THEN \E x \in list[p] : /\ list' = [list EXCEPT ![p] = @ \ {x}]
                                  /\ doomed' = [doomed EXCEPT ![t] = {x}]
          ELSE UNCHANGED <<list, doomed>>
    /\ Goto(t, "dial")
    /\ UNCHANGED <<registry, idleConns, conn, createMu, frame, fresh, reaper>>

\* createFunc, with createMu held: a new connection, which is Idle, or an error.
Dial(t) ==
    /\ At(t, "dial")
    /\ \/ /\ \E x \in FreeConns : /\ conn' = [conn EXCEPT ![x] = "healthy"]
                                  /\ fresh' = [fresh EXCEPT ![t] = {x}]
          /\ Goto(t, "append")
          /\ UNCHANGED <<frame, createMu>>
       \/ /\ Return(t)
          /\ UNCHANGED <<conn, fresh>>
    /\ UNCHANGED <<registry, list, idleConns, doomed, reaper>>

AppendFresh(t) ==
    LET p == frame[t].sp IN
    /\ At(t, "append")
    /\ Touch(t, p)
    /\ list' = [list EXCEPT ![p] = @ \cup fresh[t]]
    /\ idleConns' = idleConns \ fresh[t]
    /\ fresh' = [fresh EXCEPT ![t] = {}]
    /\ Return(t)
    /\ UNCHANGED <<services, conn, doomed, reaper>>

(***************************************************************************)
(* CloseConnection, of a caller or of an eviction; CloseAll                *)
(***************************************************************************)
StartClose(t, s) ==
    /\ At(t, "idle") /\ "close" \in Ops
    /\ Goto(t, "find")
    /\ frame' = [frame EXCEPT ![t].op = "close", ![t].target = s]
    /\ UNCHANGED <<registry, list, idleConns, conn, createMu, doomed, fresh, reaper>>

\* CloseConnection returns to its caller, or to the eviction it was called for.
AfterClose(t) ==
    IF frame[t].op = "get"
        THEN /\ Goto(t, "insert")
             /\ frame' = [frame EXCEPT ![t].sp = None, ![t].target = None]
             /\ createMu' = [p \in Pools |-> IF createMu[p] = t THEN None ELSE createMu[p]]
        ELSE Return(t)

Find(t) ==
    /\ At(t, "find")
    /\ IF frame[t].target \in Pooled
          THEN /\ frame' = [frame EXCEPT ![t].sp = services[frame[t].target]]
               /\ Goto(t, "closeLock")
               /\ UNCHANGED createMu
          ELSE AfterClose(t)
    /\ UNCHANGED <<registry, list, idleConns, conn, doomed, fresh, reaper>>

\* Variant: CloseConnection does not wait for createMu.
AcquireCloseUnlocked(t) ==
    /\ At(t, "closeLock")
    /\ Goto(t, "take")
    /\ UNCHANGED <<registry, list, idleConns, conn, createMu, frame, doomed, fresh, reaper>>

\* Waits for a create in flight.
AcquireClose(t) ==
    /\ At(t, "closeLock")
    /\ Lock(t, frame[t].sp)
    /\ Goto(t, "take")
    /\ UNCHANGED <<registry, list, idleConns, conn, frame, doomed, fresh, reaper>>

\* Variant: the list keeps the connections that are closed.
TakeKeeping(t) ==
    LET p == frame[t].sp IN
    /\ At(t, "take")
    /\ doomed' = [doomed EXCEPT ![t] = list[p]]
    /\ Goto(t, IF frame[t].op = "closeAll" THEN "release" ELSE "remove")
    /\ UNCHANGED <<registry, list, idleConns, conn, createMu, frame, fresh, reaper>>

\* closeAllConnections.
Take(t) ==
    LET p == frame[t].sp IN
    /\ At(t, "take")
    /\ list' = [list EXCEPT ![p] = {}]
    /\ doomed' = [doomed EXCEPT ![t] = list[p]]
    /\ Goto(t, IF frame[t].op = "closeAll" THEN "release" ELSE "remove")
    /\ UNCHANGED <<registry, idleConns, conn, createMu, frame, fresh, reaper>>

\* The entry goes only if it is still this pool object's.
Remove(t) ==
    LET s == frame[t].target IN
    /\ At(t, "remove")
    /\ IF services[s] = frame[t].sp THEN Delete({s}) ELSE UNCHANGED registry
    /\ AfterClose(t)
    /\ UNCHANGED <<list, idleConns, conn, doomed, fresh, reaper>>

StartCloseAll(t) ==
    /\ At(t, "idle") /\ "closeAll" \in Ops
    /\ Goto(t, "stop")
    /\ frame' = [frame EXCEPT ![t].op = "closeAll"]
    /\ UNCHANGED <<registry, list, idleConns, conn, createMu, doomed, fresh, reaper>>

\* Variant: the stop channel is not closed.
StopCleanupTickerOnly(t) ==
    /\ At(t, "stop")
    /\ Goto(t, "snapshot")
    /\ UNCHANGED <<registry, list, idleConns, conn, createMu, frame, doomed, fresh, reaper>>

StopCleanup(t) ==
    /\ At(t, "stop")
    /\ stopped' = TRUE
    /\ Goto(t, "snapshot")
    /\ UNCHANGED <<registry, list, idleConns, conn, createMu, frame, doomed, fresh, cleaner, sweep>>

\* cleanupWG.Wait(), then the copy of the map.
Snapshot(t) ==
    /\ At(t, "snapshot")
    /\ cleaner = "stopped"
    /\ frame' = [frame EXCEPT ![t].snap = services, ![t].todo = Mapped]
    /\ Goto(t, "nextPool")
    /\ UNCHANGED <<registry, list, idleConns, conn, createMu, doomed, fresh, reaper>>

NextPool(t) ==
    /\ At(t, "nextPool")
    /\ IF frame[t].todo = {}
          THEN Goto(t, "delete") /\ UNCHANGED frame
          ELSE /\ \E p \in frame[t].todo :
                     frame' = [frame EXCEPT ![t].sp = p, ![t].todo = @ \ {p}]
               /\ Goto(t, "closeLock")
    /\ UNCHANGED <<registry, list, idleConns, conn, createMu, doomed, fresh, reaper>>

\* Variant: the pools stay locked until CloseAll returns.
ReleaseLate(t) ==
    /\ At(t, "release")
    /\ Goto(t, "nextPool")
    /\ UNCHANGED <<registry, list, idleConns, conn, createMu, frame, doomed, fresh, reaper>>

Release(t) ==
    /\ At(t, "release")
    /\ Unlock(frame[t].sp)
    /\ Goto(t, "nextPool")
    /\ UNCHANGED <<registry, list, idleConns, conn, frame, doomed, fresh, reaper>>

DeleteAll(t) ==
    /\ At(t, "delete")
    /\ Delete({s \in Pooled : services[s] = frame[t].snap[s]})
    /\ Return(t)
    /\ UNCHANGED <<list, idleConns, conn, doomed, fresh, reaper>>

(***************************************************************************)
(* cleanupRoutine and cleanupIdleConnections                               *)
(***************************************************************************)

\* Variant: only services that are idle as a whole are reaped.
CollectServicesOnly ==
    LET gone == Pooled \cap idleServices
    IN  /\ cleaner = "wait"
        /\ sweep' = [gone |-> gone, keep |-> [s \in Pooled \ gone |-> list[services[s]]],
                     reap |-> UNION {list[services[s]] : s \in gone}]
        /\ cleaner' = "close"
        /\ UNCHANGED <<registry, list, idleConns, conn, createMu, pc, frame, doomed, fresh, stopped>>

\* Phase 1, under p.mu: what to close, and what to keep of every other pool.
Collect ==
    LET gone == Pooled \cap idleServices
        keep == [s \in Pooled \ gone |-> list[services[s]] \ idleConns]
    IN  /\ cleaner = "wait"
        /\ sweep' = [gone |-> gone, keep |-> keep,
                     reap |-> (UNION {list[services[s]] : s \in gone}) \cup
                              (UNION {list[services[s]] \cap idleConns : s \in Pooled})]
        /\ cleaner' = "close"
        /\ UNCHANGED <<registry, list, idleConns, conn, createMu, pc, frame, doomed, fresh, stopped>>

\* Phase 2, without locks.
Reap ==
    /\ cleaner = "close"
    /\ conn' = [x \in Conns |-> IF x \in sweep.reap THEN "closed" ELSE conn[x]]
    /\ cleaner' = "write"
    /\ UNCHANGED <<registry, list, idleConns, createMu, pc, frame, doomed, fresh, sweep, stopped>>

\* Phase 3, under p.mu: the lists of phase 1 are written to whichever pools now
\* have these names, and the idle names are deleted.
WriteBack ==
    LET kept == (DOMAIN sweep.keep) \cap Pooled IN
    /\ cleaner = "write"
    /\ list' = [p \in Pools |->
                  IF \E s \in kept : services[s] = p
                      THEN sweep.keep[CHOOSE s \in kept : services[s] = p] ELSE list[p]]
    /\ Delete(sweep.gone)
    /\ sweep' = EmptySweep
    /\ cleaner' = "wait"
    /\ UNCHANGED <<idleConns, conn, createMu, pc, frame, doomed, fresh, stopped>>

\* select may take a tick that was already pending after the stop.
CleanerExits ==
    /\ cleaner = "wait" /\ stopped
    /\ cleaner' = "stopped"
    /\ UNCHANGED <<registry, list, idleConns, conn, createMu, pc, frame, doomed, fresh, sweep, stopped>>

(***************************************************************************)
(* The environment: time passes, the transport changes a connection's state*)
(***************************************************************************)

\* Pools become idle in the order of their instants, and after their connections: what
\* passes between reading the clock and writing lastUsed is nothing to idleTimeout,
\* so none becomes idle before a now that is not later has been written.
GoIdle ==
    /\ Sweeping
    /\ \/ /\ \E x \in Conns \ idleConns :
                /\ \E p \in Pools : x \in list[p]
                /\ idleConns' = idleConns \cup {x}
          /\ UNCHANGED idleServices
       \/ /\ \E s \in Pooled \ idleServices :
                /\ \A r \in Pooled : <<r, s>> \in usedBefore => r \in idleServices
                /\ \A t \in clocked : <<s, t>> \in usedBefore
                /\ list[services[s]] \subseteq idleConns
                /\ idleServices' = idleServices \cup {s}
          /\ UNCHANGED idleConns
    /\ UNCHANGED <<services, usedBefore, clocked, list, conn, createMu, pc, frame, doomed,
                   fresh, reaper>>

ChangeHealth(x) ==
    /\ Open(x)
    /\ conn' = [conn EXCEPT ![x] = IF @ = "healthy" THEN "broken" ELSE "healthy"]
    /\ UNCHANGED <<registry, list, idleConns, createMu, pc, frame, doomed, fresh, reaper>>

-----------------------------------------------------------------------------
GetStep(t) ==
    \/ Lookup(t) \/ Insert(t) \/ Reread(t) \/ Direct(t) \/ ReadClock(t) \/ Select(t)
    \/ Recheck(t) \/ Prepare(t) \/ Dial(t) \/ AppendFresh(t)

CloseStep(t) ==
    \/ Find(t) \/ Take(t) \/ Remove(t)
    \/ StopCleanup(t) \/ Snapshot(t) \/ NextPool(t) \/ Release(t) \/ DeleteAll(t)

Acquire(t) == AcquireCreate(t) \/ AcquireClose(t)
Sweep == Collect \/ Reap \/ WriteBack

Next ==
    \/ \E t \in Threads : \/ \E s \in Services : StartGet(t, s) \/ StartClose(t, s)
                          \/ StartCloseAll(t)
                          \/ GetStep(t) \/ CloseStep(t) \/ Acquire(t) \/ CloseDoomed(t)
    \/ Sweep \/ CleanerExits
    \/ GoIdle
    \/ \E x \in Breakable : ChangeHealth(x)

Spec == Init /\ [][Next]_vars

\* Goroutines run; a Go mutex hands itself to a goroutine that has waited long
\* enough; select takes the closed channel sooner or later; dials return.
Fairness ==
    /\ \A t \in Threads : /\ WF_vars(GetStep(t) \/ CloseStep(t) \/ CloseDoomed(t))
                          /\ SF_vars(Acquire(t))
    /\ WF_vars(Sweep)
    /\ SF_vars(CleanerExits)

(***************************************************************************)
(* Properties                                                              *)
(***************************************************************************)

\* Where a connection is held that somebody has yet to close.
Owners(x) ==
    {p \in Pools : x \in list[p]} \cup {t \in Threads : x \in doomed[t]}
    \cup {t \in Threads : x \in fresh[t]}

\* Without sweeps: a connection that a pool offers or a goroutine is about to
\* close is open and has one owner, so none is closed twice (the second Close
\* fails and would be reported) and no pool offers a closed one.
OwnedOnce ==
    \A x \in Conns : /\ Cardinality(Owners(x)) <= 1
                     /\ Owners(x) # {} => Open(x)

\* Who holds a connection: the list it is in, who made it for a pool object and has
\* not put it there yet, who is to close it.
HoldersOf(x) ==
    {<<"list", p>> : p \in {q \in Pools : x \in list[q]}}
    \cup {<<"maker", frame[t].sp>> : t \in {u \in Threads : x \in fresh[u]}}
    \cup {<<"closer", t>> : t \in {u \in Threads : x \in doomed[u]}}

Owner == INSTANCE PoolOwnership WITH
    holders <- [x \in Conns |-> HoldersOf(x)],
    open <- {x \in Conns : Open(x)},
    mapped <- Mapped

\* Without sweeps: however gets, evictions and closes interleave, a connection is
\* passed on from its maker to a list that has room and from there to the goroutine
\* that closes it (connection_pool.go:205, 225, 251, 427), is never in two hands,
\* and is not lost while its pool object is in the map.
KeepsOwners == Owner!Spec

\* Without sweeps: no pool has more than its maximum of connections, counting
\* the one being dialled (connection_pool.go:36).
Creating(p) == {t \in Threads : pc[t] \in {"dial", "append"} /\ frame[t].sp = p}
WithinMaxConns ==
    \A p \in Pools : Cardinality(list[p]) + Cardinality(Creating(p)) <= MaxConns

\* CloseConnection waits for a create in flight and keeps later ones out until
\* the entry is gone: what it removes from the map is an empty pool, with no
\* connection on its way into it.
RemovedEmpty ==
    \A t \in Threads : pc[t] = "remove" =>
        list[frame[t].sp] = {} /\ Creating(frame[t].sp) = {}

\* Callers that want the same service at the same time share one dial
\* (connection_pool_test.go:14): whoever is about to dial has seen, with createMu
\* held, that the pool offers no connection, and none has come since.  Only the one
\* that broke as it was selected may be there, and recover meanwhile; a pool with
\* room for more dials then beside its other connections (connection_pool.go:231),
\* so this is stated for MaxConns = 1, or for connections whose health stays.
NoNeedlessDial ==
    \A t \in Threads : pc[t] \in {"prepare", "dial", "append"} =>
        list[frame[t].sp] \subseteq Breakable

\* A goroutine that waits for a createMu holds none: evictions, closes of single
\* services and of all of them cannot wait for each other in a circle.
HolderNeverWaits ==
    \A t \in Threads : pc[t] \in {"lock", "closeLock"} =>
        \A p \in Pools : createMu[p] # t

\* Every call of the pool returns, whatever the sweeps do, and CloseAll's wait for
\* the cleanup goroutine ends.
Returns == \A t \in Threads : pc[t] # "idle" ~> pc[t] = "idle"

\* A connection that stays unused in the pool is closed, unless it is used again
\* or leaves the map, until CloseAll stops the sweeps.
Idling(x) == /\ Open(x) /\ x \in idleConns /\ ~stopped
             /\ \E s \in Pooled : x \in list[services[s]]
IdleReaped == \A x \in Conns : Idling(x) ~> ~Idling(x)

\* connection_pool.go:340, "closes all connections for a specific service": when
\* all calls have returned, a connection that is open is still in the map, where
\* CloseConnection and CloseAll find it.
NoOrphans ==
    (\A t \in Threads : At(t, "idle")) =>
        \A x \in Conns : Open(x) => \E s \in Pooled : x \in list[services[s]]
=============================================================================
