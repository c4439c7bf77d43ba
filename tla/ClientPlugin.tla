---------------------------- MODULE ClientPlugin ----------------------------
(***************************************************************************)
(* client.go, runtime_config.go: how GetConnection, CloseServiceConnection,*)
(* Close and Configure of the client plugin use c.mu, the map of legacy    *)
(* connections and the connection pool, for one service.                   *)
(*                                                                         *)
(* Close and Configure hold c.mu while they close the pool, so c.mu is a   *)
(* lock of the model; every other section of it is one step that waits     *)
(* until it is free.  Each Configure makes new settings and a new pool:    *)
(* both are numbered by it.  A pool is what ConnectionPool.tla promises for*)
(* one name: at most one connection, made and closed under createMu, and   *)
(* pools the code removes and makes again are taken as one, which makes    *)
(* callers wait for each other more than the code does.                    *)
(***************************************************************************)
EXTENDS Naturals, FiniteSets

CONSTANTS
    Threads,      \* goroutines calling the plugin
    Ops,          \* the operations they call
    Conns,        \* bound: identities of connections
    None,         \* no connection, no goroutine
    MaxConfigs,   \* bound on the number of Configure calls
    Poolings,     \* what connection_pooling may be in the successive settings
    Tls,          \* connections are made with TLS
    Breakable     \* connections may lose and regain their transport

ASSUME ClientAssumption ==
    /\ None \notin Threads \cup Conns
    /\ Ops \subseteq {"get", "closeService", "close", "configure"}
    /\ MaxConfigs \in Nat
    /\ Poolings # {} /\ Poolings \subseteq [0..MaxConfigs -> BOOLEAN]
    /\ Tls \in BOOLEAN /\ Breakable \in BOOLEAN

Configs == 0..MaxConfigs

VARIABLES
    mu,        \* who holds c.mu for writing across several steps
    config,    \* c.conf, as the number of the Configure that set it
    current,   \* c.connectionPool, as the number of the Configure that made it
    pooling,   \* connection_pooling of each configuration
    legacy,    \* c.connections[service], or None
    pooled,    \* the connection each pool has for the service, or None
    createMu,  \* holder of each pool's createMu
    conn,      \* "open", "broken" or "closed"
    madeWith,  \* the settings each connection was made with
    pc,        \* where each goroutine is
    frame,     \* its locals
    clean      \* history: the last Configure that met no GetConnection on its way

settings == <<config, current, pooling>>
vars == <<mu, settings, legacy, pooled, createMu, conn, madeWith, pc, frame, clean>>

Labels == {"idle", "legacy", "look", "drop", "config", "pool", "reuse", "lock", "recheck",
           "build", "append", "mirror", "dropService", "servicePool", "serviceClose",
           "closeLock", "closePool", "closeLegacy", "configure", "resetPool", "swap"}

EmptyFrame == [op |-> "none", began |-> 0, attempt |-> 1, cfg |-> 0, pool |-> 0, conn |-> None]

TypeOK ==
    /\ mu \in Threads \cup {None}
    /\ config \in Configs /\ current \in Configs /\ pooling \in [Configs -> BOOLEAN]
    /\ legacy \in Conns \cup {None}
    /\ pooled \in [Configs -> Conns \cup {None}]
    /\ createMu \in [Configs -> Threads \cup {None}]
    /\ conn \in [Conns -> {"open", "broken", "closed"}]
    /\ madeWith \in [Conns -> Configs]
    /\ pc \in [Threads -> Labels]
    /\ frame \in [Threads -> [op : {"none"} \cup Ops, began : Configs, attempt : 1..2,
                              cfg : Configs, pool : Configs, conn : Conns \cup {None}]]
    /\ clean \in Configs

Init ==
    /\ mu = None /\ config = 0 /\ current = 0
    /\ pooling \in Poolings
    /\ legacy = None
    /\ pooled = [e \in Configs |-> None]
    /\ createMu = [e \in Configs |-> None]
    /\ conn = [x \in Conns |-> "closed"]
    /\ madeWith = [x \in Conns |-> 0]
    /\ pc = [t \in Threads |-> "idle"]
    /\ frame = [t \in Threads |-> EmptyFrame]
    /\ clean = 0

\* Connections something refers to.  The others are closed or leaked: nobody can
\* tell, and their identities are used again.
Referenced(x) ==
    \/ x = legacy
    \/ \E e \in Configs : x = pooled[e]
    \/ \E t \in Threads : x = frame[t].conn

FreeConns == {x \in Conns : ~Referenced(x)}

Goto(t, l) == pc' = [pc EXCEPT ![t] = l]
Unlocked == mu = None

Return(t) ==
    /\ Goto(t, "idle")
    /\ frame' = [frame EXCEPT ![t] = EmptyFrame]

\* conn.Close(); what a closed connection was made with no longer matters.
Close(S) ==
    /\ conn' = [x \in Conns |-> IF x \in S THEN "closed" ELSE conn[x]]
    /\ madeWith' = [x \in Conns |-> IF x \in S THEN 0 ELSE madeWith[x]]

Start(t, op, l) ==
    /\ pc[t] = "idle" /\ op \in Ops
    /\ Goto(t, l)
    /\ frame' = [frame EXCEPT ![t].op = op, ![t].began = IF op = "get" THEN config ELSE 0]
    /\ UNCHANGED <<mu, settings, legacy, pooled, createMu, conn, madeWith, clean>>

(***************************************************************************)
(* GetConnection, CreateConnection                                         *)
(***************************************************************************)
ReadLegacy(t) ==
    /\ pc[t] = "legacy" /\ Unlocked
    /\ frame' = [frame EXCEPT ![t].conn = legacy]
    /\ Goto(t, IF legacy = None THEN "config" ELSE "look")
    /\ UNCHANGED <<mu, settings, legacy, pooled, createMu, conn, madeWith, clean>>

\* A healthy connection is returned, without c.mu.
Look(t) ==
    /\ pc[t] = "look"
    /\ IF conn[frame[t].conn] = "open"
          THEN Return(t)
          ELSE Goto(t, "drop") /\ UNCHANGED frame
    /\ UNCHANGED <<mu, settings, legacy, pooled, createMu, conn, madeWith, clean>>

\* Whatever the map has by now is deleted, and not closed.
Drop(t) ==
    /\ pc[t] = "drop" /\ Unlocked
    /\ legacy' = None
    /\ frame' = [frame EXCEPT ![t].conn = None]
    /\ Goto(t, "config")
    /\ UNCHANGED <<mu, settings, pooled, createMu, conn, madeWith, clean>>

\* The settings of the subscribed service are read; if it is not subscribed the
\* global settings are, by createConnection.
ReadSubscribed(t) ==
    /\ pc[t] = "config" /\ frame[t].attempt = 1 /\ Unlocked
    /\ \/ frame' = [frame EXCEPT ![t].cfg = config] /\ Goto(t, "pool")
       \/ frame' = [frame EXCEPT ![t].attempt = 2] /\ UNCHANGED pc
    /\ UNCHANGED <<mu, settings, legacy, pooled, createMu, conn, madeWith, clean>>

ReadGlobal(t) ==
    /\ pc[t] = "config" /\ frame[t].attempt = 2 /\ Unlocked
    /\ frame' = [frame EXCEPT ![t].cfg = config]
    /\ Goto(t, "pool")
    /\ UNCHANGED <<mu, settings, legacy, pooled, createMu, conn, madeWith, clean>>

\* c.connectionPool is read without c.mu.
ReadPool(t) ==
    /\ pc[t] = "pool"
    /\ frame' = [frame EXCEPT ![t].pool = current]
    /\ Goto(t, IF pooling[current] THEN "reuse" ELSE "build")
    /\ UNCHANGED <<mu, settings, legacy, pooled, createMu, conn, madeWith, clean>>

\* A healthy pooled connection is taken, an unhealthy one is closed.
TakePooled(t, miss) ==
    LET p == frame[t].pool
        x == pooled[p]
    IN  IF x # None /\ conn[x] = "open"
           THEN /\ frame' = [frame EXCEPT ![t].conn = x]
                /\ Goto(t, "mirror")
                /\ createMu' = [e \in Configs |-> IF createMu[e] = t THEN None ELSE createMu[e]]
                /\ UNCHANGED <<pooled, conn, madeWith>>
           ELSE /\ pooled' = [pooled EXCEPT ![p] = None]
                /\ Close({x})
                /\ Goto(t, miss)
                /\ UNCHANGED <<frame, createMu>>

Reuse(t) ==
    /\ pc[t] = "reuse"
    /\ TakePooled(t, "lock")
    /\ UNCHANGED <<mu, settings, legacy, clean>>

LockCreate(t) ==
    /\ pc[t] = "lock" /\ createMu[frame[t].pool] = None
    /\ createMu' = [createMu EXCEPT ![frame[t].pool] = t]
    /\ Goto(t, "recheck")
    /\ UNCHANGED <<mu, settings, legacy, pooled, conn, madeWith, frame, clean>>

Recheck(t) ==
    /\ pc[t] = "recheck"
    /\ TakePooled(t, "build")
    /\ UNCHANGED <<mu, settings, legacy, clean>>

\* Variant: GetConnection falls back to createConnection again and again.
FailRetrying(t) ==
    /\ createMu' = [e \in Configs |-> IF createMu[e] = t THEN None ELSE createMu[e]]
    /\ Goto(t, "config")
    /\ frame' = [frame EXCEPT ![t].attempt = @ + 1]

\* The first failure falls back to createConnection, the second is returned.
Fail(t) ==
    /\ createMu' = [e \in Configs |-> IF createMu[e] = t THEN None ELSE createMu[e]]
    /\ IF frame[t].attempt = 1
          THEN Goto(t, "config") /\ frame' = [frame EXCEPT ![t].attempt = 2]
          ELSE Return(t)

\* Variant: every connection asks for the TLS manager.
BuildLocking(t) ==
    /\ pc[t] = "build" /\ Unlocked
    /\ \/ /\ \E x \in FreeConns :
                /\ conn' = [conn EXCEPT ![x] = "open"]
                /\ madeWith' = [madeWith EXCEPT ![x] = frame[t].cfg]
                /\ frame' = [frame EXCEPT ![t].conn = x]
          /\ Goto(t, IF pooling[frame[t].pool] THEN "append" ELSE "mirror")
          /\ UNCHANGED createMu
       \/ Fail(t) /\ UNCHANGED <<conn, madeWith>>
    /\ UNCHANGED <<mu, settings, legacy, pooled, clean>>

\* createFunc: with TLS it takes c.mu for the TLS manager, whatever is held.
Build(t) ==
    /\ pc[t] = "build" /\ (Tls => Unlocked)
    /\ \/ /\ \E x \in FreeConns :
                /\ conn' = [conn EXCEPT ![x] = "open"]
                /\ madeWith' = [madeWith EXCEPT ![x] = frame[t].cfg]
                /\ frame' = [frame EXCEPT ![t].conn = x]
          /\ Goto(t, IF pooling[frame[t].pool] THEN "append" ELSE "mirror")
          /\ UNCHANGED createMu
       \/ Fail(t) /\ UNCHANGED <<conn, madeWith>>
    /\ UNCHANGED <<mu, settings, legacy, pooled, clean>>

Append(t) ==
    /\ pc[t] = "append"
    /\ pooled' = [pooled EXCEPT ![frame[t].pool] = frame[t].conn]
    /\ createMu' = [createMu EXCEPT ![frame[t].pool] = None]
    /\ Goto(t, "mirror")
    /\ UNCHANGED <<mu, settings, legacy, conn, madeWith, frame, clean>>

\* The connection replaces what the legacy map has, whatever became of it.
Mirror(t) ==
    /\ pc[t] = "mirror" /\ Unlocked
    /\ legacy' = frame[t].conn
    /\ Return(t)
    /\ UNCHANGED <<mu, settings, pooled, createMu, conn, madeWith, clean>>

(***************************************************************************)
(* CloseServiceConnection                                                  *)
(***************************************************************************)
DropService(t) ==
    /\ pc[t] = "dropService" /\ Unlocked
    /\ legacy' = None
    /\ Goto(t, "servicePool")
    /\ UNCHANGED <<mu, settings, pooled, createMu, conn, madeWith, frame, clean>>

\* c.connectionPool is read without c.mu; a disabled pool does nothing.
ServicePool(t) ==
    /\ pc[t] = "servicePool"
    /\ IF pooling[current]
          THEN /\ frame' = [frame EXCEPT ![t].pool = current]
               /\ Goto(t, "serviceClose")
          ELSE Return(t)
    /\ UNCHANGED <<mu, settings, legacy, pooled, createMu, conn, madeWith, clean>>

ClosePooled(p) ==
    /\ createMu[p] = None
    /\ Close({pooled[p]})
    /\ pooled' = [pooled EXCEPT ![p] = None]

ServiceClose(t) ==
    /\ pc[t] = "serviceClose"
    /\ ClosePooled(frame[t].pool)
    /\ Return(t)
    /\ UNCHANGED <<mu, settings, legacy, createMu, clean>>

(***************************************************************************)
(* CloseContext and Configure, which hold c.mu to their end                *)
(***************************************************************************)
CloseLock(t) ==
    /\ pc[t] = "closeLock" /\ Unlocked
    /\ mu' = t
    /\ Goto(t, "closePool")
    /\ UNCHANGED <<settings, legacy, pooled, createMu, conn, madeWith, frame, clean>>

ClosePool(t) ==
    /\ pc[t] = "closePool"
    /\ ClosePooled(current)
    /\ Goto(t, "closeLegacy")
    /\ UNCHANGED <<mu, settings, legacy, createMu, frame, clean>>

CloseLegacy(t) ==
    /\ pc[t] = "closeLegacy"
    /\ Close({legacy})
    /\ legacy' = None
    /\ mu' = None
    /\ Return(t)
    /\ UNCHANGED <<settings, pooled, createMu, clean>>

\* A GetConnection that has looked the legacy map up and has not returned.
OnItsWay(t) == frame[t].op = "get" /\ pc[t] # "legacy"

\* Variant: c.mu is held only while the settings are replaced.
ConfigureUnlocking(t) ==
    /\ pc[t] = "configure" /\ Unlocked
    /\ \/ /\ Return(t)
          /\ UNCHANGED <<config, conn, madeWith, clean>>
       \/ /\ config < MaxConfigs
          /\ config' = config + 1
          /\ clean' = IF \E u \in Threads : OnItsWay(u) THEN clean ELSE config'
          /\ Close({legacy})
          /\ Goto(t, "resetPool")
          /\ UNCHANGED frame
    /\ UNCHANGED <<mu, current, pooling, legacy, pooled, createMu>>

\* New settings, and the connections of the legacy map are closed.  Settings that
\* do not pass validation are taken back before c.mu is released.
Configure(t) ==
    /\ pc[t] = "configure" /\ Unlocked
    /\ \/ /\ Return(t)
          /\ UNCHANGED <<mu, config, conn, madeWith, clean>>
       \/ /\ config < MaxConfigs
          /\ mu' = t
          /\ config' = config + 1
          /\ clean' = IF \E u \in Threads : OnItsWay(u) THEN clean ELSE config'
          /\ Close({legacy})
          /\ Goto(t, "resetPool")
          /\ UNCHANGED frame
    /\ UNCHANGED <<current, pooling, legacy, pooled, createMu>>

\* rebuildConnectionPoolLocked closes the old pool ...
ResetPool(t) ==
    /\ pc[t] = "resetPool"
    /\ ClosePooled(current)
    /\ Goto(t, "swap")
    /\ UNCHANGED <<mu, settings, legacy, createMu, frame, clean>>

\* ... and makes a new one, and the legacy map is emptied.
Swap(t) ==
    /\ pc[t] = "swap"
    /\ current' = config
    /\ legacy' = None
    /\ mu' = None
    /\ Return(t)
    /\ UNCHANGED <<config, pooling, pooled, createMu, conn, madeWith, clean>>

\* The transport of a connection fails or recovers.
ChangeHealth(x) ==
    /\ Breakable /\ conn[x] # "closed" /\ Referenced(x)
    /\ conn' = [conn EXCEPT ![x] = IF @ = "open" THEN "broken" ELSE "open"]
    /\ UNCHANGED <<mu, settings, legacy, pooled, createMu, madeWith, pc, frame, clean>>

-----------------------------------------------------------------------------
Begin(t) ==
    \/ Start(t, "get", "legacy") \/ Start(t, "closeService", "dropService")
    \/ Start(t, "close", "closeLock") \/ Start(t, "configure", "configure")

Step(t) ==
    \/ ReadLegacy(t) \/ Look(t) \/ Drop(t) \/ ReadSubscribed(t) \/ ReadGlobal(t)
    \/ ReadPool(t) \/ Reuse(t) \/ LockCreate(t) \/ Recheck(t) \/ Build(t) \/ Append(t) \/ Mirror(t)
    \/ DropService(t) \/ ServicePool(t) \/ ServiceClose(t)
    \/ CloseLock(t) \/ ClosePool(t) \/ CloseLegacy(t)
    \/ Configure(t) \/ ResetPool(t) \/ Swap(t)

Next == (\E t \in Threads : Begin(t) \/ Step(t)) \/ \E x \in Conns : ChangeHealth(x)

Spec == Init /\ [][Next]_vars

\* Goroutines run, and a Go mutex or RWMutex lets everyone in that waits for it.
Fairness == \A t \in Threads : SF_vars(Step(t))

(***************************************************************************)
(* Properties                                                              *)
(***************************************************************************)

\* Without TLS every call returns: c.mu is never waited for with a createMu held,
\* so Close and Configure, which wait for createMu with c.mu held, get it.
Returns == \A t \in Threads : pc[t] # "idle" ~> pc[t] = "idle"

\* What GetConnection is about to hand out.
HandsOut(t) ==
    \/ pc[t] = "mirror" /\ conn[frame[t].conn] # "closed"
    \/ pc[t] = "look" /\ conn[frame[t].conn] = "open"

\* client.go:409, "pooled connections were reset and new settings will apply on
\* reconnect": a GetConnection hands out no connection made with older settings
\* than those in force when it was called.
SettingsApply ==
    \A t \in Threads : HandsOut(t) => madeWith[frame[t].conn] >= frame[t].began

\* What Configures that overlap a GetConnection leave behind, a connection with older
\* settings in the legacy map, in the pool in use or in one already closed, is not
\* handed out after the next Configure that overlaps none: it closes what both places
\* have (client.go:398-407, runtime_config.go:63-89), and nobody comes back to older pools.
SettingsHeal ==
    \A t \in Threads : HandsOut(t) => madeWith[frame[t].conn] >= clean

\* client.go:338, "closes all connections and cleans up resources while honoring a
\* caller-provided stop budget": Close comes to an end.
CloseReturns == \A t \in Threads : frame[t].op = "close" ~> pc[t] = "idle"
=============================================================================
