------------------------------ MODULE Readiness ------------------------------
(***************************************************************************)
(* client.go, service.go, runtime_contract.go: start-up and stop of the    *)
(* client plugin and of the server plugin, and the poller that keeps the   *)
(* server's health status in step with the readiness the client publishes. *)
(*                                                                         *)
(* The two plugins share the runtime's resources: the client writes        *)
(* required_upstreams_ready, the server's start-up and its poller read it  *)
(* and then set the status, which are two steps.  Both plugins write a     *)
(* readiness of their own, the contract.  The plugin framework starts and  *)
(* stops each plugin in turn; a server is not started again while the      *)
(* poller of its previous run is still finishing.                          *)
(***************************************************************************)
EXTENDS RequiredServices

VARIABLES
    client,          \* where the start-up of the client plugin is
    clientContract,  \* the readiness the client publishes
    required,        \* required_upstreams_ready: "missing", "yes" or "no"
    server,          \* where the start-up or the stop of the server is
    serverContract,  \* the readiness the server publishes
    poller,          \* where the poller goroutine is
    pollStopped,     \* its context is done
    seen,            \* the readiness each reader has read
    health           \* the health service: "none", "SERVING", "NOT_SERVING" or "shutdown"

clientVars == <<client, clientContract, required>>
serverVars == <<server, serverContract, poller, pollStopped, seen, health>>
vars == <<checkVars, clientVars, serverVars>>

Readers == {"startup", "poller"}

TypeOK ==
    /\ CheckTypeOK
    /\ client \in {"stopped", "check", "register", "health", "started", "failed"}
    /\ clientContract \in BOOLEAN /\ required \in {"missing", "yes", "no"}
    /\ server \in {"stopped", "read", "set", "poll", "register", "cleanup", "running",
                   "draining", "shutdown", "failed"}
    /\ serverContract \in BOOLEAN
    /\ poller \in {"off", "wait", "read", "set"} /\ pollStopped \in BOOLEAN
    /\ seen \in [Readers -> {"missing", "yes", "no"}]
    /\ health \in {"none", "SERVING", "NOT_SERVING", "shutdown"}

Init ==
    /\ CheckInit
    /\ client = "stopped" /\ clientContract = FALSE /\ required = "missing"
    /\ server = "stopped" /\ serverContract = FALSE
    /\ poller = "off" /\ pollStopped = FALSE
    /\ seen = [r \in Readers |-> "missing"] /\ health = "none"

(***************************************************************************)
(* The client plugin: startupWithContext, CloseContext                     *)
(***************************************************************************)

\* publishRequiredReadiness and publishRuntimeContract: the resources that carry
\* one value under several names are written as one.
PublishRequired(r)   == required' = r
PublishClient(ready) == clientContract' = ready
PublishServer(ready) == serverContract' = ready

\* InitializeResources publishes that nothing has been checked, before the first start
\* and again if the framework initialises the plugin for another one.
InitializeClient ==
    /\ client \in {"stopped", "failed"}
    /\ PublishRequired("no")
    /\ UNCHANGED <<checkVars, client, clientContract, serverVars>>

\* Variant: the readiness of the last run stays until the check has ended.
StartClientKeeping ==
    /\ client \in {"stopped", "failed"} /\ required # "missing"
    /\ client' = "check" /\ PublishClient(FALSE)
    /\ Begin
    /\ UNCHANGED <<required, serverVars>>

\* Both readiness resources are withdrawn, then the check begins.
StartClient ==
    /\ client \in {"stopped", "failed"} /\ required # "missing"
    /\ client' = "check" /\ PublishClient(FALSE) /\ PublishRequired("no")
    /\ Begin
    /\ UNCHANGED serverVars

\* Variant: what the check returned is published as it is.
CheckedPublishing ==
    /\ client = "check" /\ check = "done"
    /\ PublishRequired(IF outcome = "ok" THEN "yes" ELSE outcome)
    /\ client' = IF outcome = "ok" THEN "register" ELSE "failed"
    /\ UNCHANGED <<checkVars, clientContract, serverVars>>

Checked ==
    /\ client = "check" /\ check = "done"
    /\ IF outcome = "ok" THEN client' = "register" /\ PublishRequired("yes")
                         ELSE client' = "failed" /\ UNCHANGED required
    /\ UNCHANGED <<checkVars, clientContract, serverVars>>

\* The shared resource is registered, or start-up fails: the readiness of the
\* required services stays what it is.
RegisterClient ==
    /\ client = "register"
    /\ \/ client' = "health" /\ UNCHANGED clientContract
       \/ client' = "failed" /\ PublishClient(FALSE)
    /\ UNCHANGED <<checkVars, required, serverVars>>

\* CheckHealth, and the contract.
ClientHealth ==
    /\ client = "health"
    /\ \/ client' = "started" /\ PublishClient(TRUE)
       \/ client' = "failed" /\ PublishClient(FALSE)
    /\ UNCHANGED <<checkVars, required, serverVars>>

\* CloseContext withdraws the contract; the required readiness it leaves alone.
StopClient ==
    /\ client \in {"started", "failed"}
    /\ client' = "stopped" /\ PublishClient(FALSE)
    /\ UNCHANGED <<checkVars, required, serverVars>>

(***************************************************************************)
(* updateHealthServingStatus, by the start-up and by the poller            *)
(***************************************************************************)
Read(r) == seen' = [seen EXCEPT ![r] = required]

\* Variant: the status is lowered but not raised again.
SetStatusLowering(r) ==
    /\ health' = IF health # "shutdown" /\ seen[r] = "no" THEN "NOT_SERVING" ELSE health
    /\ seen' = [seen EXCEPT ![r] = "missing"]

\* Without the resource the status is SERVING; a health service that was shut
\* down ignores it.
SetStatus(r) ==
    /\ health' = IF health = "shutdown" THEN health
                 ELSE IF seen[r] = "no" THEN "NOT_SERVING" ELSE "SERVING"
    /\ seen' = [seen EXCEPT ![r] = "missing"]

(***************************************************************************)
(* The server plugin: startupWithContext                                   *)
(***************************************************************************)

\* A new health service serves from the beginning.
StartServer ==
    /\ server \in {"stopped", "failed"} /\ poller = "off"
    /\ server' = "read" /\ PublishServer(FALSE) /\ health' = "SERVING"
    /\ UNCHANGED <<checkVars, clientVars, poller, pollStopped, seen>>

ReadAtStart ==
    /\ server = "read" /\ server' = "set"
    /\ Read("startup")
    /\ UNCHANGED <<checkVars, clientVars, serverContract, poller, pollStopped, health>>

SetAtStart ==
    /\ server = "set" /\ server' = "poll"
    /\ SetStatus("startup")
    /\ UNCHANGED <<checkVars, clientVars, serverContract, poller, pollStopped>>

\* The poller is started, unless the context of the start-up is done.
StartPoller ==
    /\ server = "poll"
    /\ \/ server' = "register" /\ poller' = "wait" /\ pollStopped' = FALSE
       \/ server' = "failed" /\ UNCHANGED <<poller, pollStopped>>
    /\ UNCHANGED <<checkVars, clientVars, serverContract, seen, health>>

\* Variant: a registration that fails returns without the cleanup.
RegisterServerUnclean ==
    /\ server = "register"
    /\ \/ server' = "running" /\ PublishServer(TRUE)
       \/ server' = "failed" /\ PublishServer(FALSE)
    /\ UNCHANGED <<checkVars, clientVars, poller, pollStopped, seen, health>>

\* The shared resource is registered and the contract published, or the deferred
\* cleanup cancels the poller ...
RegisterServer ==
    /\ server = "register"
    /\ \/ server' = "running" /\ PublishServer(TRUE) /\ UNCHANGED pollStopped
       \/ server' = "cleanup" /\ PublishServer(FALSE) /\ pollStopped' = TRUE
    /\ UNCHANGED <<checkVars, clientVars, poller, seen, health>>

\* ... and waits for it.
Cleanup ==
    /\ server = "cleanup" /\ poller = "off"
    /\ server' = "failed"
    /\ UNCHANGED <<checkVars, clientVars, serverContract, poller, pollStopped, seen, health>>

(***************************************************************************)
(* healthStatusPoller, CleanupTasksContext                                 *)
(***************************************************************************)

\* A tick may be taken although the context is done; the update is then skipped.
Tick ==
    /\ poller = "wait"
    /\ poller' = IF pollStopped THEN "wait" ELSE "read"
    /\ UNCHANGED <<checkVars, clientVars, server, serverContract, pollStopped, seen, health>>

PollRead ==
    /\ poller = "read" /\ poller' = "set"
    /\ Read("poller")
    /\ UNCHANGED <<checkVars, clientVars, server, serverContract, pollStopped, health>>

PollSet ==
    /\ poller = "set" /\ poller' = "wait"
    /\ SetStatus("poller")
    /\ UNCHANGED <<checkVars, clientVars, server, serverContract, pollStopped>>

PollerExits ==
    /\ poller = "wait" /\ pollStopped
    /\ poller' = "off"
    /\ UNCHANGED <<checkVars, clientVars, server, serverContract, pollStopped, seen, health>>

\* CleanupTasksContext withdraws the contract and cancels the poller.  It does so
\* again when it is called after a failed start-up.
StopServer ==
    /\ server \in {"running", "failed"} /\ health # "none"
    /\ server' = "draining" /\ PublishServer(FALSE) /\ pollStopped' = TRUE
    /\ UNCHANGED <<checkVars, clientVars, poller, seen, health>>

\* The poller has ended, or the deadline is over; either way the stop goes on.
Drained ==
    /\ server = "draining"
    /\ server' = "shutdown"
    /\ UNCHANGED <<checkVars, clientVars, serverContract, poller, pollStopped, seen, health>>

\* The health service is shut down, which sets NOT_SERVING for good, and the
\* gRPC server is stopped.
ShutDown ==
    /\ server = "shutdown"
    /\ server' = "stopped" /\ health' = "shutdown"
    /\ UNCHANGED <<checkVars, clientVars, serverContract, poller, pollStopped, seen>>

-----------------------------------------------------------------------------
ClientStep == Checked \/ RegisterClient \/ ClientHealth
ServerStep == ReadAtStart \/ SetAtStart \/ StartPoller \/ RegisterServer \/ Cleanup
              \/ Drained \/ ShutDown
PollerStep == Tick \/ PollRead \/ PollSet

Next ==
    \/ CheckNext /\ UNCHANGED <<clientVars, serverVars>>
    \/ InitializeClient \/ StartClient \/ ClientStep \/ StopClient
    \/ StartServer \/ ServerStep \/ StopServer
    \/ PollerStep \/ PollerExits

Spec == Init /\ [][Next]_vars

\* The goroutines of the check run and connections become ready or time out; both
\* start-ups proceed; the ticker ticks; select takes the closed channel sooner or
\* later although ticks keep coming.
Fairness ==
    /\ WF_vars(StopDispatch /\ UNCHANGED <<clientVars, serverVars>>)
    /\ WF_vars(Join /\ UNCHANGED <<clientVars, serverVars>>)
    /\ \A w \in Workers : WF_vars(WorkerStep(w) /\ UNCHANGED <<clientVars, serverVars>>)
    /\ WF_vars(ClientStep) /\ WF_vars(ServerStep) /\ WF_vars(PollerStep)
    /\ SF_vars(PollerExits)

(***************************************************************************)
(* Properties                                                              *)
(***************************************************************************)

\* health_shared.go:4, "published by the gRPC client plugin after its
\* required-check passes": while the readiness is up, every required service has
\* been reached since the client was last started, however often it was restarted.
ReadyMeansVerified == required = "yes" => verified = Services

\* The promise the readers of the readiness rely on: it goes up only on the verdict
\* of a check that reached every service while somebody waited for it, is taken back
\* before the next check begins (client.go:234-243), and the client's contract goes
\* up only while it is up.
Promise == INSTANCE ReadinessRegister WITH
    checking <- check \in {"dispatch", "wait"}, gaveUp <- ctxDone, reached <- verified,
    verdict <- outcome, register <- required, ready <- clientContract
KeepsPromise == Promise!Spec

\* A plugin that publishes readiness is started and not being stopped, and the
\* server then has a poller; the client's readiness implies the required one.  A start-up
\* of the server that failed leaves no poller that goes on polling (service.go:339).  A
\* server that is stopped has its health service shut down, and it stays so although a
\* poll the stop did not wait for may still set its status (service.go:455).
ContractsHold ==
    /\ clientContract => client = "started" /\ required = "yes"
    /\ serverContract => server = "running" /\ poller # "off" /\ ~pollStopped
    /\ server = "failed" => poller = "off"
    /\ server = "stopped" => health \in {"none", "shutdown"}

\* Every start-up of the client ends: no worker is left at a channel.
StartEnds == client = "check" ~> client # "check"

\* A running server reports what the client last published, sooner or later, or
\* the client publishes something else, or the server is stopped.
Status(r) == IF r = "no" THEN "NOT_SERVING" ELSE "SERVING"
HealthFollows ==
    \A r \in {"yes", "no"} :
        server = "running" /\ required = r
            ~> health = Status(r) \/ required # r \/ server # "running"
=============================================================================
