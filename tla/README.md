# A TLA+ verification project for lynx-grpc

lynx-grpc is a Go plugin of the Lynx framework. It provides a gRPC server and a gRPC
client with a connection pool, circuit breakers, retries, load balancing and TLS, and
ties the two together: the server's health status follows the readiness of the services
the client requires.

The modules here model the parts of it that several goroutines use at the same time.
TLC checks them on small instances; TLAPS proves the results that matter most about
most of them for every instance. Line numbers are those of `src/` at the modelled commit.

1. [Inventory](#inventory)
2. [Plan](#plan)
3. [The modules](#the-modules)
4. [The runs](#the-runs)
5. [Fairness](#fairness)
6. [The proofs](#the-proofs)
7. [Where the code and its text disagree](#where-the-code-and-its-text-disagree)
8. [What is not modelled](#what-is-not-modelled)

## Inventory

| Component | Source | State it keeps | Operations |
|---|---|---|---|
| Circuit breaker | `circuit_breaker.go` | state, failure and success counts, the slots of the probe window, the times of the last failure and of the last change, all under `cb.mu` | `Execute` (`allowRequest`, the call, `recordResult`), `Reset`, `UpdateConfig`; the manager's map of breakers by service |
| Connection pool | `connection_pool.go` | `p.services` under `p.mu`; per service a list of connections under `sp.mu` and a `createMu` held across a dial; the sweeper's stop channel | `GetConnection`, `CloseConnection`, `CloseAll`, `cleanupRoutine` |
| Client plugin | `client.go`, `runtime_config.go` | settings, the legacy map of connections, the pool, discovery and TLS manager, under `c.mu` (not always) | `GetConnection`, `CreateConnection`, `CloseServiceConnection`, `CloseContext`, `Configure`; start-up with `CheckRequiredServicesContext` |
| Server request path | `monitoring.go`, `server_options.go`, `runtime_config.go` | `g.serverOpts` with limiter, in-flight semaphore and breaker, replaced by `Configure` without a lock | the unary and stream interceptors |
| Server lifecycle | `service.go`, `health_shared.go`, `runtime_contract.go` | the health service, the poller and its cancel function, the published readiness, the cached port check | `startupWithContext`, `healthStatusPoller`, `updateHealthServingStatus`, `CleanupTasksContext`, `Configure`, `CheckHealth` |
| Client interceptors, retry | `client_interceptors.go`, `client_retry.go` | none of their own; they share breakers by service name | the chain (deadline, retry, breaker, metrics) around each call |
| Load balancer | `load_balancer.go` | configurations and selectors by service, under `lb.mu` | `ConfigureService`, `SelectNode`, `RemoveService` |
| TLS manager | `tls_enhanced.go` | configurations and credentials by service, under `tm.mu` | `SetServiceConfig`, `GetCredentials`, `RefreshCredentials`, `RemoveService`, `Close` |
| Node filter | `filter/node_filter.go` | none | pure functions of node metadata |
| Configuration validator, metrics, integration, generated types | `config_validator.go`, `client_metrics.go`, `client_integration.go`, `conf/` | none that decides anything | |

How they interact:

- a `GetConnection` of the client plugin looks at the legacy map, reads the settings,
  goes through the pool, and the pool calls back into the plugin (`createFunc`) to
  build the connection, with `createMu` held; building with TLS takes `c.mu` again;
- `Close` and `Configure` of the plugin call the pool with `c.mu` held;
- building a connection updates the breaker its service shares with every other
  connection of that service;
- `Configure` of the server replaces the options that each request in flight reads
  again at every interceptor;
- the client publishes `required_upstreams_ready` as a resource of the runtime, and the
  server's poller reads it and sets the health status.

What is hard about it, and what each component must guarantee:

- **Circuit breaker.** A result is recorded in whatever state the breaker has by then.
  Late results must not corrupt the counts or give back other calls' slots; every
  opening must be waited out; neither a stuck probe window nor an open breaker may last
  for ever.
- **Connection pool.** Three kinds of locks, released between the steps of nearly every
  operation. Each connection must have one owner who closes it, the limits must hold,
  callers must share a dial, nobody may wait in a circle, idle connections must go.
- **Client plugin.** Two caches of connections and settings that are read at different
  times. New settings must reach later calls, and every call must return.
- **Server request path.** Options that change under running requests. Tokens of the
  in-flight limit must come back however a request ends; requests must end.
- **Start-up, health and stop.** Workers, a dispatcher, two channels and two contexts;
  a poller that reads and then writes. The check must neither succeed early nor hang;
  the published readiness must be true and the health status must follow it.
- **Retry, load balancer, TLS manager.** Retries within one deadline against one
  breaker; a selector that is replaced while it is created; credentials refreshed from
  a snapshot while they are set or removed.

`PROJECT.json` lists each hazard at its line with the properties that cover it.

## Plan

In order of importance. Done:

1. `CircuitBreaker`, with proofs: the only component with an algorithm of its own that
   everything else passes through.
2. `ConnectionPool`, with proofs: the finest interleavings of the code.
3. `ClientPlugin`, with proofs: composes the settings, the legacy map and a pool of which it keeps
   only what `ConnectionPool` promises for one name.
4. `ServerCalls`, with proofs, and `InflightLimit`, the abstract limit it implements.
5. `RequiredServices`, which `Readiness` extends with the lifecycles of both plugins;
   with proofs.
6. `RetryChain`, which puts the retry loop and the caller's context around the breaker
   and is shown to use it as `CircuitBreaker` says; `RetryDelay`, the delay between
   attempts with its wrap-around; with proofs.
7. `PortCheck`: the cached port check of `CheckHealth`; with proofs.
8. `ConnectionBuild`, which composes `LoadBalancer` (on `NodeFilter`) and `TLSManager`
   into what one new connection goes through; with proofs.

9. `PoolOwnership`, what a pool without sweeps promises of its connections, which
   `ConnectionPool` implements; proofs about `ConnectionPool` and `ClientPlugin`.
10. `ReadinessRegister`, what the readers of the readiness are promised, which
    `Readiness` implements.

Left:

11. *The pool with sweeps*: which of its promises survive the write-back of stale lists.

## The modules

### CircuitBreaker (`circuit_breaker.go`)

`cb.mu` makes `allowRequest`, `recordResult`, `Reset` and `UpdateConfig` one step each.
The call itself runs without the lock, so it is a state between two steps
(`pc[c] = "calling"`), and so is the moment between the unlocked look at
`config.Enabled` (99) and `allowRequest`.

| Code | Model |
|---|---|
| `state`, `failures`, `successes`, `concurrentRequests`, `config` | variables of these names (`cfg`) |
| `now - lastFailureTime`, `now - lastStateChange` | `sinceFailure`, `sinceChange`, in ticks |
| `Execute` | `Enter`, then `AllowRequest` or `FinishBypass`, then `RecordResult` |
| `allowRequest`, by state | `AllowClosed`; `AllowOpen`, `RejectOpen`; `ExpireHalfOpen`, `AllowHalfOpen`, `RejectHalfOpen` |
| `recordResult`, deferred, so also after a panic | `ReleasedSlots`, `RecordFailure`, `RecordSuccess` |
| `Reset`, `UpdateConfig` | actions of these names |

Time enters the code only as differences compared with `RecoveryTimeout`, so the model
keeps the differences, saturated at `AgeCap`; a difference above every timeout behaves
like any other. `failures` is saturated at `FailureCap` for the same reason. `probes`
and `slots` are history variables: the running calls admitted in the current window,
and those of them that `concurrentRequests` counted.

### ConnectionPool (`connection_pool.go`)

One step per critical section of `p.mu` or `sp.mu`. `createMu` is a lock of the model,
because it is held across the dial. `pc[t]` is the place in the operation, `frame[t]`
its parameters and locals; `frame[t].sp`, the pool object looked up earlier, is what
most of the hazards are about. Connections leave a list under the lock and are closed
after it: they are in `doomed[t]` in between.

| Code | Model |
|---|---|
| `getConnectionWithRetry` | `StartGet`, `Lookup`, (evict: the close operation), `Insert`, `Reread`, `Direct` |
| `serviceConnectionPool.GetConnection` | `Select`, `AcquireCreate`, `Recheck`, `Prepare`, `Dial`, `AppendFresh` |
| `CloseConnection`, `closeAllConnections` | `StartClose`, `Find`, `AcquireClose`, `Take`, `CloseDoomed`, `AfterClose`/`Remove` |
| `CloseAll` | `StopCleanup`, `Snapshot`, `NextPool`, `AcquireClose`, `Take`, `Release`, `DeleteAll` |
| `cleanupIdleConnections` | `Collect`, `Reap`, `WriteBack` |
| the exit of `cleanupRoutine` | `CleanerExits` |
| idleness, transport failures | `GoIdle`, `ChangeHealth` |

Pool objects and connections have identities, because the code compares pointers; an
identity nothing refers to is used again, which bounds them without bounding the run.
Which connection a strategy selects is left open, so what holds does so for all of
them.

Time stamps are modelled by their order, `usedBefore`, on what holds one: each name in the
map (its `lastUsed`) and each goroutine that has read the clock and not yet written
(`clocked`). `ReadClock` is `time.Now()`, a step of its own, because the code takes it
before `sp.mu.Lock` (194, 218): two readings may be equal, and a `Touch` that gets the lock
late writes an instant older than the one that is there. So several names may be
`LeastRecentlyUsed`, and which of them is evicted is open, as the order of the map is in
the code.

### PoolOwnership (`connection_pool.go`)

What `ConnectionPool` without sweeps promises of its connections, whatever the
interleaving. A connection has a set of holders: the pool object it is made for, the list it is
in, the goroutine that closes it. `Make`, `Offer`, `Withdraw` and `Close` pass it on;
`Enter` and `Leave` are a pool object's ways into the map and out of it. Locks, retries,
evictions and health have no counterpart. Connections in a pool object that has left the
map can be lost (`pool_orphan` shows how), others cannot. The mapping (`HoldersOf`) reads
the holders off the lists, `fresh` and `doomed`.

### ClientPlugin (`client.go`, `runtime_config.go`)

`GetConnection`, `CloseServiceConnection`, `CloseContext` and `Configure` for one
service. Each `Configure` is numbered; the number stands for the settings and the pool
it made. A pool is reduced to what `ConnectionPool` shows for one name: at most one
connection, made and closed under `createMu`. `c.mu` is a lock of the model only where
it is held over several steps (`Close`, `Configure`); the others wait until it is
free. A connection no cache refers to is closed or leaked; the model does not tell
these apart and reuses its identity. `clean` is a history variable: the number of the last
`Configure` that replaced the settings while no `GetConnection` was past its look at the
legacy map.

### ServerCalls (`monitoring.go`, `runtime_config.go`, `service.go`)

The chain of unary interceptors is built once, at start-up, by which of them are
configured (`AtLimit`, `AtInflight`, `AtBreaker`), but each interceptor reads
`g.serverOpts` again every time. Every read is a step. `Configure` points it to options
made from the defaults, which have no limiter, semaphore or breaker: a second read that
follows it yields nil, and then `Wait` or `Execute` panic (recovered: `unwind`), a send
on the semaphore waits for the context only, and the deferred receive (`Unwind` of a
holder) waits for ever. What the limiter, the breaker and the handler decide is open.

### RequiredServices and Readiness (`client.go`, `service.go`, `runtime_contract.go`)

`RequiredServices` is the worker pool of `CheckRequiredServicesContext`. The unbuffered
channel is a joint step of dispatcher and worker (`HandOut`), the buffered one a
bounded sequence; `select` is a choice between `HandOut` and `StopDispatch`, also
when both are possible. Of an error only its kind is kept: the service's own, or that
the context was done.

`Readiness` extends it by the start-up and stop of the client, which runs the check
(`Begin` in `StartClient`, its result in `Checked`), the start-up and stop of the
server, and the poller. `InitializeClient` is what `InitializeResources` publishes before
the first start (`client.go:174`); no list of required services is the empty set, whose
check succeeds even for a caller that has given up (972). `Read` and `SetStatus` are `updateHealthServingStatus`: two
steps, because nothing keeps the client from publishing in between. The readiness that
is published under several names is one variable per plugin. A server is not started
again while the poller of its last run is still finishing its update, which takes
microseconds: this is a restriction of the model.

### ReadinessRegister (`client.go`)

What the client plugin promises whoever reads its readiness. A check reaches services one by
one (`Reach`) and returns a verdict: a good one is about all of them and for a caller who
still waited, and only a caller who gave up is told of a cancellation (`Return`). The
register goes up on a good verdict only (`Raise`) and down when the next check begins
(`Start`) or the plugin is initialised (`Clear`); the contract of the plugin goes up only while the register is up (`Attest`).
Workers, channels, shared cancellation and the server have no counterpart. `Readiness`
implements it (`KeepsPromise`), with `verified` as what was reached and `ctxDone` as the
caller giving up.

### RetryChain and RetryDelay (`client_interceptors.go`, `client.go`)

`RetryChain` extends `CircuitBreaker` by one variable, the RPC of each caller: which
attempt it is in, and whether its context is done. `Attempt`, `Admit` and `Finish` are the
steps of `Execute` with what the loop makes of their outcome; `Timer` and `GiveUp` are the
two branches of its `select`. An attempt that runs when the context ends may still end in
any way, with the server's answer too: that the context is done shows when it is over
(`Expire`), and from then on every attempt ends with the caller's error. The history variable `asked` counts how often the breaker
was asked. The refinement `UsesBreaker` is `CircuitBreaker`'s own specification: the loop,
the context and the chain add nothing to what a breaker may be put through.

`RetryDelay` is the arithmetic of `calculateRetryDelay`: the product is a float, its
conversion to 64 bits is whatever the processor makes of it (any value of the range), and
the sum with the jitter wraps around at both ends of the range.

### InflightLimit (`server_options.go`, `monitoring.go`)

What `max_inflight_unary` promises: requests enter one at a time while there is room, and
leave. `ServerCalls` implements it: the requests inside are those past the limit, and the
limit is in force until `Configure` lifts it. Semaphore, tokens and deferred receives
have no counterpart in it.

### PortCheck (`service.go`)

`CheckHealth` takes `confMu` for reading (`Look`), dials (`DialEnds`) and stores the
verdict with the time at which it began (`Store`), still under the lock; `Configure` waits
for the readers, and new readers wait for it. A `Configure` that looks a name up with the
lock held (792) is one that waits longer. What a dial meets is `Meets`: one that has timed
out may report the port as down although a listener has come, if for a part of the dial
there was none. Times are ages, as in the breaker, so a
dial of two seconds shows in the age of what it stores. `sinceUp` and `sinceDown` are
histories: how long ago each address was last up, and last not.

### ConnectionBuild, LoadBalancer, NodeFilter, TLSManager

`LoadBalancer` has one step for each time `SelectNode` takes `lb.mu` and one for each call
it makes without it.

| Code | Model |
|---|---|
| `SelectNode` up to the selector (101-115) | `StartSelect`, `Fallback` |
| the registry and its instances (117-152) | `ReadDiscovery`, `GetService` |
| the filter of the configuration in force by then (154-166) | `Filter`, with `Keep` of `NodeFilter` |
| `selector.Apply`, `selector.Select` (168-184) | `Apply`, `Select`, two steps on an object that calls share |
| `ConfigureService`, `RemoveService`, `Close`, `SetDiscovery` | actions of these names |

Selectors have identities, as pool objects have: an identity nothing refers to is used
again. `asked` is a history: the filters in force for a service since the oldest running
call began.

`TLSManager` reduces a TLS configuration to the generation of the root certificate it was
made from, and credentials to the generation they were built from. `SetServiceConfig` and
`GetCredentials` are two steps of a build, `Snapshot` and `WriteBack` two of a refresh;
what validation and I/O object to is an open choice. `oldest` and `dropped` are histories
of a build: the oldest generation that it, or an operation that overlaps with it, may
store, and whether its service was dropped meanwhile.

`ConnectionBuild` instantiates the second and extends the first. A thread is in
`CreateConnection` (`StoreDiscovery`, `Configure`, then the pool), in
`checkRequiredService`, which goes to the build at once, or in a refresh; a build selects
its target (`ChooseTarget`, `Target`) and gets its credentials (`Secure`, `Secured`).

## The runs

| Run | Shows | Bounds |
|---|---|---|
| `breaker` | The breaker in its retry loop. Late results, panics, deadlines, `Reset` and reconfiguration, including switching it off, at any time: the invariants, the bound on attempts, the refinement `UsesBreaker`, and liveness although the calls of two callers may hang for ever. | 3 callers, one of them without retries, one of them prompt; 2 configurations, on and off; ages and failures saturated at 2 |
| `pool_safety` | The pool implements `PoolOwnership`; entries removed only when empty, limits, shared dials, no circle of waits. | 2 services for 1 place, 2 goroutines, 3 pool objects, 2 connections, one of which breaks and recovers |
| `pool_live` | Calls and `CloseAll`'s wait for the sweeper end; idle connections are reaped. | 1 service, 1 goroutine and the sweeper |
| `pool_orphan` | *Violation:* an open connection nothing refers to. | 1 service, 2 goroutines |
| `client` | Without TLS every call returns; what a `Configure` that overlaps a `GetConnection` leaves behind is gone after the next that overlaps none. | 2 goroutines, all operations, 2 connections that break and recover, 2 `Configure`s, pooling on throughout, or off, on and off again |
| `client_configure` | *Violation:* a `GetConnection` called after a `Configure` is handed a connection with the old settings. | 2 goroutines, 1 `Configure`, pooling on, off or changing |
| `client_close` | *Violation:* with TLS, `Close` never returns. | 2 goroutines |
| `server` | No token is lost, the chain implements `InflightLimit`, requests return unless `Configure` strands them with a token. | 3 requests, 2 places |
| `server_configure` | *Violation:* such a request never returns. | 2 requests, 1 place |
| `readiness` | The check is right and ends, the two plugins implement `ReadinessRegister`, the health status follows the readiness, and stays shut down after a stop although a poll is late. | 3 services, 2 workers |
| `port_check` | A cached verdict was true within the age it claims, a lasting change is noticed, checks and `Configure` return. | 2 checks, 2 addresses, one of which changes; windows of 2 and 1 ticks, a dial of 4, ages saturated at 5 |
| `build` | The registry is known, a selected node passes a filter in force, nobody finds a shared selector empty, credentials are there and not older than what overlapping operations had read. | 2 threads, 1 service, 3 nodes (one without an endpoint, one with an empty address), 2 configurations, 3 selectors, 1 rotation; threads symmetric |

Why the bounds are enough to mean something:

- Every hazard the passing runs are about needs two actors, or three where a third has
  to take the place another gave up: three callers fill a window of two slots and leave
  one to be rejected; three requests compete for two places; two workers for three
  services make the dispatcher wait and leave a service unchecked when it stops. Two
  services in a pool of one make every get an eviction.
- Counters are bounded by the code's own limits (`MaxRetries`, `MaxConns`,
  `MaxInflight`, the buffer of errors), by saturation above every threshold
  (`AgeCap`, `FailureCap`), or by a bound in a guard (`MaxConfigs`, `MaxRotations`). No
  run is bounded in length.
- `client` has two `Configure`s because the first may race with a get, and only the second
  can show that its traces are gone. Pooling on throughout puts an old connection into the
  new pool; off, on and off again puts it into the map alone, into a pool that is made
  anew, and leaves it behind in one that is switched off.
- The dial of `port_check` is longer than both windows, so a check may store a verdict
  that is out of date at once, after a younger one. Of its two addresses only one
  changes: the other is there for `Configure` to switch to and back.
- In `build` two threads on one service share a selector; one configuration has a filter
  that keeps one of the usable nodes, the other a strict one that keeps none, so that
  selecting from the wrong list shows. One rotation is enough for credentials to be
  stale.
- Identities (`Pools`, `Conns`, `Selectors`) are reused; there are enough for every
  goroutine to hold one beside those in use (`SelectorsAssumption` says so).
- `pool_safety` runs without sweeps: with them a pool may close connections that are in
  use (see below), which the properties exclude by their premise.
- Symmetry is used only in runs without liveness, over sets whose members no action
  names.
- For each property of a passing run `PROJECT.json` names a variant of one definition,
  a plausible bug in that code, that breaks it.

Deadlock is checked in every run but `client_close` and `server_configure`, where
goroutines that wait for ever are what the run is about.

## Fairness

Safety properties assume none. The liveness properties assume:

- *goroutines run*: weak fairness of each goroutine's steps;
- *Go's mutexes are fair*: after a millisecond of waiting a `sync.Mutex` hands itself to
  the first waiter, and a waiting writer stops new readers of an `RWMutex`; hence
  strong fairness of acquiring a lock (`Acquire` in `ConnectionPool`, every step of
  `ClientPlugin`);
- *select is random*: a closed channel that is ready again and again is taken sooner or
  later although ticks are ready as well; strong fairness of `CleanerExits`
  and `PollerExits`;
- *dials and waits end*: they have timeouts (`client.go` 547-690). A handler returns; a
  request has a deadline, the server's timeout, which is not zero unless it is
  configured so (`Expire`);
- *the clock and the tickers tick*;
- for the breaker, one caller (`c1`) keeps calling and its attempts end, because one that
  goes through the breaker has a deadline (`circuit_breaker.go:113`). Nothing is assumed of
  the others: `WindowEnds` is about windows whose probes hang;
- for the port check, health is checked again and again, a dial ends by its timeout, and
  a waiting `Configure` gets `confMu` when its readers have left (Go's `RWMutex` lets no
  new reader pass it).

No fairness is given to what a user, a peer or the framework may do: `Reset`,
`Configure`, start, stop, cancellation, failure of a connection, a call's end.

## The proofs

`CircuitBreakerProofs` (for any finite set of callers, any set of configurations, any
caps that respect them):

- `TypeCorrect`. Every count and age stays in its range, `concurrentRequests` at zero
  or above. `TypeOK` is inductive; what it needs is `SaturateType` and, for the
  configuration in force, `ConfigFacts`.
- `OpenFresh`, `RecoveryIsWaitedOut`. `allowRequest` measures the recovery timeout from
  the last failure, not from the opening. That opening is waited out therefore rests on
  `OpenIsFresh`: while open, the last failure is no older than the opening. This is
  inductive given `TypeOK`: each way into `Open` sets both ages to zero, in `Open` only
  the last failure becomes younger, and ticks keep the order (`SaturateMonotone`). The
  action property follows: the window opens when the last failure is a timeout old, so
  the opening is at least that old.
- `BelowThreshold`: `ClosedBelowThreshold`, inductive given `TypeOK`.
- `SlotsAccounted`: the property counts the slots of calls still running. It is not
  inductive: a call that returns gives its slot back only if it is among `slots`, and one
  that is there but no longer running could not give it back. The strengthening `SlotInv`
  bounds `concurrentRequests` by all of `slots` and adds that all of them run.

`ServerCallsProofs` (for any finite set of requests, any limit and any chain):

- `TypeCorrect`: the semaphore is never fuller than its capacity.
- `TokensAlwaysAccounted`: the fill of the semaphore is the number of holders. A send
  adds one to both only if its request is not a holder yet, so the proof needs
  `HoldersPast`: a holder is past the limit or unwinding, never about to acquire a
  second token. `TokenInv` is the conjunction of the two.
- `InflightLimited`: as long as the options are those of the start-up, whoever is
  past the limit holds a token (`PastHold`); `TokenInv` and the capacity bound the holders.

- `ChainImplementsLimit`: every step of the chain is one of `InflightLimit` or none, by
  one lemma for the steps of a request and `PastHold`, which makes room for a request that
  enters: it has just put a token where there was space for one.

`RetryChainProofs` (any callers, any numbers of retries):

- `ChainUsesBreaker`: each step of the chain is a step of the breaker or leaves it alone.
- `ChainKeepsBreaker`: therefore what `CircuitBreakerProofs` shows of the slots and of the
  recovery timeout holds with retries; nothing is proved twice.
- `ChainTypeCorrect`, `AttemptsAreBounded`: the invariant is `RpcOK`. `asked` alone bounds
  nothing: an attempt that has not reached the breaker must not have been counted yet,
  and a backoff is only entered below the maximum.
- `DelayBounded`: for any range of integers, any converted product and any jitter of a
  quarter, the delay is the base or lies between zero and the maximum; it is not above the
  maximum if the product is not negative and five quarters of the maximum are within the
  range, as those of five seconds are.

`PortCheckProofs` (any checks and addresses, any windows and timeouts):

- `TypeCorrect`: in particular no dial is older than its timeout.
- `CachedVerdictsTrue`: `CachedTrue` speaks of the cache only. `CacheInv` adds
  the same of a verdict that is about to be stored, also by a dial that timed out on a port
  that listens by now, and that the age of what an address is right now is zero (`AgesAgree`); ticks keep it, because an age that is saturated is
  as old as any.

`ReadinessProofs` (any services, any number of workers):

- `CheckIsTrue`: the check's success says that every service was reached. `CheckInv`
  follows a service from the dispatcher through a worker's hands: until an error is
  reported it is waiting, held or verified (`NothingLost`), workers do not outlive their
  check (`WorkersJoined`), and the dispatcher stops early only for an error or the caller
  (`DispatchedAll`).
- `FirstErrorReal`: who cancels has reported first (`CancelReported`), so the error
  at the head of the buffer was not caused by another's.
- `ReadinessIsTrue`, `ContractsTrue`: `ReadinessKept` and `PollerInv` on top of the check.
  The run checks the first of them as a part of `KeepsPromise`. That the health status stays
  shut down needs `HealthInv`: a stopped server may still have a poll that is about to set
  its status, and only the health service ignores it.
- `ImplementsRegister`: a step of the check is a service reached, a caller that gives up or
  a verdict (`CheckKeepsPromise`), one of the client a start, a raise, an attestation or a
  withdrawal (`ClientKeepsPromise`). `FirstErrorIsReal` and `OkMeansVerified` are what makes
  `Join` a `Return`; that the register is down during a check (`ReadinessKept`) is what makes
  `Checked` a `Raise`.

`ConnectionBuildProofs` (any threads, services, nodes, registries, configurations and
rotations):

- The TLS manager and the load balancer share no variable, so each has an invariant over
  its own steps (`TLSStep`, `LBStep`); `StepIsOf` shows that every step of a build is one
  of the one, one of the other, or neither, and `BuildOK` says for each thread which of
  its calls may be running and what is known of its configuration.
- `CredentialsCorrect`: a build that is about to store or get credentials needs more than
  its own generation: whatever other operations in flight may still store for its service
  must not be older than `oldest` (`NotBefore`).
- `NodesAskedFor`, `NobodyStarved`: a selector is referred to by calls of one service only
  (`RefsOK`), and what it was last applied to is what some filter of `asked` left
  (`NodesOK`), also after another call has applied it. A fresh selector exists by
  `SelectorsAssumption`.
- `RegistryKnown`: from `StoreDiscovery` on `lb.discovery` is set, by whomever, and it is
  never unset.

`ConnectionPoolProofs` (any services, goroutines, pool objects, connections and limits):

- With and without sweeps, by `LockInv`: types, what the locals of a goroutine say of it
  (`LocalsOK`), and `CreateHolder`: a `createMu` is held exactly by who is between its
  `Lock` and `Unlock` of that pool object. `TypeCorrect` includes the bound on retries,
  `OneAtATime` is mutual exclusion, `NoLockCycle` says that a holder never waits.
- The others need a pool without sweeps (`~Sweeping`): the cleanup goroutine writes back
  lists that are out of date, which breaks each of them (see above). The invariant is
  `PoolInv`. `OneOwner` says of each connection that the lists, the made and the withdrawn
  ones are apart, and it is open while it is in one of them. `Load` counts room: who dials or appends
  has seen fewer than the maximum, and holds the `createMu` that keeps everybody else from
  adding (`Room`). `Emptied` is the same argument for who removes an entry.
  `OneOwnerEach`, `PoolBounded`, `OnlyEmptyRemoved` follow.
- `ImplementsOwnership`: each effect of a step (`Effect`) is a step of `PoolOwnership`, one
  lemma for each. That a connection stays where it was offered or made is `StaysHeld`; that the
  pool object it is made for stays the same, `MakerStays`.
- `DialsAreShared` has one more premise: `MaxConns = 1`, or no connection changes its health.
  With room for more, a get whose selected connection breaks between the two looks dials
  beside healthy ones (`connection_pool.go:231-240`), so the property is false there.

`ClientPluginProofs` (any goroutines, connections and number of `Configure`s):

- `MuGuardsSettings`: `c.mu` is held across steps only by who is inside `Close` or
  `Configure` (`MuHolder`), and while it is free the pool in use belongs to the settings in
  force (`PoolOfSettings`).
- `OneCreatorPerPool`: mutual exclusion of `createMu` (`CreateHolder`).
- `SettingsAlwaysHeal`: the property speaks of connections that are handed out. The
  invariant says of everything a cache refers to, and is not closed, that it was made with
  the settings of the last clean `Configure` or later ones (`HealingKept`), and of each get
  on its way that it has read such settings, and that its connection and what its pool has
  are such (`HealingGet`). Between `Configure` and `Swap` the pool in use is still the old
  one and about to be closed; if no get was on its way then, `c.mu` keeps every other
  from getting there (`ReplaceHeals`).

Every invariant, action property and refinement of the passing runs is a theorem for every
value of the constants, under the premises named here. Only model-checked is liveness under fairness, which is
outside TLAPS here. The violations are single traces and need no proof.

The assumptions of the proofs are the named `ASSUME`s of the modules; TLC evaluates
them in every run.

## Where the code and its text disagree

Four runs end in a counterexample to a sentence of the repository. `PROJECT.json`
quotes it under `findings`.

- `pool_orphan`: a get puts its connection into a pool object that has been removed
  (`connection_pool.go:160`).
- `client_close`: `createMu` and `c.mu` are taken in both orders when connections use
  TLS (`client.go:651`).
- `server_configure`: the deferred release reads the semaphore again, which `Configure`
  has made nil (`monitoring.go:173`).
- `client_configure`: a connection made with the old settings lands in the pool or in the
  map that `Configure` has just reset, and later calls get it from there
  (`client.go:460`, against the log text at 409).

Others were seen and have no run, because one sequential call shows them or because
the text is not precise enough:

- the request that opens the probe window takes no slot and gives one back, so that more
  probes run than `MaxConcurrentRequests` (`circuit_breaker.go:148`, against 52);
- two gets that evict at the same time overshoot `maxServices`
  (`connection_pool.go:135`, against 35);
- a connection handed out since the sweep looked at it is closed by it
  (`connection_pool.go:626`, against 588);
- the caller's own deadline reaches `isFailure` as a status and counts as a failure
  (`circuit_breaker.go:254`, against the comment at 252);
- `PRODUCTION_READINESS.md:80` says that changes that affect connections "still apply on the
  next managed restart rather than live mutation of existing transports"; the code closes
  the existing connections and makes the next ones with the new settings, at once
  (`client.go:398`-407), as its log text at 409 says. The modules follow the code:
  `SettingsHeal` is about when new settings have reached every call;
- the start-up check of a required service selects a node from a load balancer that has no
  registry yet, because only `CreateConnection` sets it (`client.go:1037`, 453, against
  `README.md:110`, "Fail startup if this service is unreachable");
- `CloseContext` closes pooled connections a second time through the legacy map and
  reports the error; a connection dropped from that map with pooling off is not closed
  (`client.go:371`, 324, 431);
- a rejected configuration does not restore the service discovery (`client.go:396`);
- any `Configure` of the server drops the configured limits (`runtime_config.go:59`);
- `lb.discovery` is one for all services, although it is said to be set per service
  (`client.go:104`);
- a fallback that is written late replaces a configuration and its `NodeFilter`
  (`load_balancer.go:108`, against `PRODUCTION_READINESS.md:78`), and an overlapping call may
  apply its own nodes to the selector before `Select` (168): `NodeAskedFor` counts the
  filters of overlapping calls and of the fallback among those asked for; the filters named in a configuration are made and dropped (296);
- without a load balancer a `NodeFilter` is ignored (`client.go:591`, against the comment
  at 89 and `PRODUCTION_READINESS.md:78`); `client_integration.go` never sets one;
- the consistent hash depends on the order and the number of nodes, sends every call to
  one node if there is no key, and its index is negative for some keys where `int` has
  32 bits (`load_balancer.go:426`);
- `RefreshCredentials` has no caller; it rebuilds from the configurations a client has
  stored, so it never picks up a new certificate, and it writes back credentials of
  services that have been removed (`tls_enhanced.go:470`);
- a port that does not answer is never served from the cache: the dial takes two seconds
  and the verdict is kept for half a second from its beginning (`service.go:543`, 587); and
  the cache does not say which address it is about, so after a `Configure` the verdict of
  the old one is served for up to a second;
- `RetryHandler` (`client_retry.go`) and the configuration validator have no callers; the
  former takes errors that are no status for retryable, the interceptor does not;
- a connection that comes from the pool is counted as created (`client.go:474`).

## What is not modelled

- *Client integration:* calls `CreateConnection` for one subscription after the other; its
  accessors delegate to the client plugin.
- *The strategies of the load balancer:* which node of its list a selector returns is left
  open, so that what holds does so for each of them.
- *`LoadConfigFromFile` of the TLS manager:* has no caller and ends in `SetServiceConfig`.
- *`RetryHandler`, `Jitter`, `ExponentialBackoff`:* no callers; the retry in use is that
  of the interceptor.
- *The manager of circuit breakers:* a map under a lock; its effect on a breaker is
  `UpdateConfig` and `Reset`.
- *Stream interceptors:* they have the breaker only.
- *Configuration validator:* checks one value at a time; unit tests reach each branch.
- *Metrics, logging, tracing:* nothing is decided by them.
- *Certificates, files, sockets, protobuf:* I/O and libraries; modelled, where they
  matter, by the outcomes they may have.
