------------------------------ MODULE PortCheck ------------------------------
(***************************************************************************)
(* service.go: CheckHealth of the server plugin, which probes the server's *)
(* port behind a short cache, and Configure, which replaces the address.   *)
(* CheckHealth holds confMu for reading across a dial that may last until  *)
(* its timeout; Configure waits for it, and then every new check waits for *)
(* Configure.  Checks overlap, and each stores its verdict with the time   *)
(* at which it began.                                                      *)
(*                                                                         *)
(* Times are ages: the model keeps now - t for every time t the code holds,*)
(* in ticks and saturated at AgeCap.                                       *)
(***************************************************************************)
EXTENDS Naturals

CONSTANTS
    Checkers,       \* the goroutines that call CheckHealth
    Addrs,          \* the addresses the server may be configured with
    Changing,       \* those whose listeners come and go
    SuccessWindow,  \* successWindow, one second
    RetryWindow,    \* retryWindow, half a second
    DialTimeout,    \* two seconds
    AgeCap          \* bound: ages are saturated here

ASSUME PortCheckAssumption ==
    /\ {SuccessWindow, RetryWindow, DialTimeout, AgeCap} \subseteq Nat
    /\ SuccessWindow <= AgeCap /\ RetryWindow <= AgeCap /\ DialTimeout < AgeCap
    /\ Addrs # {} /\ Changing \subseteq Addrs

VARIABLES
    port,    \* external: what a dial to each address meets
    sinceUp, sinceDown, \* external: the ages of the last moments each address was up, and was not
    addr,    \* g.conf.Addr, normalised
    writer,  \* whether a Configure waits for confMu
    cache,   \* portCheckCache: the time of the last success or failure; of: history, its address
    pc,      \* where each check is
    began,   \* the age of its now
    found    \* the verdict of its dial

env  == <<port, sinceUp, sinceDown>>
vars == <<env, addr, writer, cache, pc, began, found>>

PortStates == {"listening", "refusing", "silent"}
Verdicts   == {"up", "down"}

\* A success clears the failure and a failure the success: one verdict is cached.
NoVerdict == [verdict |-> "none", age |-> AgeCap]

TypeOK ==
    /\ port \in [Addrs -> PortStates]
    /\ sinceUp \in [Addrs -> 0..AgeCap] /\ sinceDown \in [Addrs -> 0..AgeCap]
    /\ addr \in Addrs /\ writer \in BOOLEAN
    /\ \/ cache = NoVerdict
       \/ cache \in [verdict : Verdicts, age : 0..AgeCap, of : Addrs]
    /\ pc \in [Checkers -> {"idle", "lock", "look", "dial", "store"}]
    /\ began \in [Checkers -> 0..AgeCap]
    /\ \A c \in Checkers : pc[c] = "dial" => began[c] <= DialTimeout
    /\ found \in [Checkers -> Verdicts]

Init ==
    /\ port \in [Addrs -> {"listening", "refusing"}]
    /\ sinceUp = [a \in Addrs |-> IF port[a] = "listening" THEN 0 ELSE AgeCap]
    /\ sinceDown = [a \in Addrs |-> IF port[a] = "listening" THEN AgeCap ELSE 0]
    /\ addr \in Addrs /\ writer = FALSE /\ cache = NoVerdict
    /\ pc = [c \in Checkers |-> "idle"] /\ began = [c \in Checkers |-> 0]
    /\ found = [c \in Checkers |-> "down"]

Goto(c, l) == pc' = [pc EXCEPT ![c] = l]
Readers == {c \in Checkers : pc[c] \in {"look", "dial", "store"}}

(***************************************************************************)
(* CheckHealth, checkPortAvailability                                      *)
(***************************************************************************)

\* confMu.RLock waits while a writer waits.
CheckHealth(c) ==
    /\ pc[c] = "idle"
    /\ Goto(c, IF writer THEN "lock" ELSE "look")
    /\ UNCHANGED <<env, addr, writer, cache, began, found>>

Hit == \/ cache.verdict = "up" /\ cache.age < SuccessWindow
       \/ cache.verdict = "down" /\ cache.age < RetryWindow

\* Variant: a verdict served from the cache is kept for another window.
LookRenewing(c) ==
    /\ pc[c] = "look"
    /\ IF Hit THEN /\ Goto(c, "idle")
                   /\ cache' = [cache EXCEPT !.age = 0]
                   /\ UNCHANGED began
              ELSE Goto(c, "dial") /\ began' = [began EXCEPT ![c] = 0] /\ UNCHANGED cache
    /\ UNCHANGED <<env, addr, writer, found>>

\* The cached verdict is returned within its window; otherwise the port is dialled.
Look(c) ==
    /\ pc[c] = "look"
    /\ IF Hit THEN Goto(c, "idle") /\ UNCHANGED began
              ELSE Goto(c, "dial") /\ began' = [began EXCEPT ![c] = 0]
    /\ UNCHANGED <<env, addr, writer, cache, found>>

\* Variant: the dial has no timeout of its own.
TimedOutNever(c) == FALSE

TimedOut(c) == began[c] >= DialTimeout

\* What a dial that ends now may have met.  One that nobody answered for a part of its
\* time may time out although there is a listener by now.
Meets(c, v) ==
    IF port[addr] = "listening" THEN v = "up" \/ (TimedOut(c) /\ sinceDown[addr] <= began[c])
                                ELSE v = "down"

DialEnds(c) ==
    /\ pc[c] = "dial"
    /\ port[addr] = "silent" => TimedOut(c)
    /\ \E v \in Verdicts : Meets(c, v) /\ found' = [found EXCEPT ![c] = v]
    /\ Goto(c, "store")
    /\ UNCHANGED <<env, addr, writer, cache, began>>

\* Variant: the time is taken when the verdict is stored.
StoreStamped(c) ==
    /\ pc[c] = "store"
    /\ cache' = [verdict |-> found[c], age |-> 0, of |-> addr]
    /\ Goto(c, "idle")
    /\ began' = [began EXCEPT ![c] = 0] /\ found' = [found EXCEPT ![c] = "down"]
    /\ UNCHANGED <<env, addr, writer>>

Store(c) ==
    /\ pc[c] = "store"
    /\ cache' = [verdict |-> found[c], age |-> began[c], of |-> addr]
    /\ Goto(c, "idle")
    /\ began' = [began EXCEPT ![c] = 0] /\ found' = [found EXCEPT ![c] = "down"]
    /\ UNCHANGED <<env, addr, writer>>

(***************************************************************************)
(* Configure                                                               *)
(***************************************************************************)
ConfigureLock ==
    /\ ~writer
    /\ writer' = TRUE
    /\ UNCHANGED <<env, addr, cache, pc, began, found>>

\* Variant: the checks that wait are not let in when the lock is released.
ConfigureUnwaking(a) ==
    /\ writer /\ Readers = {}
    /\ addr' = a
    /\ writer' = FALSE
    /\ UNCHANGED <<env, cache, pc, began, found>>

\* Variant: the address is replaced under the checks that run.
ConfigureUnlocked(a) ==
    /\ writer
    /\ addr' = a
    /\ writer' = FALSE
    /\ pc' = [c \in Checkers |-> IF pc[c] = "lock" THEN "look" ELSE pc[c]]
    /\ UNCHANGED <<env, cache, began, found>>

\* The readers of the lock have left.  A configuration that is not valid is rolled
\* back; when the lock is released the checks that wait for it get it.  Validation, which
\* may look a name up with the lock held, is the time between ConfigureLock and this step.
Configure(a) ==
    /\ writer /\ Readers = {}
    /\ addr' = a
    /\ writer' = FALSE
    /\ pc' = [c \in Checkers |-> IF pc[c] = "lock" THEN "look" ELSE pc[c]]
    /\ UNCHANGED <<env, cache, began, found>>

(***************************************************************************)
(* The listeners and the clock                                             *)
(***************************************************************************)
Older(n) == IF n < AgeCap THEN n + 1 ELSE n

\* A listener appears or goes away, or the address becomes unreachable.
PortChanges(a, p) ==
    /\ port[a] # p /\ port' = [port EXCEPT ![a] = p]
    /\ IF p = "listening" THEN sinceUp' = [sinceUp EXCEPT ![a] = 0] /\ UNCHANGED sinceDown
                          ELSE sinceDown' = [sinceDown EXCEPT ![a] = 0] /\ UNCHANGED sinceUp
    /\ UNCHANGED <<addr, writer, cache, pc, began, found>>

\* No dial outlasts its timeout.
Tick ==
    /\ \A c \in Checkers : pc[c] = "dial" => ~TimedOut(c)
    /\ sinceUp'   = [a \in Addrs |-> IF port[a] = "listening" THEN 0 ELSE Older(sinceUp[a])]
    /\ sinceDown' = [a \in Addrs |-> IF port[a] = "listening" THEN Older(sinceDown[a]) ELSE 0]
    /\ cache' = [cache EXCEPT !.age = Older(@)]
    /\ began' = [c \in Checkers |-> IF pc[c] \in {"dial", "store"} THEN Older(began[c]) ELSE 0]
    /\ UNCHANGED <<port, addr, writer, pc, found>>

-----------------------------------------------------------------------------
Step(c) == Look(c) \/ DialEnds(c) \/ Store(c)

Next ==
    \/ \E c \in Checkers : CheckHealth(c) \/ Step(c)
    \/ ConfigureLock
    \/ \E a \in Addrs : Configure(a)
    \/ \E a \in Changing, p \in PortStates : PortChanges(a, p)
    \/ Tick

Spec == Init /\ [][Next]_vars

\* The clock advances, goroutines run and health is checked again and again.
Fairness ==
    /\ WF_vars(Tick)
    /\ \A c \in Checkers : WF_vars(CheckHealth(c)) /\ WF_vars(Step(c))
    /\ WF_vars(\E a \in Addrs : Configure(a))

(***************************************************************************)
(* Properties                                                              *)
(***************************************************************************)

\* A cached verdict was true of the address it is about no longer ago than it
\* claims, whichever check stores last and however long its dial took: what is
\* served from the cache was so within the window (service.go:578-585).
CachedTrue ==
    /\ cache.verdict = "up"   => sinceUp[cache.of] <= cache.age
    /\ cache.verdict = "down" => sinceDown[cache.of] <= cache.age

\* A listener that is gone for good, or is back for good, is noticed: a verdict
\* that contradicts it is no longer served, although checks keep coming.
ChangeNoticed ==
    \A a \in Addrs :
        /\ <>[](port[a] # "listening") => <>[]~(Hit /\ cache.verdict = "up" /\ cache.of = a)
        /\ <>[](port[a] = "listening") => <>[]~(Hit /\ cache.verdict = "down" /\ cache.of = a)

\* service.go:468, "Configure is concurrency-safe": it gets the lock although checks
\* keep coming and hold it across dials to a port that does not answer, and every
\* check returns although configurations keep coming.
AllReturn ==
    /\ writer ~> ~writer
    /\ \A c \in Checkers : pc[c] # "idle" ~> pc[c] = "idle"
=============================================================================
