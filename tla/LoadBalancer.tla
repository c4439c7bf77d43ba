---------------------------- MODULE LoadBalancer ----------------------------
(***************************************************************************)
(* load_balancer.go: the selectors and configurations of services, made by *)
(* ConfigureService and used by concurrent calls of SelectNode.  lb.mu is  *)
(* held for one step at a time: SelectNode takes it up to four times, and  *)
(* gets the instances from the registry and works on the selector, which   *)
(* it shares with the other calls, without it.                             *)
(*                                                                         *)
(* A configuration is reduced to its NodeFilter and a selector to the nodes*)
(* it was last applied to: which of them a strategy selects is left open.  *)
(***************************************************************************)
EXTENDS NodeFilter, FiniteSets

CONSTANTS
    Threads,      \* the goroutines that build connections or select nodes
    Services,
    Registries,   \* the registry.Discovery objects
    Endpointless, \* the nodes registered without an endpoint
    Instances,    \* the sets of nodes a registry may report for a service
    Selectors,    \* identities of selector objects
    None

ASSUME InstancesAssumption == Instances \subseteq SUBSET Nodes

\* Whatever the services and the calls refer to, there is a selector left for the
\* call that makes one.
ASSUME SelectorsAssumption ==
    \A f \in [Threads -> Selectors \cup {None}], g \in [Services -> Selectors \cup {None}] :
        (\E t \in Threads : f[t] = None) =>
            \E x \in Selectors : /\ \A t \in Threads : f[t] # x
                                /\ \A s \in Services : g[s] # x

VARIABLES
    discovery,    \* lb.discovery: one for all services
    selectors,    \* lb.selectors
    configs,      \* lb.configs: the NodeFilter of each service, or None
    applied,      \* what each selector was applied to last
    registered,   \* external: what each registry reports for each service
    asked,        \* history: the filters in force for each service since the oldest
                  \* of the calls of SelectNode that are running began
    call          \* the SelectNode call of each thread

lbVars == <<discovery, selectors, configs, applied, registered, asked, call>>

NoCall == [pc |-> "idle", svc |-> None, sel |-> None, reg |-> None,
           seen |-> {}, nodes |-> {}, node |-> None]

\* seen is a history: the list that nodes was filtered from.
Unapplied == [seen |-> {}, nodes |-> {}]

LBInit ==
    /\ discovery = None
    /\ selectors = [s \in Services |-> None]
    /\ configs = [s \in Services |-> None]
    /\ applied = [x \in Selectors |-> Unapplied]
    /\ registered \in [Registries -> [Services -> Instances]]
    /\ asked = [s \in Services |-> {NoFilter}]
    /\ call = [t \in Threads |-> NoCall]

At(t, l) == call[t].pc = l
Failures == {"no discovery", "no instances", "filtered out", "no selection"}

\* A selector nothing refers to is garbage; its identity is used again.
InUse(x) == \E t \in Threads : call[t].sel = x
Fresh == CHOOSE x \in Selectors : ~InUse(x) /\ \A s \in Services : selectors[s] # x

\* Every call applies the selector before it selects, so what one that no call
\* holds was applied to is of no consequence and is forgotten.
Collect(contents) ==
    applied' = [x \in Selectors |-> IF InUse(x)' THEN contents[x] ELSE Unapplied]

\* What a call finds when the configuration is missing or has no NodeFilter.
FilterOf(s) == IF configs[s] = None THEN NoFilter ELSE configs[s]

Quiet == \A t \in Threads : At(t, "idle")
Note(S, f) ==
    asked' = [s \in Services |-> IF s \notin S THEN asked[s]
                                ELSE {f} \cup (IF Quiet THEN {} ELSE asked[s])]

\* createSelector: whatever the strategy, an empty selector.  The filters that are
\* named in the configuration are made and then dropped (load_balancer.go:296).
NewSelector(x) == [applied EXCEPT ![x] = Unapplied]

(***************************************************************************)
(* Administration                                                          *)
(***************************************************************************)
SetDiscovery(r) ==
    /\ discovery' = r
    /\ UNCHANGED <<selectors, configs, applied, registered, asked, call>>

\* None of the selectors has a Close, so replacing one cannot fail.
ConfigureService(s, f) ==
    /\ configs' = [configs EXCEPT ![s] = f]
    /\ selectors' = [selectors EXCEPT ![s] = Fresh]
    /\ Note({s}, f)
    /\ UNCHANGED <<discovery, registered, call>>
    /\ Collect(NewSelector(Fresh))

\* Variant: the configuration of a removed service stays.
ForgetSelectors(S) ==
    /\ selectors' = [s \in Services |-> IF s \in S THEN None ELSE selectors[s]]
    /\ Note(S, NoFilter)
    /\ UNCHANGED <<discovery, configs, registered, call>>
    /\ Collect(applied)

Forget(S) ==
    /\ selectors' = [s \in Services |-> IF s \in S THEN None ELSE selectors[s]]
    /\ configs' = [s \in Services |-> IF s \in S THEN None ELSE configs[s]]
    /\ Note(S, NoFilter)
    /\ UNCHANGED <<discovery, registered, call>>
    /\ Collect(applied)

RemoveService(s) == (selectors[s] # None \/ configs[s] # None) /\ Forget({s})

Close == (\E s \in Services : configs[s] # None) /\ Forget(Services)

\* Instances come and go.
Register(r, s, S) ==
    /\ registered[r][s] # S
    /\ registered' = [registered EXCEPT ![r][s] = S]
    /\ UNCHANGED <<discovery, selectors, configs, applied, asked, call>>

(***************************************************************************)
(* SelectNode                                                              *)
(***************************************************************************)
StartSelect(t, s) ==
    /\ At(t, "idle")
    /\ call' = [call EXCEPT ![t] = [NoCall EXCEPT
                    !.pc = IF selectors[s] = None THEN "fallback" ELSE "discovery",
                    !.svc = s, !.sel = selectors[s]]]
    /\ UNCHANGED <<discovery, selectors, configs, applied, registered, asked>>

\* The default is written under another lock than the one it was found missing
\* under: it also replaces what ConfigureService has stored in between.
Fallback(t) ==
    LET s == call[t].svc IN
    /\ At(t, "fallback")
    /\ selectors' = [selectors EXCEPT ![s] = Fresh]
    /\ configs' = [configs EXCEPT ![s] = NoFilter]
    /\ Note({s}, NoFilter)
    /\ call' = [call EXCEPT ![t].pc = "discovery", ![t].sel = Fresh]
    /\ UNCHANGED <<discovery, registered>>
    /\ Collect(NewSelector(Fresh))

Fail(t, why) ==
    /\ call' = [call EXCEPT ![t] = [NoCall EXCEPT !.pc = why, !.svc = call[t].svc]]
    /\ UNCHANGED <<discovery, selectors, configs, registered, asked>>
    /\ Collect(applied)

ReadDiscovery(t) ==
    /\ At(t, "discovery")
    /\ IF discovery = None THEN Fail(t, "no discovery")
       ELSE /\ call' = [call EXCEPT ![t].pc = "instances", ![t].reg = discovery]
            /\ UNCHANGED <<discovery, selectors, configs, applied, registered, asked>>

\* The registry answers, or does not.  Instances without an endpoint are skipped.
GetService(t) ==
    /\ At(t, "instances")
    /\ \/ Fail(t, "no instances")
       \/ LET usable == registered[call[t].reg][call[t].svc] \ Endpointless IN
          /\ usable # {}
          /\ call' = [call EXCEPT ![t].pc = "filter", ![t].reg = None, ![t].seen = usable]
          /\ UNCHANGED <<discovery, selectors, configs, applied, registered, asked>>

\* Variant: the emptiness of the filtered list is not looked at.
FilterUnchecked(t) ==
    LET kept == Keep(FilterOf(call[t].svc), call[t].seen) IN
    /\ At(t, "filter")
    /\ call' = [call EXCEPT ![t].pc = "apply", ![t].nodes = kept]
    /\ UNCHANGED <<discovery, selectors, configs, applied, registered, asked>>

\* The filter is that of the configuration in force now.
Filter(t) ==
    LET kept == Keep(FilterOf(call[t].svc), call[t].seen) IN
    /\ At(t, "filter")
    /\ IF kept = {} THEN Fail(t, "filtered out")
       ELSE /\ call' = [call EXCEPT ![t].pc = "apply", ![t].nodes = kept]
            /\ UNCHANGED <<discovery, selectors, configs, applied, registered, asked>>

\* Variant: the selector gets the list from before the filter.
ApplyUnfiltered(t) ==
    /\ At(t, "apply")
    /\ applied' = [applied EXCEPT ![call[t].sel] =
                      [seen |-> call[t].seen, nodes |-> call[t].seen]]
    /\ call' = [call EXCEPT ![t].pc = "select", ![t].seen = {}, ![t].nodes = {}]
    /\ UNCHANGED <<discovery, selectors, configs, registered, asked>>

\* Apply and Select are two calls on a selector that other calls may hold.
Apply(t) ==
    /\ At(t, "apply")
    /\ applied' = [applied EXCEPT ![call[t].sel] =
                      [seen |-> call[t].seen, nodes |-> call[t].nodes]]
    /\ call' = [call EXCEPT ![t].pc = "select", ![t].seen = {}, ![t].nodes = {}]
    /\ UNCHANGED <<discovery, selectors, configs, registered, asked>>

Select(t) ==
    LET list == applied[call[t].sel] IN
    /\ At(t, "select")
    /\ IF list.nodes = {} THEN Fail(t, "no selection")
       ELSE \E n \in list.nodes :
            /\ call' = [call EXCEPT ![t] = [NoCall EXCEPT !.pc = "selected", !.svc = call[t].svc,
                                                !.seen = list.seen, !.node = n]]
            /\ UNCHANGED <<discovery, selectors, configs, registered, asked>>
            /\ Collect(applied)

\* The caller has used the result.
EndSelect(t) ==
    /\ call[t].pc \in Failures \cup {"selected"}
    /\ call' = [call EXCEPT ![t] = NoCall]
    /\ UNCHANGED <<discovery, selectors, configs, applied, registered>>
    /\ asked' = IF Quiet' THEN [s \in Services |-> {FilterOf(s)}] ELSE asked

SelectNode(t) == \/ Fallback(t) \/ ReadDiscovery(t) \/ GetService(t)
                 \/ Filter(t) \/ Apply(t) \/ Select(t)

(***************************************************************************)
(* Properties                                                              *)
(***************************************************************************)
LBTypeOK ==
    /\ discovery \in Registries \cup {None}
    /\ selectors \in [Services -> Selectors \cup {None}]
    /\ DOMAIN configs = Services /\ DOMAIN asked = Services
    /\ \A s \in Services : selectors[s] = None <=> configs[s] = None
    /\ applied \in [Selectors -> [seen : SUBSET Nodes, nodes : SUBSET Nodes]]
    /\ registered \in [Registries -> [Services -> Instances]]
    /\ DOMAIN call = Threads
    /\ \A t \in Threads : call[t].node \in Nodes \cup {None}

\* A node that SelectNode returns is one that a filter keeps which was in force
\* for the service during this call, or during the calls that overlap with it
\* (load_balancer.go:154-170), whichever calls share the selector and however
\* configurations, removals and changes of the instances interleave.
NodeAskedFor ==
    \A t \in Threads : At(t, "selected") =>
        \E f \in asked[call[t].svc] : call[t].node \in Keep(f, call[t].seen)

\* A call that has nodes left after the filter gets one of them or of another
\* call's: no other call leaves the shared selector without nodes
\* (load_balancer.go:160-178).
NeverStarved == \A t \in Threads : ~At(t, "no selection")
=============================================================================
