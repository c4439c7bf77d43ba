-------------------------- MODULE ConnectionBuild ---------------------------
(***************************************************************************)
(* client.go: what one new connection goes through.  CreateConnection      *)
(* configures the load balancer and asks the pool; if the pool has no      *)
(* connection, buildConnectionWithContext selects a node and buildTLSConfig*)
(* gets the credentials.  checkRequiredService builds without the first    *)
(* two.  The load balancer and the TLS manager are published as resources  *)
(* (client.go:260, 285); who holds them may also remove services, close    *)
(* them and refresh the credentials.                                       *)
(*                                                                         *)
(* The steps are those of LoadBalancer and TLSManager; the pool may have a *)
(* connection or not, and what is dialed in the end plays no part here.    *)
(***************************************************************************)
EXTENDS LoadBalancer

CONSTANTS
    Configs,       \* the ClientConfigs in use
    Blank,         \* the nodes whose address is empty
    Ops,           \* what threads do: "create", "check", "refresh"
    Removes,       \* whether services are removed and the managers closed
    MaxRotations   \* bound: how often the certificate is replaced

\* LoadBalancer # "" and NodeFilter are lb and filter; reg is Discovery, or None.
ConfigType == [svc : Services, reg : Registries \cup {None}, endpoint : BOOLEAN,
               lb : BOOLEAN, filter : {NoFilter} \cup [key : STRING, accept : SUBSET STRING,
               strict : BOOLEAN], tls : BOOLEAN, required : BOOLEAN]

ASSUME ConfigsAssumption == \A k \in Configs : k \in ConfigType
ASSUME RotationsAssumption == MaxRotations \in Nat
ASSUME NoneAssumption ==
    /\ None \notin Registries /\ None \notin Selectors /\ None \notin Nat
    /\ None # NoFilter /\ \A k \in Configs : None # k.filter

VARIABLES ca, tlsConfigs, creds, tls,
          build    \* the connection each thread builds: where it is, how and with what

TLS == INSTANCE TLSManager

tlsVars == <<ca, tlsConfigs, creds, tls>>
vars == <<lbVars, tlsVars, build>>

Idle == [pc |-> "idle", op |-> None, cfg |-> None]

Init ==
    /\ LBInit
    /\ TLS!Init
    /\ build = [t \in Threads |-> Idle]

On(t, l) == build[t].pc = l
Goto(t, l) == build' = [build EXCEPT ![t].pc = l]
Finish(t) == build' = [build EXCEPT ![t] = Idle]
Cfg(t) == build[t].cfg

\* The load balancer is used with a discovery only.
Balanced(k) == k.reg # None /\ k.lb

\* Variant: the service is configured, the registry is not set.
StartCreateUnset(t, k) ==
    /\ On(t, "idle") /\ "create" \in Ops
    /\ build' = [build EXCEPT ![t] =
          [pc |-> IF Balanced(k) THEN "configure" ELSE "pool", op |-> "create", cfg |-> k]]
    /\ UNCHANGED <<lbVars, tlsVars>>

\* CreateConnection.
StartCreate(t, k) ==
    /\ On(t, "idle") /\ "create" \in Ops
    /\ build' = [build EXCEPT ![t] =
          [pc |-> IF Balanced(k) THEN "discovery" ELSE "pool", op |-> "create", cfg |-> k]]
    /\ UNCHANGED <<lbVars, tlsVars>>

\* lb.discovery is that of the last service that was configured.
StoreDiscovery(t) ==
    /\ On(t, "discovery")
    /\ SetDiscovery(Cfg(t).reg)
    /\ Goto(t, "configure")
    /\ UNCHANGED tlsVars

Configure(t) ==
    /\ On(t, "configure")
    /\ ConfigureService(Cfg(t).svc, Cfg(t).filter)
    /\ Goto(t, "pool")
    /\ UNCHANGED tlsVars

\* A connection of the pool: nothing is built.
Pooled(t) ==
    /\ On(t, "pool") /\ build[t].op = "create"
    /\ Finish(t)
    /\ UNCHANGED <<lbVars, tlsVars>>

\* checkRequiredService has the subscribed service's configuration and builds at
\* once, without ConfigureService and without the pool.
StartCheck(t, k) ==
    /\ On(t, "idle") /\ "check" \in Ops /\ k.required
    /\ build' = [build EXCEPT ![t] = [pc |-> "pool", op |-> "check", cfg |-> k]]
    /\ UNCHANGED <<lbVars, tlsVars>>

AfterTarget(t) == IF Cfg(t).tls THEN Goto(t, "tls") ELSE Finish(t)

\* buildConnectionWithContext: one node of the load balancer, all of the
\* registry's nodes, or a static endpoint, in this order of preference.  Without
\* the load balancer the NodeFilter is not used (client.go:591).
ChooseTarget(t) ==
    /\ On(t, "pool")
    /\ IF Balanced(Cfg(t))
       THEN Goto(t, "target") /\ StartSelect(t, Cfg(t).svc)
       ELSE /\ IF Cfg(t).reg # None \/ Cfg(t).endpoint THEN AfterTarget(t) ELSE Finish(t)
            /\ UNCHANGED lbVars
    /\ UNCHANGED tlsVars

\* An empty address, like a failed selection, ends the build.
Target(t) ==
    /\ On(t, "target")
    /\ EndSelect(t)
    /\ IF At(t, "selected") /\ call[t].node \notin Blank
          THEN AfterTarget(t) ELSE Finish(t)
    /\ UNCHANGED tlsVars

\* buildTLSConfig.
Secure(t) ==
    /\ On(t, "tls")
    /\ TLS!ReadCertificate(t, Cfg(t).svc)
    /\ Goto(t, "securing")
    /\ UNCHANGED lbVars

Secured(t) ==
    /\ On(t, "securing")
    /\ TLS!EndTLS(t)
    /\ Finish(t)
    /\ UNCHANGED lbVars

Refresh(t) ==
    /\ On(t, "idle") /\ "refresh" \in Ops
    /\ TLS!Snapshot(t)
    /\ build' = [build EXCEPT ![t] = [pc |-> "refresh", op |-> "refresh", cfg |-> None]]
    /\ UNCHANGED lbVars

Refreshed(t) ==
    /\ On(t, "refresh")
    /\ TLS!WriteBack(t)
    /\ Finish(t)
    /\ UNCHANGED lbVars

\* The load balancer and the TLS manager are separate: CloseContext closes one
\* after the other.
Administer ==
    \/ /\ \/ Removes /\ (Close \/ \E s \in Services : RemoveService(s))
          \/ \E r \in Registries, s \in Services, S \in Instances : Register(r, s, S)
       /\ UNCHANGED <<tlsVars, build>>
    \/ /\ \/ TLS!Rotate
          \/ Removes /\ (TLS!Close \/ \E s \in Services : TLS!RemoveService(s))
       /\ UNCHANGED <<lbVars, build>>

Step(t) ==
    \/ \E k \in Configs : StartCreate(t, k) \/ StartCheck(t, k)
    \/ StoreDiscovery(t) \/ Configure(t) \/ Pooled(t) \/ ChooseTarget(t)
    \/ (SelectNode(t) /\ UNCHANGED <<tlsVars, build>>)
    \/ Target(t) \/ Secure(t)
    \/ (TLS!BuildStep(t) /\ UNCHANGED <<lbVars, build>>)
    \/ Secured(t) \/ Refresh(t) \/ Refreshed(t)

Next == Administer \/ \E t \in Threads : Step(t)

Spec == Init /\ [][Next]_vars

(***************************************************************************)
(* Properties                                                              *)
(***************************************************************************)
TypeOK ==
    /\ LBTypeOK
    /\ TLS!TypeOK
    /\ \A t \in Threads :
          /\ build[t].pc \in {"idle", "discovery", "configure", "pool", "target", "tls",
                              "securing", "refresh"}
          /\ build[t].op \in Ops \cup {None}
          /\ build[t].cfg \in Configs \cup {None}
          /\ call[t].pc # "idle" <=> On(t, "target")
          /\ tls[t].pc # "idle" <=> On(t, "securing") \/ On(t, "refresh")

\* CreateConnection sets the load balancer's registry before it selects
\* (client.go:453): no connection that has one fails for want of it, whatever other
\* calls do to the registry and the configuration in between.
DiscoveryKnown ==
    \A t \in Threads : build[t].op = "create" => ~At(t, "no discovery")

\* A build with TLS gets the credentials it has set, or later ones, unless its
\* service was dropped (client.go:679-687, tls_enhanced.go:99-119).
CredentialsUsable == TLS!CredentialsFound /\ TLS!CredentialsNotStale
=============================================================================
