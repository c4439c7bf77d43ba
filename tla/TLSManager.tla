----------------------------- MODULE TLSManager -----------------------------
(***************************************************************************)
(* tls_enhanced.go: the TLS configurations and credentials of services, as *)
(* the builds of connections (client.go, buildTLSConfig) set and get them, *)
(* RefreshCredentials rebuilds them and RemoveService and Close drop them. *)
(* Credentials are built without tm.mu, in each case from what was read    *)
(* earlier, and stored under it later.                                     *)
(*                                                                         *)
(* A configuration is reduced to the root certificate it was made from, and*)
(* that to its generation: the provider replaces it by a newer one at      *)
(* times.  Credentials carry the generation they were built from.          *)
(***************************************************************************)
EXTENDS Naturals

CONSTANTS
    Threads,
    Services,
    MaxRotations,   \* bound: how often the certificate is replaced
    None

VARIABLES
    ca,           \* external: the generation of the provider's root certificate
    tlsConfigs,   \* tm.configs
    creds,        \* tm.creds
    tls           \* the buildTLSConfig or RefreshCredentials of each thread

tlsVars == <<ca, tlsConfigs, creds, tls>>

Generations == 0..MaxRotations

\* ca: the certificate a build has read.  snapshot: what a refresh has read.
\* oldest: history, the oldest generation that this build or an operation that
\* overlaps with it may store.  dropped: history, the service's credentials were
\* dropped since the build began.  got: the credentials the build has got.
NoTLS == [pc |-> "idle", svc |-> None, ca |-> None, snapshot |-> [s \in Services |-> None],
          oldest |-> None, dropped |-> FALSE, got |-> None]

Init ==
    /\ ca = 0
    /\ tlsConfigs = [s \in Services |-> None]
    /\ creds = [s \in Services |-> None]
    /\ tls = [t \in Threads |-> NoTLS]

Doing(t, l) == tls[t].pc = l

\* The generations that operations in flight may still store for s.
InFlight(s) ==
    {tls[t].ca : t \in {u \in Threads : Doing(u, "set") /\ tls[u].svc = s}}
    \cup ({tls[t].snapshot[s] : t \in {u \in Threads : Doing(u, "refresh")}} \ {None})

Least(S) == CHOOSE n \in S : \A m \in S : n <= m

\* The builds of s between the reading of the certificate and the credentials.
Building(t, s) == tls[t].pc \in {"set", "get"} /\ tls[t].svc = s

(***************************************************************************)
(* buildTLSConfig                                                          *)
(***************************************************************************)
\* Without a certificate provider there is no connection.
ReadCertificate(t, s) ==
    /\ Doing(t, "idle")
    /\ \/ tls' = [tls EXCEPT ![t] = [NoTLS EXCEPT !.pc = "failed", !.svc = s]]
       \/ tls' = [tls EXCEPT ![t] = [NoTLS EXCEPT !.pc = "set", !.svc = s, !.ca = ca,
                                         !.oldest = Least(InFlight(s) \cup {ca})]]
    /\ UNCHANGED <<ca, tlsConfigs, creds>>

\* validateConfig and buildCredentials, which hold no lock: whatever they object to
\* ends the build, and nothing is stored.
Reject(t) ==
    /\ tls' = [tls EXCEPT ![t] = [NoTLS EXCEPT !.pc = "failed", !.svc = tls[t].svc]]
    /\ UNCHANGED <<tlsConfigs, creds>>

\* Variant: credentials that are cached already are not replaced.
SetServiceConfigCached(t) ==
    LET s == tls[t].svc IN
    /\ Doing(t, "set")
    /\ tlsConfigs' = [tlsConfigs EXCEPT ![s] = tls[t].ca]
    /\ creds' = [creds EXCEPT ![s] = IF @ = None THEN tls[t].ca ELSE @]
    /\ tls' = [tls EXCEPT ![t].pc = "get"]
    /\ UNCHANGED ca

\* Configuration and credentials are stored together.
SetServiceConfig(t) ==
    LET s == tls[t].svc IN
    /\ Doing(t, "set")
    /\ \/ /\ tlsConfigs' = [tlsConfigs EXCEPT ![s] = tls[t].ca]
          /\ creds' = [creds EXCEPT ![s] = tls[t].ca]
          /\ tls' = [tls EXCEPT ![t].pc = "get"]
       \/ Reject(t)
    /\ UNCHANGED ca

\* The credentials are looked up again, and may be another thread's by now.
GetCredentials(t) ==
    LET got == creds[tls[t].svc] IN
    /\ Doing(t, "get")
    /\ tls' = [tls EXCEPT ![t].pc = IF got = None THEN "missing" ELSE "built", ![t].got = got]
    /\ UNCHANGED <<ca, tlsConfigs, creds>>

\* The caller has used the result.
EndTLS(t) ==
    /\ tls[t].pc \in {"failed", "missing", "built"}
    /\ tls' = [tls EXCEPT ![t] = NoTLS]
    /\ UNCHANGED <<ca, tlsConfigs, creds>>

(***************************************************************************)
(* RefreshCredentials, removal, and the certificate                        *)
(***************************************************************************)
\* A build in flight may from now on get what the refresh stores.
Snapshot(t) ==
    /\ Doing(t, "idle")
    /\ \E s \in Services : tlsConfigs[s] # None
    /\ tls' = [u \in Threads |->
                 IF u = t THEN [NoTLS EXCEPT !.pc = "refresh", !.snapshot = tlsConfigs]
                 ELSE IF \E s \in Services : Building(u, s) /\ tlsConfigs[s] # None
                 THEN [tls[u] EXCEPT !.oldest = Least({@, tlsConfigs[tls[u].svc]})]
                 ELSE tls[u]]
    /\ UNCHANGED <<ca, tlsConfigs, creds>>

\* Only the credentials are written back, those of services that are gone too.
\* The rebuilding may fail for any of them.
WriteBack(t) ==
    /\ Doing(t, "refresh")
    /\ \E failed \in SUBSET Services :
          creds' = [s \in Services |->
                      IF tls[t].snapshot[s] = None \/ s \in failed
                          THEN creds[s] ELSE tls[t].snapshot[s]]
    /\ tls' = [tls EXCEPT ![t] = NoTLS]
    /\ UNCHANGED <<ca, tlsConfigs>>

Drop(S) ==
    /\ tlsConfigs' = [s \in Services |-> IF s \in S THEN None ELSE tlsConfigs[s]]
    /\ creds' = [s \in Services |-> IF s \in S THEN None ELSE creds[s]]
    /\ tls' = [t \in Threads |->
                 IF tls[t].svc \in S /\ tls[t].pc \in {"set", "get"}
                     THEN [tls[t] EXCEPT !.dropped = TRUE] ELSE tls[t]]
    /\ UNCHANGED ca

RemoveService(s) == creds[s] # None /\ Drop({s})

Close == (\E s \in Services : creds[s] # None) /\ Drop(Services)

Rotate ==
    /\ ca < MaxRotations
    /\ ca' = ca + 1
    /\ UNCHANGED <<tlsConfigs, creds, tls>>

\* The steps of a build that has begun, and those of a refresh.
BuildStep(t) == SetServiceConfig(t) \/ GetCredentials(t)
Refresh(t)   == Snapshot(t) \/ WriteBack(t)
Administer   == Close \/ Rotate \/ \E s \in Services : RemoveService(s)

(***************************************************************************)
(* Properties                                                              *)
(***************************************************************************)
TypeOK ==
    /\ ca \in Generations
    /\ tlsConfigs \in [Services -> Generations \cup {None}]
    /\ creds \in [Services -> Generations \cup {None}]
    /\ tls \in [Threads ->
          [pc : {"idle", "set", "get", "refresh", "built", "missing", "failed"},
           svc : Services \cup {None}, ca : Generations \cup {None},
           snapshot : [Services -> Generations \cup {None}],
           oldest : Generations \cup {None}, dropped : BOOLEAN,
           got : Generations \cup {None}]]

\* A build that has set its service's configuration finds credentials
\* (client.go:679-687), unless the service was removed or the manager closed in
\* between.
CredentialsFound == \A t \in Threads : Doing(t, "missing") => tls[t].dropped

\* What it gets may be another build's or a refresh's, since it looks them up
\* again, but it is never older than what it, or an operation that overlaps with it,
\* had read: nothing that was cached before survives (tls_enhanced.go:99-119).
CredentialsNotStale ==
    \A t \in Threads : Doing(t, "built") => tls[t].got >= tls[t].oldest
=============================================================================
