------------------------ MODULE ConnectionBuildProofs ------------------------
(***************************************************************************)
(* Proofs about ConnectionBuild for every set of threads, services,        *)
(* registries, nodes and configurations, and any number of rotations of    *)
(* the certificate.  The TLS manager first, then the load balancer, each   *)
(* by an invariant of its own steps, then what joins them.                 *)
(***************************************************************************)
EXTENDS ConnectionBuild, WellFoundedInduction, TLAPS

-----------------------------------------------------------------------------
(* The steps of the TLS manager *)

TLSNext ==
    \/ \E t \in Threads, s \in Services : TLS!ReadCertificate(t, s)
    \/ \E t \in Threads : TLS!BuildStep(t) \/ TLS!EndTLS(t) \/ TLS!Snapshot(t) \/ TLS!WriteBack(t)
    \/ TLS!Rotate \/ TLS!Close \/ \E s \in Services : TLS!RemoveService(s)

\* Not before this generation: whatever is stored for the service of t from now on,
\* or is stored already when it looks.
NotBefore(t) ==
    LET s == tls[t].svc IN
    /\ s \in Services /\ tls[t].oldest \in TLS!Generations
    /\ tls[t].oldest <= ca
    /\ \A u \in Threads :
          /\ TLS!Doing(u, "set") /\ tls[u].svc = s => tls[t].oldest <= tls[u].ca
          /\ TLS!Doing(u, "refresh") /\ tls[u].snapshot[s] # None
                => tls[t].oldest <= tls[u].snapshot[s]
    /\ TLS!Doing(t, "get") /\ creds[s] # None => tls[t].oldest <= creds[s]
    /\ TLS!Doing(t, "get") => creds[s] # None \/ tls[t].dropped

TLSInv ==
    /\ TLS!TypeOK
    /\ \A t \in Threads :
          /\ TLS!Doing(t, "set") => tls[t].ca \in TLS!Generations
          /\ tls[t].pc \in {"set", "get"} => NotBefore(t)
    /\ TLS!CredentialsFound
    /\ \A t \in Threads : TLS!Doing(t, "built") =>
          /\ tls[t].oldest \in TLS!Generations /\ tls[t].got \in TLS!Generations
          /\ tls[t].oldest <= tls[t].got

\* Least is a minimum.
LEMMA LeastIsLeast ==
  ASSUME NEW S \in SUBSET Nat, S # {}
  PROVE  TLS!Least(S) \in S /\ \A m \in S : TLS!Least(S) <= m
<1> DEFINE R == OpToRel(<, Nat)
<1>0. IsWellFoundedOn(R, Nat)
  BY NatLessThanWellFounded
<1> HIDE DEF R
<1>1. PICK n \in S : \A m \in S : ~(<<m, n>> \in R)
  BY <1>0, WFMin, Zenon
<1>2. \A m \in S : n <= m
  <2> SUFFICES ASSUME NEW m \in S PROVE n <= m
    OBVIOUS
  <2>1. m \in Nat /\ n \in Nat
    OBVIOUS
  <2>2. m < n => <<m, n>> \in R
    BY <2>1 DEF R, OpToRel
  <2> QED
    BY <1>1, <2>1, <2>2
<1>3. \E n0 \in S : \A m \in S : n0 <= m
  BY <1>2
<1> QED
  BY <1>3 DEF TLS!Least

\* The oldest generation that a build which begins now may get.
LEMMA OldestInFlight ==
  ASSUME TLSInv, NEW s \in Services
  PROVE  LET n == TLS!Least(TLS!InFlight(s) \cup {ca})
         IN  /\ n \in TLS!Generations /\ n <= ca
             /\ \A u \in Threads :
                  /\ TLS!Doing(u, "set") /\ tls[u].svc = s => n <= tls[u].ca
                  /\ TLS!Doing(u, "refresh") /\ tls[u].snapshot[s] # None
                        => n <= tls[u].snapshot[s]
<1> DEFINE S == TLS!InFlight(s) \cup {ca}
<1>1. S \in SUBSET TLS!Generations
  BY NoneAssumption DEF TLSInv, TLS!TypeOK, TLS!InFlight
<1>2. TLS!Generations \subseteq Nat
  BY RotationsAssumption DEF TLS!Generations
<1>3. ca \in S
  OBVIOUS
<1>4. \A u \in Threads :
        /\ TLS!Doing(u, "set") /\ tls[u].svc = s => tls[u].ca \in S
        /\ TLS!Doing(u, "refresh") /\ tls[u].snapshot[s] # None => tls[u].snapshot[s] \in S
  BY DEF TLS!InFlight
<1> HIDE DEF S
<1>5. TLS!Least(S) \in S /\ \A m \in S : TLS!Least(S) <= m
  BY <1>1, <1>2, <1>3, LeastIsLeast
<1>6. /\ TLS!Least(S) \in TLS!Generations /\ TLS!Least(S) <= ca
      /\ \A u \in Threads :
           /\ TLS!Doing(u, "set") /\ tls[u].svc = s => TLS!Least(S) <= tls[u].ca
           /\ TLS!Doing(u, "refresh") /\ tls[u].snapshot[s] # None
                 => TLS!Least(S) <= tls[u].snapshot[s]
  BY <1>1, <1>3, <1>4, <1>5
<1> QED
  BY <1>6 DEF S

\* The type of a call, as TypeOK has it.
CallOfTLS ==
    [pc : {"idle", "set", "get", "refresh", "built", "missing", "failed"},
     svc : Services \cup {None}, ca : TLS!Generations \cup {None},
     snapshot : [Services -> TLS!Generations \cup {None}],
     oldest : TLS!Generations \cup {None}, dropped : BOOLEAN,
     got : TLS!Generations \cup {None}]

\* The TLS manager starts without credentials and without builds.
LEMMA TLSInit == TLS!Init => TLSInv
  BY RotationsAssumption
  DEF TLS!Init, TLSInv, TLS!TypeOK, TLS!NoTLS, TLS!Generations, TLS!Doing, TLS!CredentialsFound

\* A build of s begins, with the oldest generation n in flight.
LEMMA ReadKeeps ==
  ASSUME TLSInv, NEW t \in Threads, NEW s \in Services, TLS!ReadCertificate(t, s)
  PROVE  TLSInv'
<1> DEFINE n == TLS!Least(TLS!InFlight(s) \cup {ca})
<1>0. /\ n \in TLS!Generations /\ n <= ca
      /\ \A u \in Threads :
           /\ TLS!Doing(u, "set") /\ tls[u].svc = s => n <= tls[u].ca
           /\ TLS!Doing(u, "refresh") /\ tls[u].snapshot[s] # None => n <= tls[u].snapshot[s]
  BY OldestInFlight
<1>1. CASE tls' = [tls EXCEPT ![t] = [TLS!NoTLS EXCEPT !.pc = "failed", !.svc = s]]
  BY <1>1 DEF TLSInv, NotBefore, TLS!TypeOK, TLS!ReadCertificate, TLS!NoTLS, TLS!Doing,
              TLS!CredentialsFound
<1>2. CASE tls' = [tls EXCEPT ![t] = [TLS!NoTLS EXCEPT !.pc = "set", !.svc = s, !.ca = ca,
                                       !.oldest = n]]
  <2> HIDE DEF n
  <2> DEFINE new == [TLS!NoTLS EXCEPT !.pc = "set", !.svc = s, !.ca = ca, !.oldest = n]
  <2>1. /\ new.pc = "set" /\ new.svc = s /\ new.ca = ca /\ new.oldest = n
        /\ new.got = None
        /\ new \in CallOfTLS
    BY <1>0 DEF TLS!NoTLS, TLSInv, TLS!TypeOK, CallOfTLS
  <2> HIDE DEF new
  <2>2. tls' = [tls EXCEPT ![t] = new] /\ UNCHANGED <<ca, tlsConfigs, creds>>
    BY <1>2 DEF new, TLS!ReadCertificate
  <2>3. TLS!TypeOK'
    BY <2>1, <2>2 DEF TLSInv, TLS!TypeOK, CallOfTLS
  <2>4. ca \in Int /\ \A u \in Threads : TLS!Doing(u, "set") => tls[u].ca \in Int
    BY RotationsAssumption DEF TLSInv, TLS!TypeOK, TLS!Generations
  <2>5. \A u \in Threads : tls'[u].pc \in {"set", "get"} => NotBefore(u)'
    <3> SUFFICES ASSUME NEW u \in Threads, tls'[u].pc \in {"set", "get"} PROVE NotBefore(u)'
      OBVIOUS
    <3>1. CASE u = t
      BY <1>0, <2>1, <2>2, <2>4, <3>1 DEF TLSInv, NotBefore, TLS!TypeOK, TLS!Doing
    <3>2. CASE u # t
      BY <2>1, <2>2, <3>2 DEF TLSInv, NotBefore, TLS!TypeOK, TLS!Doing
    <3> QED
      BY <3>1, <3>2
  <2>6. /\ \A u \in Threads : TLS!Doing(u, "set")' => tls'[u].ca \in TLS!Generations
        /\ TLS!CredentialsFound'
        /\ \A u \in Threads : TLS!Doing(u, "built")' => TLS!Doing(u, "built") /\ tls'[u] = tls[u]
    BY <2>1, <2>2 DEF TLSInv, TLS!TypeOK, TLS!Doing, TLS!CredentialsFound
  <2> QED
    BY <2>2, <2>3, <2>5, <2>6 DEF TLSInv, TLS!Generations
<1> QED
  BY <1>1, <1>2 DEF TLS!ReadCertificate

\* SetServiceConfig stores what the build has read, which is not older than what other
\* builds of the service wait for.
LEMMA SetKeeps ==
  ASSUME TLSInv, NEW t \in Threads, TLS!SetServiceConfig(t)
  PROVE  TLSInv'
<1>1. CASE TLS!Reject(t) /\ UNCHANGED ca
  BY <1>1 DEF TLSInv, NotBefore, TLS!TypeOK, TLS!Reject, TLS!NoTLS, TLS!Doing,
              TLS!CredentialsFound
<1>2. CASE /\ tlsConfigs' = [tlsConfigs EXCEPT ![tls[t].svc] = tls[t].ca]
           /\ creds' = [creds EXCEPT ![tls[t].svc] = tls[t].ca]
           /\ tls' = [tls EXCEPT ![t].pc = "get"]
           /\ UNCHANGED ca
  <2>1. /\ tls[t].svc \in Services /\ tls[t].ca \in TLS!Generations /\ tls[t].ca # None
        /\ TLS!Doing(t, "set")
    BY NoneAssumption, <1>2 DEF TLSInv, NotBefore, TLS!Doing, TLS!SetServiceConfig, TLS!Generations
  <2>2. TLS!TypeOK'
    <3>1. [tls[t] EXCEPT !.pc = "get"] \in CallOfTLS
      BY DEF TLSInv, TLS!TypeOK, CallOfTLS
    <3>2. tls' = [tls EXCEPT ![t] = [tls[t] EXCEPT !.pc = "get"]]
      BY <1>2
    <3>3. tls \in [Threads -> CallOfTLS]
      BY DEF TLSInv, TLS!TypeOK, CallOfTLS
    <3>4. tls' \in [Threads -> CallOfTLS]
      BY <3>1, <3>2, <3>3
    <3>5. tlsConfigs' \in [Services -> TLS!Generations \cup {None}]
          /\ creds' \in [Services -> TLS!Generations \cup {None}] /\ ca' \in TLS!Generations
      BY <1>2, <2>1 DEF TLSInv, TLS!TypeOK
    <3> QED
      BY <3>4, <3>5 DEF TLS!TypeOK, TLS!Generations, CallOfTLS
  <2>3. \A u \in Threads : tls'[u].pc \in {"set", "get"} => NotBefore(u)'
    <3> SUFFICES ASSUME NEW u \in Threads, tls'[u].pc \in {"set", "get"} PROVE NotBefore(u)'
      OBVIOUS
    <3>1. \A v \in Threads :
            /\ tls'[v].svc = tls[v].svc /\ tls'[v].ca = tls[v].ca
            /\ tls'[v].oldest = tls[v].oldest /\ tls'[v].snapshot = tls[v].snapshot
            /\ tls'[v].dropped = tls[v].dropped
            /\ tls'[v].pc = IF v = t THEN "get" ELSE tls[v].pc
      BY <1>2 DEF TLSInv, TLS!TypeOK
    <3>2. /\ NotBefore(u) /\ ca' = ca /\ creds \in [Services -> TLS!Generations \cup {None}]
          /\ creds' = [creds EXCEPT ![tls[t].svc] = tls[t].ca]
      BY <1>2, <2>1, <3>1 DEF TLSInv, TLS!Doing, TLS!TypeOK
    <3> QED
      BY <2>1, <3>1, <3>2 DEF NotBefore, TLS!Doing, TLS!Generations
  <2>4. /\ \A u \in Threads : TLS!Doing(u, "set")' => tls'[u].ca \in TLS!Generations
        /\ TLS!CredentialsFound'
        /\ \A u \in Threads : TLS!Doing(u, "built")' => TLS!Doing(u, "built") /\ tls'[u] = tls[u]
    BY <1>2, <2>1 DEF TLSInv, TLS!TypeOK, TLS!Doing, TLS!CredentialsFound
  <2> QED
    BY <1>2, <2>2, <2>3, <2>4 DEF TLSInv, TLS!Generations
<1> QED
  BY <1>1, <1>2 DEF TLS!SetServiceConfig

\* GetCredentials finds something, unless it was dropped, and nothing too old.
LEMMA GetKeeps ==
  ASSUME TLSInv, NEW t \in Threads, TLS!GetCredentials(t)
  PROVE  TLSInv'
<1> DEFINE l == IF creds[tls[t].svc] = None THEN "missing" ELSE "built"
<1>1. /\ tls' = [tls EXCEPT ![t].pc = l, ![t].got = creds[tls[t].svc]]
      /\ UNCHANGED <<ca, tlsConfigs, creds>> /\ TLS!Doing(t, "get") /\ NotBefore(t)
  BY DEF TLS!GetCredentials, TLSInv, TLS!Doing
<1>2. /\ l \in {"missing", "built"} /\ (l = "missing" <=> creds[tls[t].svc] = None)
      /\ creds[tls[t].svc] \in TLS!Generations \cup {None}
  BY <1>1 DEF NotBefore, TLSInv, TLS!TypeOK
<1> HIDE DEF l
<1>3. TLS!TypeOK'
  <2>1. [tls[t] EXCEPT !.pc = l, !.got = creds[tls[t].svc]] \in CallOfTLS
    BY <1>2 DEF TLSInv, TLS!TypeOK, CallOfTLS
  <2>2. tls' = [tls EXCEPT ![t] = [tls[t] EXCEPT !.pc = l, !.got = creds[tls[t].svc]]]
    BY <1>1
  <2>3. tls' \in [Threads -> CallOfTLS]
    BY <2>1, <2>2 DEF TLSInv, TLS!TypeOK, CallOfTLS
  <2> QED
    BY <1>1, <2>3 DEF TLSInv, TLS!TypeOK, TLS!Generations, CallOfTLS
<1>4. \A u \in Threads : tls'[u].pc \in {"set", "get"} => NotBefore(u)'
  BY <1>1, <1>2 DEF TLSInv, NotBefore, TLS!TypeOK, TLS!Doing, TLS!Generations
<1>5. /\ \A u \in Threads : TLS!Doing(u, "set")' => tls'[u].ca \in TLS!Generations
      /\ TLS!CredentialsFound'
  BY <1>1, <1>2 DEF TLSInv, NotBefore, TLS!TypeOK, TLS!Doing, TLS!CredentialsFound
<1>6. \A u \in Threads : TLS!Doing(u, "built")' =>
        /\ tls'[u].oldest \in TLS!Generations /\ tls'[u].got \in TLS!Generations
        /\ tls'[u].oldest <= tls'[u].got
  <2> SUFFICES ASSUME NEW u \in Threads, TLS!Doing(u, "built")'
               PROVE  /\ tls'[u].oldest \in TLS!Generations /\ tls'[u].got \in TLS!Generations
                      /\ tls'[u].oldest <= tls'[u].got
    OBVIOUS
  <2>1. CASE u = t
    BY <1>1, <1>2, <2>1 DEF TLSInv, NotBefore, TLS!TypeOK, TLS!Doing
  <2>2. CASE u # t
    BY <1>1, <2>2 DEF TLSInv, TLS!TypeOK, TLS!Doing
  <2> QED
    BY <2>1, <2>2
<1> QED
  BY <1>1, <1>3, <1>4, <1>5, <1>6 DEF TLSInv, TLS!Generations

\* The end of a build forgets only what is its own.
LEMMA EndKeeps ==
  ASSUME TLSInv, NEW t \in Threads, TLS!EndTLS(t)
  PROVE  TLSInv'
  BY DEF TLSInv, NotBefore, TLS!TypeOK, TLS!EndTLS, TLS!NoTLS, TLS!Doing, TLS!CredentialsFound

\* A refresh begins: builds in flight may from now on get what it has read.
LEMMA SnapshotKeeps ==
  ASSUME TLSInv, NEW t \in Threads, TLS!Snapshot(t)
  PROVE  TLSInv'
<1> DEFINE Known(s) == tlsConfigs[s] # None
           Aged(u) == IF \E s \in Services : TLS!Building(u, s) /\ Known(s)
                      THEN [tls[u] EXCEPT !.oldest = TLS!Least({@, tlsConfigs[tls[u].svc]})]
                      ELSE tls[u]
           new == [TLS!NoTLS EXCEPT !.pc = "refresh", !.snapshot = tlsConfigs]
<1>1. /\ new \in CallOfTLS /\ new.pc = "refresh" /\ new.snapshot = tlsConfigs
  BY DEF TLSInv, TLS!TypeOK, TLS!NoTLS, CallOfTLS
<1>2. /\ tls' = [u \in Threads |-> IF u = t THEN new ELSE Aged(u)]
      /\ UNCHANGED <<ca, tlsConfigs, creds>> /\ TLS!Doing(t, "idle")
  BY DEF TLS!Snapshot
\* Only the oldest generation of the builds changes, and only downwards.
<1>3. ASSUME NEW u \in Threads
      PROVE  /\ Aged(u) \in CallOfTLS
             /\ Aged(u).pc = tls[u].pc /\ Aged(u).svc = tls[u].svc /\ Aged(u).ca = tls[u].ca
             /\ Aged(u).snapshot = tls[u].snapshot /\ Aged(u).dropped = tls[u].dropped
             /\ Aged(u).got = tls[u].got
             /\ tls[u].pc \notin {"set", "get"} => Aged(u) = tls[u]
             /\ tls[u].pc \in {"set", "get"} =>
                  /\ Aged(u).oldest \in TLS!Generations /\ Aged(u).oldest <= tls[u].oldest
                  /\ Known(tls[u].svc) => Aged(u).oldest <= tlsConfigs[tls[u].svc]
  <2>1. CASE \E s \in Services : TLS!Building(u, s) /\ Known(s)
    <3> DEFINE S == {tls[u].oldest, tlsConfigs[tls[u].svc]}
    <3>1. /\ tls[u].pc \in {"set", "get"} /\ tls[u] \in CallOfTLS
          /\ tls[u].oldest \in TLS!Generations /\ tlsConfigs[tls[u].svc] \in TLS!Generations
      BY <2>1 DEF TLSInv, NotBefore, TLS!TypeOK, TLS!Building, CallOfTLS
    <3>2. S \in SUBSET Nat /\ S # {}
      BY <3>1 DEF TLS!Generations
    <3>3. /\ TLS!Least(S) \in TLS!Generations /\ TLS!Least(S) <= tls[u].oldest
          /\ TLS!Least(S) <= tlsConfigs[tls[u].svc]
      BY <3>1, <3>2, LeastIsLeast
    <3>4. Aged(u) = [tls[u] EXCEPT !.oldest = TLS!Least(S)]
      BY <2>1
    <3> HIDE DEF S, Aged
    <3> QED
      BY <3>1, <3>3, <3>4 DEF CallOfTLS
  <2>2. CASE ~\E s \in Services : TLS!Building(u, s) /\ Known(s)
    BY <2>2, RotationsAssumption
    DEF TLSInv, NotBefore, TLS!TypeOK, TLS!Building, TLS!Generations, CallOfTLS
  <2> QED
    BY <2>1, <2>2
<1> HIDE DEF new, Aged
<1>4. TLS!TypeOK'
  BY <1>1, <1>2, <1>3 DEF TLSInv, TLS!TypeOK, TLS!Generations, CallOfTLS
<1>5. \A u \in Threads : tls'[u].pc \in {"set", "get"} => NotBefore(u)'
  <2> SUFFICES ASSUME NEW u \in Threads, tls'[u].pc \in {"set", "get"} PROVE NotBefore(u)'
    OBVIOUS
  <2>1. u # t /\ tls[u].pc \in {"set", "get"} /\ NotBefore(u)
    BY <1>1, <1>2, <1>3 DEF TLSInv
  <2>2. /\ tls'[u].svc = tls[u].svc /\ tls'[u].pc = tls[u].pc
        /\ tls'[u].dropped = tls[u].dropped
        /\ tls'[u].oldest \in TLS!Generations /\ tls'[u].oldest <= tls[u].oldest
        /\ Known(tls[u].svc) => tls'[u].oldest <= tlsConfigs[tls[u].svc]
    BY <1>2, <1>3, <2>1
  <2>3. /\ ca \in Int /\ tls[u].oldest \in Int /\ tls'[u].oldest \in Int
        /\ \A s \in Services : creds[s] # None => creds[s] \in Int
        /\ \A v \in Threads : TLS!Doing(v, "set") => tls[v].ca \in Int
        /\ \A v \in Threads, s \in Services :
              tls[v].snapshot[s] # None => tls[v].snapshot[s] \in Int
    BY <2>1, <2>2 DEF TLSInv, NotBefore, TLS!TypeOK, TLS!Generations
  <2>4. \A v \in Threads :
          /\ v # t => /\ tls'[v].pc = tls[v].pc /\ tls'[v].svc = tls[v].svc
                      /\ tls'[v].ca = tls[v].ca /\ tls'[v].snapshot = tls[v].snapshot
          /\ v = t => tls'[v].pc = "refresh" /\ tls'[v].snapshot = tlsConfigs
    BY <1>1, <1>2, <1>3
  <2>5. \A v \in Threads :
          /\ TLS!Doing(v, "set")' /\ tls'[v].svc = tls'[u].svc => tls'[u].oldest <= tls'[v].ca
          /\ TLS!Doing(v, "refresh")' /\ tls'[v].snapshot[tls'[u].svc] # None
                => tls'[u].oldest <= tls'[v].snapshot[tls'[u].svc]
    BY <2>1, <2>2, <2>3, <2>4 DEF NotBefore, TLS!Doing
  <2> QED
    BY <1>2, <2>1, <2>2, <2>3, <2>5 DEF NotBefore, TLS!Doing, TLS!Generations
<1>6. /\ \A u \in Threads : TLS!Doing(u, "set")' => tls'[u].ca \in TLS!Generations
      /\ TLS!CredentialsFound'
      /\ \A u \in Threads : TLS!Doing(u, "built")' => TLS!Doing(u, "built") /\ tls'[u] = tls[u]
  BY <1>1, <1>2, <1>3 DEF TLSInv, TLS!Doing, TLS!CredentialsFound
<1> QED
  BY <1>2, <1>4, <1>5, <1>6 DEF TLSInv, TLS!Generations

\* A refresh stores what it read: no build that overlaps with it counted on newer.
LEMMA WriteBackKeeps ==
  ASSUME TLSInv, NEW t \in Threads, TLS!WriteBack(t)
  PROVE  TLSInv'
<1>1. PICK failed \in SUBSET Services :
        creds' = [s \in Services |-> IF tls[t].snapshot[s] = None \/ s \in failed
                                        THEN creds[s] ELSE tls[t].snapshot[s]]
  BY DEF TLS!WriteBack
<1>2. tls' = [tls EXCEPT ![t] = TLS!NoTLS] /\ UNCHANGED <<ca, tlsConfigs>> /\ TLS!Doing(t, "refresh")
  BY DEF TLS!WriteBack
<1>3. TLS!TypeOK'
  BY <1>1, <1>2 DEF TLSInv, TLS!TypeOK, TLS!NoTLS, TLS!Generations
<1>4. \A u \in Threads : tls'[u].pc \in {"set", "get"} => NotBefore(u)'
  BY <1>1, <1>2 DEF TLSInv, NotBefore, TLS!TypeOK, TLS!NoTLS, TLS!Doing, TLS!Generations
<1>5. /\ \A u \in Threads : TLS!Doing(u, "set")' => tls'[u].ca \in TLS!Generations
      /\ TLS!CredentialsFound'
      /\ \A u \in Threads : TLS!Doing(u, "built")' => TLS!Doing(u, "built") /\ tls'[u] = tls[u]
  BY <1>2 DEF TLSInv, TLS!TypeOK, TLS!NoTLS, TLS!Doing, TLS!CredentialsFound
<1> QED
  BY <1>2, <1>3, <1>4, <1>5 DEF TLSInv, TLS!Generations

\* A removal leaves its mark on the builds that will not find their credentials.
LEMMA DropKeeps ==
  ASSUME TLSInv, NEW S \in SUBSET Services, TLS!Drop(S)
  PROVE  TLSInv'
<1>1. TLS!TypeOK'
  <2> DEFINE Mark(u) == IF tls[u].svc \in S /\ tls[u].pc \in {"set", "get"}
                           THEN [tls[u] EXCEPT !.dropped = TRUE] ELSE tls[u]
  <2>1. \A u \in Threads : Mark(u) \in CallOfTLS
    BY DEF TLSInv, TLS!TypeOK, CallOfTLS
  <2>2. tls' = [u \in Threads |-> Mark(u)]
    BY DEF TLS!Drop
  <2> HIDE DEF Mark
  <2>3. tls' \in [Threads -> CallOfTLS]
    BY <2>1, <2>2
  <2>4. tlsConfigs' \in [Services -> TLS!Generations \cup {None}]
        /\ creds' \in [Services -> TLS!Generations \cup {None}] /\ ca' \in TLS!Generations
    BY DEF TLSInv, TLS!TypeOK, TLS!Drop
  <2> QED
    BY <2>3, <2>4 DEF TLS!TypeOK, TLS!Generations, CallOfTLS
<1>2. \A u \in Threads :
        /\ tls'[u].pc = tls[u].pc /\ tls'[u].svc = tls[u].svc /\ tls'[u].ca = tls[u].ca
        /\ tls'[u].snapshot = tls[u].snapshot /\ tls'[u].oldest = tls[u].oldest
        /\ tls'[u].got = tls[u].got
        /\ tls'[u].dropped = (tls[u].dropped \/ (tls[u].svc \in S /\ tls[u].pc \in {"set", "get"}))
  BY DEF TLSInv, TLS!TypeOK, TLS!Drop
<1>3. \A u \in Threads : tls'[u].pc \in {"set", "get"} => NotBefore(u)'
  BY <1>2 DEF TLSInv, NotBefore, TLS!TypeOK, TLS!Drop, TLS!Doing, TLS!Generations
<1>4. /\ \A u \in Threads : TLS!Doing(u, "set")' => tls'[u].ca \in TLS!Generations
      /\ TLS!CredentialsFound'
      /\ \A u \in Threads : TLS!Doing(u, "built")' =>
            /\ tls'[u].oldest \in TLS!Generations /\ tls'[u].got \in TLS!Generations
            /\ tls'[u].oldest <= tls'[u].got
  BY <1>2 DEF TLSInv, TLS!Doing, TLS!CredentialsFound, TLS!Generations
<1> QED
  BY <1>1, <1>3, <1>4 DEF TLSInv, TLS!Generations

\* A new certificate concerns the builds that begin after it.
LEMMA RotateKeeps == TLSInv /\ TLS!Rotate => TLSInv'
  BY RotationsAssumption
  DEF TLSInv, NotBefore, TLS!TypeOK, TLS!Rotate, TLS!Doing, TLS!Generations, TLS!CredentialsFound

LEMMA TLSStep == TLSInv /\ [TLSNext]_tlsVars => TLSInv'
<1> SUFFICES ASSUME TLSInv, [TLSNext]_tlsVars PROVE TLSInv'
  OBVIOUS
<1>1. ASSUME NEW t \in Threads, TLS!BuildStep(t) PROVE TLSInv'
  BY <1>1, SetKeeps, GetKeeps DEF TLS!BuildStep
<1>2. ASSUME NEW s \in Services, TLS!RemoveService(s) PROVE TLSInv'
  <2>1. {s} \in SUBSET Services /\ TLS!Drop({s})
    BY <1>2 DEF TLS!RemoveService
  <2> QED
    BY <2>1, DropKeeps
<1>3. ASSUME TLS!Close PROVE TLSInv'
  BY <1>3, DropKeeps DEF TLS!Close
<1>4. CASE UNCHANGED tlsVars
  BY <1>4 DEF tlsVars, TLSInv, NotBefore, TLS!TypeOK, TLS!Doing, TLS!CredentialsFound,
              TLS!Generations
<1> QED
  BY <1>1, <1>2, <1>3, <1>4, ReadKeeps, EndKeeps, SnapshotKeeps, WriteBackKeeps, RotateKeeps
  DEF TLSNext

-----------------------------------------------------------------------------
(* The steps of the load balancer *)

LBNext ==
    \/ \E r \in Registries : SetDiscovery(r)
    \/ \E t \in Threads, s \in Services : \E f : At(t, "idle") /\ f # None /\ ConfigureService(s, f)
    \/ Close \/ \E s \in Services : RemoveService(s)
    \/ \E r \in Registries, s \in Services, S \in Instances : Register(r, s, S)
    \/ \E t \in Threads : SelectNode(t) \/ EndSelect(t) \/ \E s \in Services : StartSelect(t, s)

CallType == [pc : {"idle", "fallback", "discovery", "instances", "filter", "apply", "select",
                   "selected"} \cup Failures,
             svc : Services \cup {None}, sel : Selectors \cup {None},
             reg : Registries \cup {None}, seen : SUBSET Nodes, nodes : SUBSET Nodes,
             node : Nodes \cup {None}]

\* Who refers to which selector: calls of one service only, and that service.
RefsOK ==
    /\ call \in [Threads -> CallType]
    /\ \A t \in Threads :
          /\ ~At(t, "idle") => call[t].svc \in Services
          /\ call[t].pc \in {"discovery", "instances", "filter", "apply", "select"}
                <=> call[t].sel # None
          /\ At(t, "instances") => call[t].reg \in Registries
    /\ \A t, u \in Threads : call[t].sel = call[u].sel /\ call[t].sel # None
                                => call[t].svc = call[u].svc
    /\ \A t \in Threads, s \in Services : selectors[s] = call[t].sel /\ call[t].sel # None
                                => call[t].svc = s
    /\ \A s, r \in Services : selectors[s] = selectors[r] /\ selectors[s] # None => s = r

\* The nodes S are what a filter in force for s leaves of the nodes seen.
Filtered(s, seen, S) == \E f \in asked[s] : S = Keep(f, seen)

\* What is on its way through a filter, and what a selector in use was applied to.
NodesOK ==
    /\ \A s \in Services : FilterOf(s) \in asked[s]
    /\ \A t \in Threads :
          /\ At(t, "apply") => call[t].nodes # {} /\ Filtered(call[t].svc, call[t].seen, call[t].nodes)
          /\ At(t, "select") => applied[call[t].sel].nodes # {}
          /\ call[t].sel # None /\ applied[call[t].sel].nodes # {} =>
                Filtered(call[t].svc, applied[call[t].sel].seen, applied[call[t].sel].nodes)
    /\ \A x \in Selectors : ~InUse(x) => applied[x].nodes = {}

LBInv == LBTypeOK /\ RefsOK /\ NodesOK /\ NodeAskedFor /\ NeverStarved

\* SelectorsAssumption leaves a selector for a call that has none.
LEMMA FreshSelector ==
  ASSUME LBTypeOK, RefsOK, NEW t \in Threads, call[t].sel = None
  PROVE  /\ Fresh \in Selectors /\ ~InUse(Fresh) /\ Fresh # None
         /\ \A s \in Services : selectors[s] # Fresh
<1> DEFINE f == [u \in Threads |-> call[u].sel]
<1>1. f \in [Threads -> Selectors \cup {None}] /\ f[t] = None
  BY DEF RefsOK, CallType
<1>2. selectors \in [Services -> Selectors \cup {None}]
  BY DEF LBTypeOK
<1>3. PICK x \in Selectors : /\ \A u \in Threads : f[u] # x
                             /\ \A s \in Services : selectors[s] # x
  BY <1>1, <1>2, SelectorsAssumption
<1>4. ~InUse(x)
  BY <1>3 DEF InUse
<1>5. \E y \in Selectors : ~InUse(y) /\ \A s \in Services : selectors[s] # y
  BY <1>3, <1>4
<1>6. Fresh \in Selectors /\ ~InUse(Fresh) /\ \A s \in Services : selectors[s] # Fresh
  BY <1>5 DEF Fresh
<1> QED
  BY <1>6, NoneAssumption

\* Nothing is configured at first and no call runs.
LEMMA LBInitOK == LBInit => LBInv
<1> SUFFICES ASSUME LBInit PROVE LBInv
  OBVIOUS
<1>1. /\ NoCall \in CallType /\ NoCall.pc = "idle" /\ NoCall.sel = None /\ NoCall.node = None
      /\ call = [t \in Threads |-> NoCall]
  BY DEF NoCall, CallType, LBInit
<1>2. LBTypeOK
  BY <1>1, NoneAssumption DEF LBInit, LBTypeOK, Unapplied
<1>3. RefsOK
  BY <1>1 DEF LBInit, RefsOK, At
<1>4. NodesOK
  BY <1>1 DEF LBInit, NodesOK, At, FilterOf, Unapplied
<1>5. NodeAskedFor /\ NeverStarved
  BY <1>1 DEF NodeAskedFor, NeverStarved, At
<1> QED
  BY <1>2, <1>3, <1>4, <1>5 DEF LBInv

\* One call moves on; what it refers to it referred to before, or its service does.
LEMMA CallMoves ==
  ASSUME LBInv, NEW t \in Threads, NEW new \in CallType,
         call' = [call EXCEPT ![t] = new], UNCHANGED <<discovery, selectors, configs, registered, asked>>,
         new.pc # "idle" => new.svc \in Services,
         new.pc \in {"discovery", "instances", "filter", "apply", "select"} <=> new.sel # None,
         new.pc = "instances" => new.reg \in Registries,
         \/ new.sel = None
         \/ new.sel = call[t].sel /\ new.svc = call[t].svc
         \/ new.sel = selectors[new.svc] /\ new.svc \in Services,
         \/ applied' = applied /\ (new.sel = call[t].sel \/ call[t].sel = None)
         \/ Collect(applied),
         new.pc = "apply" => new.nodes # {} /\ Filtered(new.svc, new.seen, new.nodes),
         new.pc \notin {"select", "no selection"},
         new.pc = "selected" => \E f \in asked[new.svc] : new.node \in Keep(f, new.seen)
  PROVE  LBInv'
<1>0. LBTypeOK /\ RefsOK /\ NodesOK /\ NodeAskedFor /\ NeverStarved
  BY DEF LBInv
<1>1. \A u \in Threads : call'[u] = IF u = t THEN new ELSE call[u]
  BY <1>0 DEF RefsOK
<1>2. new.sel # None =>
        /\ \A u \in Threads : call[u].sel = new.sel => call[u].svc = new.svc
        /\ \A s \in Services : selectors[s] = new.sel => new.svc = s
  <2>1. CASE new.sel = call[t].sel /\ new.svc = call[t].svc
    BY <1>0, <2>1 DEF RefsOK
  <2>2. CASE new.sel = selectors[new.svc] /\ new.svc \in Services
    BY <1>0, <2>2 DEF RefsOK
  <2> QED
    BY <2>1, <2>2
<1>3. RefsOK'
  <2>1. call' \in [Threads -> CallType]
    BY DEF LBInv, RefsOK
  <2>3. /\ \A u, v \in Threads : call'[u].sel = call'[v].sel /\ call'[u].sel # None
                                => call'[u].svc = call'[v].svc
        /\ \A u \in Threads, s \in Services : selectors[s] = call'[u].sel /\ call'[u].sel # None
                                => call'[u].svc = s
    BY <1>0, <1>1, <1>2 DEF RefsOK
  <2>4. \A u \in Threads :
          /\ ~At(u, "idle")' => call'[u].svc \in Services
          /\ call'[u].pc \in {"discovery", "instances", "filter", "apply", "select"}
                <=> call'[u].sel # None
          /\ At(u, "instances")' => call'[u].reg \in Registries
    BY <1>0, <1>1 DEF RefsOK, At
  <2>5. \A s, r \in Services : selectors'[s] = selectors'[r] /\ selectors'[s] # None => s = r
    BY <1>0 DEF RefsOK
  <2> QED
    BY <2>1, <2>3, <2>4, <2>5 DEF RefsOK, CallType, Failures
<1>4. \A x \in Selectors : applied'[x].nodes # {} => InUse(x)' /\ applied'[x] = applied[x]
  <2>1. CASE applied' = applied /\ (new.sel = call[t].sel \/ call[t].sel = None)
    <3>1. \A x \in Selectors : InUse(x) => InUse(x)'
      BY <1>1, <2>1, NoneAssumption DEF InUse
    <3> QED
      BY <1>0, <2>1, <3>1 DEF NodesOK
  <2>2. CASE Collect(applied)
    BY <2>2 DEF Collect, Unapplied
  <2> QED
    BY <2>1, <2>2
<1>5. \A u \in Threads : call'[u].sel # None => call'[u].sel \in Selectors
  BY <1>3 DEF RefsOK, CallType
<1>6. \A u \in Threads : At(u, "select")' =>
        At(u, "select") /\ call'[u] = call[u] /\ applied'[call[u].sel] = applied[call[u].sel]
  <2> SUFFICES ASSUME NEW u \in Threads, At(u, "select")'
               PROVE  At(u, "select") /\ call'[u] = call[u]
                        /\ applied'[call[u].sel] = applied[call[u].sel]
    OBVIOUS
  <2>1. u # t /\ call'[u] = call[u] /\ At(u, "select") /\ call[u].sel \in Selectors
    BY <1>1, <1>5 DEF At, LBInv, RefsOK
  <2>2. InUse(call[u].sel)'
    BY <2>1 DEF InUse
  <2> QED
    BY <2>1, <2>2 DEF Collect
<1>7. ASSUME NEW u \in Threads, call'[u].sel # None, applied'[call'[u].sel].nodes # {}
      PROVE  Filtered(call'[u].svc, applied[call'[u].sel].seen, applied[call'[u].sel].nodes)
               /\ applied'[call'[u].sel] = applied[call'[u].sel]
  <2> DEFINE x == call'[u].sel
  <2>1. x \in Selectors /\ applied'[x] = applied[x] /\ applied[x].nodes # {}
    BY <1>4, <1>5, <1>7
  <2>2. PICK v \in Threads : call[v].sel = x
    BY <2>1 DEF LBInv, NodesOK, InUse
  <2>3. Filtered(call[v].svc, applied[x].seen, applied[x].nodes)
    BY <1>7, <2>1, <2>2 DEF LBInv, NodesOK
  <2>4. call[v].svc = call'[u].svc
    <3>1. CASE u # t
      BY <1>0, <1>1, <1>7, <2>2, <3>1 DEF RefsOK
    <3>2. CASE u = t
      BY <1>1, <1>7, <1>2, <2>2, <3>2
    <3> QED
      BY <3>1, <3>2
  <2> QED
    BY <2>1, <2>3, <2>4
<1>8. NodesOK'
  <2>0. \A u \in Threads :
          /\ At(u, "apply") =>
                call[u].nodes # {} /\ Filtered(call[u].svc, call[u].seen, call[u].nodes)
          /\ At(u, "select") => applied[call[u].sel].nodes # {}
    BY <1>0 DEF NodesOK
  <2>1. \A u \in Threads : At(u, "apply")' =>
          call'[u].nodes # {} /\ Filtered(call'[u].svc, call'[u].seen, call'[u].nodes)
    <3> SUFFICES ASSUME NEW u \in Threads, At(u, "apply")'
                 PROVE  /\ call'[u].nodes # {}
                        /\ Filtered(call'[u].svc, call'[u].seen, call'[u].nodes)
      OBVIOUS
    <3>1. CASE u = t
      BY <1>1, <3>1 DEF At
    <3>2. CASE u # t
      BY <1>1, <2>0, <3>2 DEF At
    <3> QED
      BY <3>1, <3>2
  <2>2. \A u \in Threads : At(u, "select")' => applied'[call'[u].sel].nodes # {}
    <3> SUFFICES ASSUME NEW u \in Threads, At(u, "select")'
                 PROVE  applied'[call'[u].sel].nodes # {}
      OBVIOUS
    <3>1. call'[u] = call[u] /\ At(u, "select") /\ applied'[call[u].sel] = applied[call[u].sel]
      BY <1>6
    <3>2. applied[call[u].sel].nodes # {}
      BY <2>0, <3>1
    <3> QED
      BY <3>1, <3>2
  <2>3. \A s \in Services : FilterOf(s)' \in asked'[s]
    BY <1>0 DEF NodesOK, FilterOf
  <2>4. \A u \in Threads : At(u, "apply")' =>
          Filtered(call[u].svc, call[u].seen, call[u].nodes)'
    BY <2>1 DEF Filtered
  <2>5. \A u \in Threads : call'[u].sel # None /\ applied'[call'[u].sel].nodes # {} =>
          Filtered(call[u].svc, applied[call[u].sel].seen, applied[call[u].sel].nodes)'
    BY <1>7 DEF Filtered
  <2> QED
    BY <1>4, <2>1, <2>2, <2>3, <2>4, <2>5 DEF NodesOK
<1>9. NodeAskedFor' /\ NeverStarved'
  BY <1>1 DEF LBInv, NodeAskedFor, NeverStarved, At
<1>10. LBTypeOK'
  <2>1. applied' \in [Selectors -> [seen : SUBSET Nodes, nodes : SUBSET Nodes]]
    <3>1. CASE applied' = applied
      BY <1>0, <3>1 DEF LBTypeOK
    <3>2. CASE Collect(applied)
      BY <1>0, <3>2 DEF LBTypeOK, Collect, Unapplied
    <3> QED
      BY <3>1, <3>2
  <2>2. new.node \in Nodes \cup {None}
    BY DEF CallType
  <2> QED
    BY <1>0, <1>1, <2>1, <2>2 DEF LBTypeOK
<1> QED
  BY <1>3, <1>8, <1>9, <1>10 DEF LBInv

\* A new selector and a new filter for s, by a configuration or by the fallback of t.
LEMMA Installs ==
  ASSUME LBInv, NEW t \in Threads, NEW s \in Services, NEW f, f # None,
         call[t].sel = None,
         selectors' = [selectors EXCEPT ![s] = Fresh],
         configs' = [configs EXCEPT ![s] = f],
         Note({s}, f), Collect(NewSelector(Fresh)), UNCHANGED <<discovery, registered>>,
         \/ UNCHANGED call
         \/ /\ At(t, "fallback") /\ call[t].svc = s
            /\ call' = [call EXCEPT ![t] = [call[t] EXCEPT !.pc = "discovery", !.sel = Fresh]]
  PROVE  LBInv'
<1>0. LBTypeOK /\ RefsOK /\ NodesOK /\ NodeAskedFor /\ NeverStarved
  BY DEF LBInv
<1>1. /\ Fresh \in Selectors /\ ~InUse(Fresh) /\ Fresh # None
      /\ \A r \in Services : selectors[r] # Fresh
  BY <1>0, FreshSelector
<1> DEFINE x0 == Fresh
<1>2. /\ x0 \in Selectors /\ ~InUse(x0) /\ x0 # None /\ \A r \in Services : selectors[r] # x0
      /\ selectors' = [selectors EXCEPT ![s] = x0]
      /\ \A u \in Threads : call[u].sel # x0
  BY <1>1 DEF InUse
<1>3. \/ call' = call
      \/ /\ At(t, "fallback") /\ call[t].svc = s
         /\ call' = [call EXCEPT ![t] = [call[t] EXCEPT !.pc = "discovery", !.sel = x0]]
  OBVIOUS
<1>4. \A x \in Selectors : applied'[x] = IF InUse(x)' /\ x # x0 THEN applied[x] ELSE Unapplied
  BY <1>0 DEF Collect, NewSelector, LBTypeOK
<1> HIDE DEF x0
<1> DEFINE new == [call[t] EXCEPT !.pc = "discovery", !.sel = x0]
<1>5. /\ new \in CallType /\ new.pc = "discovery" /\ new.sel = x0 /\ new.svc = call[t].svc
      /\ new.seen = call[t].seen /\ new.nodes = call[t].nodes /\ new.node = call[t].node
      /\ new.reg = call[t].reg
  <2>1. call[t] \in CallType
    BY <1>0 DEF RefsOK
  <2>2. x0 \in Selectors
    BY <1>2
  <2> QED
    BY <2>1, <2>2 DEF CallType
<1>6. call' = call \/ (call[t].pc = "fallback" /\ call[t].svc = s /\ call' = [call EXCEPT ![t] = new])
  BY <1>3 DEF At
<1> HIDE DEF new
<1>7. LBTypeOK'
  <2>1. selectors' \in [Services -> Selectors \cup {None}] /\ discovery' \in Registries \cup {None}
        /\ registered' \in [Registries -> [Services -> Instances]]
    BY <1>0, <1>2 DEF LBTypeOK
  <2>2. DOMAIN configs' = Services /\ DOMAIN asked' = Services
    BY <1>0 DEF LBTypeOK, Note
  <2>3. \A r \in Services : selectors'[r] = None <=> configs'[r] = None
    BY <1>0, <1>2 DEF LBTypeOK
  <2>4. applied' \in [Selectors -> [seen : SUBSET Nodes, nodes : SUBSET Nodes]]
    <3>1. Unapplied \in [seen : SUBSET Nodes, nodes : SUBSET Nodes]
      BY DEF Unapplied
    <3>2. \A x \in Selectors : applied'[x] \in [seen : SUBSET Nodes, nodes : SUBSET Nodes]
      BY <1>0, <1>4, <3>1 DEF LBTypeOK
    <3> QED
      BY <3>2 DEF Collect
  <2>5. DOMAIN call' = Threads /\ \A u \in Threads : call'[u].node \in Nodes \cup {None}
    BY <1>0, <1>5, <1>6 DEF LBTypeOK, RefsOK
  <2> QED
    BY <2>1, <2>2, <2>3, <2>4, <2>5 DEF LBTypeOK
\* Apart from the place and the selector of t the calls are the same.
<1>8. \A u \in Threads :
        /\ call'[u].svc = call[u].svc /\ call'[u].seen = call[u].seen
        /\ call'[u].nodes = call[u].nodes /\ call'[u].node = call[u].node
        /\ call'[u].reg = call[u].reg
        /\ \/ call'[u].pc = call[u].pc /\ call'[u].sel = call[u].sel
           \/ /\ u = t /\ call[u].svc = s /\ call'[u].sel = x0 /\ call'[u].pc = "discovery"
              /\ call[u].pc = "fallback"
  BY <1>0, <1>5, <1>6 DEF RefsOK
<1>9. RefsOK'
  <2>1. call' \in [Threads -> CallType]
    BY <1>0, <1>5, <1>6 DEF RefsOK
  <2>2. \A u \in Threads :
          /\ ~At(u, "idle")' => call'[u].svc \in Services
          /\ call'[u].pc \in {"discovery", "instances", "filter", "apply", "select"}
                <=> call'[u].sel # None
          /\ At(u, "instances")' => call'[u].reg \in Registries
    BY <1>0, <1>2, <1>8 DEF RefsOK, At
  <2>3. \A u, v \in Threads : call'[u].sel = call'[v].sel /\ call'[u].sel # None
                                => call'[u].svc = call'[v].svc
    BY <1>0, <1>2, <1>8 DEF RefsOK
  <2>4. \A r \in Services : selectors'[r] = IF r = s THEN x0 ELSE selectors[r]
    BY <1>0, <1>2 DEF LBTypeOK
  <2>5. \A u \in Threads, r \in Services : selectors'[r] = call'[u].sel /\ call'[u].sel # None
                                => call'[u].svc = r
    BY <1>0, <1>2, <1>8, <2>4 DEF RefsOK
  <2>6. \A q, r \in Services : selectors'[q] = selectors'[r] /\ selectors'[q] # None => q = r
    BY <1>0, <1>2, <2>4 DEF RefsOK
  <2> QED
    BY <2>1, <2>2, <2>3, <2>5, <2>6 DEF RefsOK, CallType, Failures
\* While a call runs no filter is forgotten.
<1>10. ASSUME NEW u \in Threads, ~At(u, "idle"), NEW r \in Services PROVE asked[r] \subseteq asked'[r]
  BY <1>10 DEF Note, Quiet
<1>11. ASSUME NEW u \in Threads, ~At(u, "idle"), NEW seen, NEW S, Filtered(call[u].svc, seen, S)
      PROVE  Filtered(call[u].svc, seen, S)'
  BY <1>0, <1>8, <1>10, <1>11 DEF RefsOK, Filtered
<1>12. ASSUME NEW u \in Threads, call[u].sel # None
       PROVE  /\ call'[u] = call[u] /\ call[u].sel \in Selectors /\ ~At(u, "idle")
              /\ applied'[call[u].sel] = applied[call[u].sel]
  <2>1. call'[u] = call[u]
    BY <1>0, <1>3, <1>12 DEF RefsOK
  <2>2. call[u].sel \in Selectors /\ ~At(u, "idle") /\ call[u].sel # x0
    BY <1>0, <1>2, <1>12 DEF RefsOK, CallType, At
  <2>3. InUse(call[u].sel)'
    BY <2>1 DEF InUse
  <2> QED
    BY <1>4, <2>1, <2>2, <2>3
<1>13. NodesOK'
  <2>1. \A r \in Services : FilterOf(r)' \in asked'[r]
    BY <1>0 DEF NodesOK, LBTypeOK, FilterOf, Note
  <2>2. ASSUME NEW u \in Threads, At(u, "apply")'
        PROVE  call'[u].nodes # {} /\ Filtered(call[u].svc, call[u].seen, call[u].nodes)'
    <3>1. At(u, "apply") /\ call'[u] = call[u] /\ ~At(u, "idle")
      BY <1>0, <1>3, <1>8, <2>2 DEF At, RefsOK
    <3> QED
      BY <1>0, <1>11, <3>1 DEF NodesOK
  <2>3. ASSUME NEW u \in Threads, At(u, "select")' PROVE applied'[call'[u].sel].nodes # {}
    <3>1. At(u, "select") /\ call[u].sel # None
      BY <1>0, <1>8, <2>3 DEF At, RefsOK
    <3>2. applied[call[u].sel].nodes # {}
      BY <1>0, <3>1 DEF NodesOK
    <3> QED
      BY <1>12, <3>1, <3>2
  <2>4. ASSUME NEW u \in Threads, call'[u].sel # None, applied'[call'[u].sel].nodes # {}
        PROVE  Filtered(call[u].svc, applied[call[u].sel].seen, applied[call[u].sel].nodes)'
    <3>1. call[u].sel # None
      BY <1>2, <1>4, <1>8, <2>4 DEF Unapplied
    <3>2. Filtered(call[u].svc, applied[call[u].sel].seen, applied[call[u].sel].nodes)
      BY <1>0, <1>12, <2>4, <3>1 DEF NodesOK
    <3>3. call'[u] = call[u] /\ applied'[call[u].sel] = applied[call[u].sel] /\ ~At(u, "idle")
      BY <1>12, <3>1
    <3>4. Filtered(call[u].svc, applied[call[u].sel].seen, applied[call[u].sel].nodes)
            => \E f0 \in asked'[call[u].svc] :
                  applied[call[u].sel].nodes = Keep(f0, applied[call[u].sel].seen)
      BY <1>0, <1>10, <3>3 DEF Filtered, RefsOK
    <3> QED
      BY <3>2, <3>3, <3>4 DEF Filtered
  <2>5. \A x \in Selectors : ~InUse(x)' => applied'[x].nodes = {}
    BY <1>4 DEF Unapplied
  <2> QED
    BY <2>1, <2>2, <2>3, <2>4, <2>5 DEF NodesOK
<1>14. NodeAskedFor' /\ NeverStarved'
  <2>1. ASSUME NEW u \in Threads, At(u, "selected")'
        PROVE  \E f0 \in asked'[call'[u].svc] : call'[u].node \in Keep(f0, call'[u].seen)
    <3>1. At(u, "selected") /\ ~At(u, "idle") /\ call[u].svc \in Services
      BY <1>0, <1>8, <2>1 DEF At, RefsOK
    <3> QED
      BY <1>0, <1>8, <1>10, <3>1 DEF NodeAskedFor
  <2>2. \A u \in Threads : ~At(u, "no selection")'
    BY <1>0, <1>8 DEF NeverStarved, At
  <2> QED
    BY <2>1, <2>2 DEF NodeAskedFor, NeverStarved
<1> QED
  BY <1>7, <1>9, <1>13, <1>14 DEF LBInv

\* A removed service takes its selector from nobody who already holds it.
LEMMA Forgets ==
  ASSUME LBInv, NEW S \in SUBSET Services, Forget(S)
  PROVE  LBInv'
<1>0. LBTypeOK /\ RefsOK /\ NodesOK /\ NodeAskedFor /\ NeverStarved
  BY DEF LBInv
<1>1. /\ UNCHANGED <<discovery, registered, call>>
      /\ selectors' = [s \in Services |-> IF s \in S THEN None ELSE selectors[s]]
      /\ configs' = [s \in Services |-> IF s \in S THEN None ELSE configs[s]]
      /\ \A x \in Selectors : applied'[x] = IF InUse(x) THEN applied[x] ELSE Unapplied
  BY DEF Forget, Collect, InUse
<1>2. LBTypeOK'
  <2>1. applied' \in [Selectors -> [seen : SUBSET Nodes, nodes : SUBSET Nodes]]
    <3>1. Unapplied \in [seen : SUBSET Nodes, nodes : SUBSET Nodes]
      BY DEF Unapplied
    <3>2. \A x \in Selectors : applied'[x] \in [seen : SUBSET Nodes, nodes : SUBSET Nodes]
      BY <1>0, <1>1, <3>1 DEF LBTypeOK
    <3> QED
      BY <3>2 DEF Forget, Collect
  <2> QED
    BY <1>0, <1>1, <2>1 DEF LBTypeOK, Forget, Note
<1>3. RefsOK'
  BY <1>0, <1>1 DEF RefsOK, At, CallType, Failures
<1>4. \A u \in Threads : ~At(u, "idle") => \A s \in Services : asked[s] \subseteq asked'[s]
  BY DEF Forget, Note, Quiet
<1>5. \A u \in Threads : ~At(u, "idle") => call[u].svc \in Services
  BY <1>0 DEF RefsOK
<1>6. NodesOK'
  <2>1. \A s \in Services : FilterOf(s)' \in asked'[s]
    BY <1>0, <1>1 DEF NodesOK, FilterOf, Forget, Note
  <2>2. \A u \in Threads : At(u, "apply") =>
          call[u].nodes # {} /\ \E f \in asked'[call[u].svc] : call[u].nodes = Keep(f, call[u].seen)
    BY <1>0, <1>4, <1>5 DEF NodesOK, Filtered, At
  <2>3. \A u \in Threads : call[u].sel # None =>
          /\ ~At(u, "idle") /\ call[u].sel \in Selectors
          /\ applied'[call[u].sel] = applied[call[u].sel]
    BY <1>0, <1>1 DEF RefsOK, CallType, At, InUse
  <2>4. \A u \in Threads : At(u, "select") => applied'[call[u].sel].nodes # {}
    BY <1>0, <2>3 DEF NodesOK, RefsOK, At
  <2>5. ASSUME NEW u \in Threads, call[u].sel # None, applied[call[u].sel].nodes # {}
        PROVE  \E f \in asked'[call[u].svc] :
                  applied[call[u].sel].nodes = Keep(f, applied[call[u].sel].seen)
    BY <1>0, <1>4, <1>5, <2>3, <2>5 DEF NodesOK, Filtered
  <2>6. \A x \in Selectors : ~InUse(x) => applied'[x].nodes = {}
    BY <1>1 DEF Unapplied
  <2> QED
    BY <1>1, <2>1, <2>2, <2>3, <2>4, <2>5, <2>6 DEF NodesOK, Filtered, At, InUse
<1>7. NodeAskedFor' /\ NeverStarved'
  BY <1>0, <1>1, <1>4, <1>5 DEF NodeAskedFor, NeverStarved, At
<1> QED
  BY <1>2, <1>3, <1>6, <1>7 DEF LBInv

\* The selector of t is now applied to what t has filtered, whoever else uses it.
LEMMA Applies ==
  ASSUME LBInv, NEW t \in Threads, Apply(t)
  PROVE  LBInv'
<1>0. LBTypeOK /\ RefsOK /\ NodesOK /\ NodeAskedFor /\ NeverStarved
  BY DEF LBInv
<1> DEFINE new == [call[t] EXCEPT !.pc = "select", !.seen = {}, !.nodes = {}]
           list == [seen |-> call[t].seen, nodes |-> call[t].nodes]
<1>1. /\ At(t, "apply") /\ UNCHANGED <<discovery, selectors, configs, registered, asked>>
      /\ call' = [call EXCEPT ![t] = new] /\ applied' = [applied EXCEPT ![call[t].sel] = list]
  BY DEF Apply
<1>2. call[t] \in CallType /\ call[t].sel \in Selectors /\ call[t].svc \in Services
  BY <1>0, <1>1 DEF RefsOK, At, CallType
<1>3. /\ new \in CallType /\ new.pc = "select" /\ new.sel = call[t].sel /\ new.svc = call[t].svc
      /\ new.node = call[t].node
      /\ list \in [seen : SUBSET Nodes, nodes : SUBSET Nodes]
      /\ list.nodes = call[t].nodes /\ list.seen = call[t].seen
  BY <1>2 DEF CallType
<1>4. list.nodes # {} /\ Filtered(call[t].svc, list.seen, list.nodes)
  BY <1>0, <1>1, <1>3 DEF NodesOK
<1> HIDE DEF new, list
<1>5. /\ \A u \in Threads : call'[u] = IF u = t THEN new ELSE call[u]
      /\ \A x \in Selectors : applied'[x] = IF x = call[t].sel THEN list ELSE applied[x]
  BY <1>0, <1>1 DEF RefsOK, LBTypeOK
<1>6. LBTypeOK'
  BY <1>0, <1>1, <1>3, <1>5 DEF LBTypeOK, CallType
<1>7. \A u \in Threads : call'[u].sel = call[u].sel /\ call'[u].svc = call[u].svc
  BY <1>3, <1>5
<1>8. RefsOK'
  <2>1. call' \in [Threads -> CallType]
    BY <1>0, <1>1, <1>3 DEF RefsOK
  <2>2. \A u \in Threads :
          /\ ~At(u, "idle")' => call'[u].svc \in Services
          /\ call'[u].pc \in {"discovery", "instances", "filter", "apply", "select"}
                <=> call'[u].sel # None
          /\ At(u, "instances")' => call'[u].reg \in Registries
    BY <1>0, <1>1, <1>3, <1>5 DEF RefsOK, At
  <2>3. /\ \A u, v \in Threads : call'[u].sel = call'[v].sel /\ call'[u].sel # None
                                => call'[u].svc = call'[v].svc
        /\ \A u \in Threads, s \in Services : selectors'[s] = call'[u].sel /\ call'[u].sel # None
                                => call'[u].svc = s
        /\ \A s, r \in Services : selectors'[s] = selectors'[r] /\ selectors'[s] # None => s = r
    BY <1>0, <1>1, <1>7 DEF RefsOK
  <2> QED
    BY <2>1, <2>2, <2>3 DEF RefsOK, CallType, Failures
<1>9. NodesOK'
  <2>1. \A s \in Services : FilterOf(s)' \in asked'[s]
    BY <1>0, <1>1 DEF NodesOK, FilterOf
  <2>2. \A u \in Threads : At(u, "apply")' =>
          call'[u].nodes # {} /\ \E f \in asked[call'[u].svc] : call'[u].nodes = Keep(f, call'[u].seen)
    BY <1>0, <1>3, <1>5 DEF NodesOK, Filtered, At
  <2>3. ASSUME NEW u \in Threads, call[u].sel # None, call[u].sel = call[t].sel
        PROVE  Filtered(call[u].svc, list.seen, list.nodes)
    BY <1>0, <1>4, <2>3 DEF RefsOK
  <2>4. ASSUME NEW u \in Threads, call[u].sel # None, applied'[call[u].sel].nodes # {}
        PROVE  Filtered(call[u].svc, applied'[call[u].sel].seen, applied'[call[u].sel].nodes)
    <3>1. call[u].sel \in Selectors
      BY <1>0, <2>4 DEF RefsOK, CallType
    <3>2. CASE call[u].sel = call[t].sel
      BY <1>5, <2>3, <2>4, <3>1, <3>2
    <3>3. CASE call[u].sel # call[t].sel
      BY <1>0, <1>5, <2>4, <3>1, <3>3 DEF NodesOK
    <3> QED
      BY <3>2, <3>3
  <2>5. ASSUME NEW u \in Threads, At(u, "select")' PROVE applied'[call'[u].sel].nodes # {}
    <3>1. u = t \/ At(u, "select")
      BY <1>5, <2>5 DEF At
    <3>2. call[u].sel \in Selectors
      BY <1>0, <1>2, <3>1 DEF RefsOK, At, CallType
    <3>3. u # t => applied[call[u].sel].nodes # {}
      BY <1>0, <3>1 DEF NodesOK
    <3> QED
      BY <1>4, <1>5, <1>7, <3>2, <3>3
  <2>6. \A x \in Selectors : ~InUse(x)' => applied'[x].nodes = {}
    BY <1>0, <1>5, <1>7 DEF NodesOK, InUse
  <2>7. \A u \in Threads : call'[u].sel # None /\ applied'[call'[u].sel].nodes # {} =>
          \E f \in asked[call'[u].svc] :
             applied'[call'[u].sel].nodes = Keep(f, applied'[call'[u].sel].seen)
    BY <1>7, <2>4 DEF Filtered
  <2> QED
    BY <1>1, <2>1, <2>2, <2>5, <2>6, <2>7 DEF NodesOK, Filtered
<1>10. NodeAskedFor' /\ NeverStarved'
  <2>1. \A u \in Threads :
          /\ call'[u].pc = "selected" => call[u].pc = "selected" /\ call'[u] = call[u]
          /\ call'[u].pc = "no selection" => call[u].pc = "no selection"
    BY <1>3, <1>5
  <2>2. \A u \in Threads : call[u].pc = "selected" =>
          \E f \in asked[call[u].svc] : call[u].node \in Keep(f, call[u].seen)
    BY <1>0 DEF NodeAskedFor, At
  <2>3. ASSUME NEW u \in Threads, call'[u].pc = "selected"
        PROVE  \E f \in asked'[call'[u].svc] : call'[u].node \in Keep(f, call'[u].seen)
    <3>1. call'[u] = call[u] /\ call[u].pc = "selected" /\ asked' = asked
      BY <1>1, <2>1, <2>3
    <3> QED
      BY <2>2, <3>1
  <2>4. NeverStarved'
    BY <1>0, <2>1 DEF NeverStarved, At
  <2> QED
    BY <2>3, <2>4 DEF NodeAskedFor, At
<1> QED
  BY <1>6, <1>8, <1>9, <1>10 DEF LBInv

\* A call that fails early, like one that begins, has nothing to lose.
LEMMA Failing ==
  ASSUME LBInv, NEW t \in Threads, NEW why \in Failures \ {"no selection"}, Fail(t, why),
         ~At(t, "idle"), UNCHANGED discovery
  PROVE  LBInv'
<1> DEFINE new == [NoCall EXCEPT !.pc = why, !.svc = call[t].svc]
<1>1. call[t].svc \in Services
  BY DEF LBInv, RefsOK
<1>2. /\ new \in CallType /\ new.pc = why /\ new.svc \in Services /\ new.sel = None
  BY <1>1 DEF NoCall, CallType
<1>3. /\ call' = [call EXCEPT ![t] = new]
      /\ UNCHANGED <<discovery, selectors, configs, registered, asked>> /\ Collect(applied)
  BY DEF Fail
<1>4. why \notin {"idle", "discovery", "instances", "filter", "apply", "select", "selected",
                  "no selection"}
  BY DEF Failures
<1> HIDE DEF new
<1> QED
  BY <1>2, <1>3, <1>4, CallMoves

\* Each step of SelectNode, by what it does to its own call.
LEMMA SelectNodeKeeps ==
  ASSUME LBInv, NEW t \in Threads, SelectNode(t)
  PROVE  LBInv'
<1>0. call[t] \in CallType /\ NoCall \in CallType
  BY DEF LBInv, RefsOK, NoCall, CallType
<1>1. ASSUME Fallback(t) PROVE LBInv'
  <2>1. /\ At(t, "fallback") /\ call[t].sel = None /\ call[t].svc \in Services
    BY <1>1 DEF Fallback, LBInv, RefsOK, At
  <2>2. call' = [call EXCEPT ![t] = [call[t] EXCEPT !.pc = "discovery", !.sel = Fresh]]
    BY <1>1 DEF Fallback
  <2>3. /\ selectors' = [selectors EXCEPT ![call[t].svc] = Fresh]
        /\ configs' = [configs EXCEPT ![call[t].svc] = NoFilter]
        /\ Note({call[t].svc}, NoFilter) /\ Collect(NewSelector(Fresh))
        /\ UNCHANGED <<discovery, registered>>
    BY <1>1 DEF Fallback
  <2> QED
    BY <2>1, <2>2, <2>3, NoneAssumption, Installs
<1>2. ASSUME ReadDiscovery(t) PROVE LBInv'
  <2>1. CASE Fail(t, "no discovery")
    <3>1. ~At(t, "idle") /\ UNCHANGED discovery
      BY <1>2, <2>1 DEF ReadDiscovery, At, Fail
    <3>2. "no discovery" \in Failures \ {"no selection"}
      BY DEF Failures
    <3> QED
      BY <2>1, <3>1, <3>2, Failing
  <2>2. CASE ~Fail(t, "no discovery")
    <3> DEFINE new == [call[t] EXCEPT !.pc = "instances", !.reg = discovery]
    <3>1. /\ At(t, "discovery") /\ discovery # None /\ call' = [call EXCEPT ![t] = new]
          /\ UNCHANGED <<discovery, selectors, configs, applied, registered, asked>>
      BY <1>2, <2>2 DEF ReadDiscovery
    <3>2. discovery \in Registries /\ call[t].svc \in Services /\ call[t].sel # None
      BY <3>1 DEF LBInv, LBTypeOK, RefsOK, At
    <3>3. /\ new \in CallType /\ new.pc = "instances" /\ new.svc \in Services /\ new.sel # None
          /\ new.reg \in Registries /\ new.sel = call[t].sel /\ new.svc = call[t].svc
      BY <1>0, <3>2 DEF CallType
    <3> HIDE DEF new
    <3> QED
      BY <3>1, <3>3, CallMoves
  <2> QED
    BY <2>1, <2>2
<1>3. ASSUME GetService(t) PROVE LBInv'
  <2>1. CASE Fail(t, "no instances")
    <3>1. ~At(t, "idle") /\ UNCHANGED discovery
      BY <1>3, <2>1 DEF GetService, At, Fail
    <3>2. "no instances" \in Failures \ {"no selection"}
      BY DEF Failures
    <3> QED
      BY <2>1, <3>1, <3>2, Failing
  <2>2. CASE ~Fail(t, "no instances")
    <3> DEFINE usable == registered[call[t].reg][call[t].svc] \ Endpointless
               new == [call[t] EXCEPT !.pc = "filter", !.reg = None, !.seen = usable]
    <3>1. /\ At(t, "instances") /\ call' = [call EXCEPT ![t] = new]
          /\ UNCHANGED <<discovery, selectors, configs, applied, registered, asked>>
      BY <1>3, <2>2 DEF GetService
    <3>2. call[t].reg \in Registries /\ call[t].svc \in Services /\ call[t].sel # None
      BY <3>1 DEF LBInv, LBTypeOK, RefsOK, At
    <3>3. usable \in SUBSET Nodes
      BY <3>2, InstancesAssumption DEF LBInv, LBTypeOK
    <3> HIDE DEF usable
    <3>4. /\ new \in CallType /\ new.pc = "filter" /\ new.svc \in Services /\ new.sel # None
          /\ new.sel = call[t].sel /\ new.svc = call[t].svc
      BY <1>0, <3>2, <3>3 DEF CallType
    <3> HIDE DEF new
    <3> QED
      BY <3>1, <3>4, CallMoves
  <2> QED
    BY <2>1, <2>2
<1>4. ASSUME Filter(t) PROVE LBInv'
  <2>1. CASE Fail(t, "filtered out")
    <3>1. ~At(t, "idle") /\ UNCHANGED discovery
      BY <1>4, <2>1 DEF Filter, At, Fail
    <3>2. "filtered out" \in Failures \ {"no selection"}
      BY DEF Failures
    <3> QED
      BY <2>1, <3>1, <3>2, Failing
  <2>2. CASE ~Fail(t, "filtered out")
    <3> DEFINE kept == Keep(FilterOf(call[t].svc), call[t].seen)
               new == [call[t] EXCEPT !.pc = "apply", !.nodes = kept]
    <3>1. /\ At(t, "filter") /\ kept # {} /\ call' = [call EXCEPT ![t] = new]
          /\ UNCHANGED <<discovery, selectors, configs, applied, registered, asked>>
      BY <1>4, <2>2 DEF Filter
    <3>2. call[t].svc \in Services /\ call[t].sel # None /\ call[t].seen \in SUBSET Nodes
      BY <1>0, <3>1 DEF LBInv, RefsOK, At, CallType
    <3>3. kept \in SUBSET Nodes
      BY <3>2 DEF Keep, Matching
    <3>4. Filtered(call[t].svc, call[t].seen, kept)
      BY <3>2 DEF LBInv, NodesOK, Filtered
    <3> HIDE DEF kept
    <3>5. /\ new \in CallType /\ new.pc = "apply" /\ new.svc \in Services /\ new.sel # None
          /\ new.sel = call[t].sel /\ new.svc = call[t].svc /\ new.nodes = kept
          /\ new.seen = call[t].seen
      BY <1>0, <3>2, <3>3 DEF CallType
    <3> HIDE DEF new
    <3> QED
      BY <3>1, <3>4, <3>5, CallMoves
  <2> QED
    BY <2>1, <2>2
<1>5. ASSUME Select(t) PROVE LBInv'
  <2> DEFINE list == applied[call[t].sel]
  <2>1. /\ At(t, "select") /\ call[t].svc \in Services /\ call[t].sel \in Selectors
        /\ list.nodes # {} /\ Filtered(call[t].svc, list.seen, list.nodes)
        /\ list \in [seen : SUBSET Nodes, nodes : SUBSET Nodes]
    BY <1>0, <1>5 DEF Select, LBInv, LBTypeOK, RefsOK, NodesOK, At, CallType
  <2>2. PICK n \in list.nodes :
          /\ call' = [call EXCEPT ![t] = [NoCall EXCEPT !.pc = "selected", !.svc = call[t].svc,
                                              !.seen = list.seen, !.node = n]]
          /\ UNCHANGED <<discovery, selectors, configs, registered, asked>>
          /\ Collect(applied)
    BY <1>5, <2>1 DEF Select
  <2> HIDE DEF list
  <2> DEFINE new == [NoCall EXCEPT !.pc = "selected", !.svc = call[t].svc,
                        !.seen = list.seen, !.node = n]
  <2>3. /\ new \in CallType /\ new.pc = "selected" /\ new.svc = call[t].svc /\ new.sel = None
        /\ new.seen = list.seen /\ new.node = n
    BY <2>1, <2>2 DEF NoCall, CallType
  <2>4. \E f \in asked[new.svc] : new.node \in Keep(f, new.seen)
    BY <2>1, <2>2, <2>3 DEF Filtered
  <2>5. call' = [call EXCEPT ![t] = new]
    BY <2>2
  <2> HIDE DEF new
  <2> QED
    BY <2>1, <2>2, <2>3, <2>4, <2>5, CallMoves
<1> QED
  BY <1>1, <1>2, <1>3, <1>4, <1>5, Applies DEF SelectNode

\* When the last call ends, nothing but the filters in force is remembered: no
\* selector is in use then.
LEMMA EndSelectKeeps ==
  ASSUME LBInv, NEW t \in Threads, EndSelect(t)
  PROVE  LBInv'
<1>0. LBTypeOK /\ RefsOK /\ NodesOK /\ NodeAskedFor /\ NeverStarved
  BY DEF LBInv
<1>1. /\ NoCall \in CallType /\ NoCall.pc = "idle" /\ NoCall.sel = None /\ NoCall.node = None
      /\ call' = [call EXCEPT ![t] = NoCall]
      /\ UNCHANGED <<discovery, selectors, configs, applied, registered>>
  BY DEF EndSelect, NoCall, CallType
<1>2. call[t].sel = None
  BY <1>0 DEF EndSelect, RefsOK, Failures
<1>3. CASE ~Quiet'
  <2>1. asked' = asked
    BY <1>3 DEF EndSelect
  <2> QED
    BY <1>1, <1>2, <2>1, CallMoves
<1>4. CASE Quiet'
  <2>1. asked' = [s \in Services |-> {FilterOf(s)}]
    BY <1>4 DEF EndSelect
  <2>2. \A u \in Threads : call'[u].pc = "idle" /\ call'[u].sel = None /\ call[u].sel = None
    BY <1>0, <1>1, <1>2, <1>4 DEF Quiet, At, RefsOK
  <2>3. \A x \in Selectors : applied[x].nodes = {}
    BY <1>0, <2>2, NoneAssumption DEF NodesOK, InUse
  <2>4. LBTypeOK'
    BY <1>0, <1>1, <2>1 DEF LBTypeOK, RefsOK
  <2>5. RefsOK'
    <3>1. call' \in [Threads -> CallType]
      BY <1>0, <1>1 DEF RefsOK
    <3> QED
      BY <1>0, <1>1, <2>2, <3>1 DEF RefsOK, At, CallType, Failures
  <2>6. NodesOK'
    BY <1>1, <2>1, <2>2, <2>3 DEF NodesOK, FilterOf, At
  <2>7. NodeAskedFor' /\ NeverStarved'
    BY <2>2 DEF NodeAskedFor, NeverStarved, At
  <2> QED
    BY <2>4, <2>5, <2>6, <2>7 DEF LBInv
<1> QED
  BY <1>3, <1>4

\* A call that begins takes the selector of its service.
LEMMA StartSelectKeeps ==
  ASSUME LBInv, NEW t \in Threads, NEW s \in Services, StartSelect(t, s)
  PROVE  LBInv'
<1> DEFINE new == [NoCall EXCEPT
                      !.pc = IF selectors[s] = None THEN "fallback" ELSE "discovery",
                      !.svc = s, !.sel = selectors[s]]
<1>1. selectors[s] \in Selectors \cup {None} /\ call[t].sel = None
  BY DEF LBInv, LBTypeOK, RefsOK, StartSelect, At
<1>2. /\ new \in CallType /\ new.svc = s /\ new.sel = selectors[s]
      /\ new.pc = IF new.sel = None THEN "fallback" ELSE "discovery"
  BY <1>1 DEF NoCall, CallType
<1>3. /\ call' = [call EXCEPT ![t] = new]
      /\ UNCHANGED <<discovery, selectors, configs, applied, registered, asked>>
  BY DEF StartSelect
<1> HIDE DEF new
<1> QED
  BY <1>1, <1>2, <1>3, CallMoves

LEMMA LBStep == LBInv /\ [LBNext]_lbVars => LBInv'
<1> SUFFICES ASSUME LBInv, [LBNext]_lbVars PROVE LBInv'
  OBVIOUS
<1>1. ASSUME UNCHANGED <<selectors, configs, applied, asked, call>>,
             discovery' \in Registries \cup {None},
             registered' \in [Registries -> [Services -> Instances]]
      PROVE  LBInv'
  <2>1. LBTypeOK'
    BY <1>1 DEF LBInv, LBTypeOK
  <2>2. RefsOK'
    BY <1>1 DEF LBInv, RefsOK, At, CallType, Failures
  <2>3. NodesOK'
    BY <1>1 DEF LBInv, NodesOK, At, Filtered, FilterOf, InUse
  <2>4. NodeAskedFor' /\ NeverStarved'
    BY <1>1 DEF LBInv, NodeAskedFor, NeverStarved, At
  <2> QED
    BY <2>1, <2>2, <2>3, <2>4 DEF LBInv
<1>2. discovery \in Registries \cup {None} /\ registered \in [Registries -> [Services -> Instances]]
  BY DEF LBInv, LBTypeOK
<1>3. ASSUME NEW r \in Registries, SetDiscovery(r) PROVE LBInv'
  BY <1>1, <1>2, <1>3 DEF SetDiscovery
<1>4. ASSUME NEW r \in Registries, NEW s \in Services, NEW S \in Instances, Register(r, s, S)
      PROVE  LBInv'
  <2>1. registered' \in [Registries -> [Services -> Instances]]
    BY <1>2, <1>4 DEF Register
  <2> QED
    BY <1>1, <1>2, <1>4, <2>1 DEF Register
<1>5. ASSUME NEW t \in Threads, NEW s \in Services, NEW f, At(t, "idle"), f # None,
             ConfigureService(s, f)
      PROVE  LBInv'
  <2>1. call[t].sel = None
    BY <1>5 DEF LBInv, RefsOK, At
  <2> QED
    BY <1>5, <2>1, Installs DEF ConfigureService
<1>6. ASSUME NEW s \in Services, RemoveService(s) PROVE LBInv'
  <2>1. {s} \in SUBSET Services /\ Forget({s})
    BY <1>6 DEF RemoveService
  <2> QED
    BY <2>1, Forgets
<1>7. ASSUME Close PROVE LBInv'
  BY <1>7, Forgets DEF Close
<1>8. CASE UNCHANGED lbVars
  BY <1>1, <1>2, <1>8 DEF lbVars
<1> QED
  BY <1>3, <1>4, <1>5, <1>6, <1>7, <1>8, SelectNodeKeeps, EndSelectKeeps, StartSelectKeeps DEF LBNext

-----------------------------------------------------------------------------
(* The build of a connection joins the two *)

BuildType == [pc : {"idle", "discovery", "configure", "pool", "target", "tls", "securing", "refresh"},
              op : Ops \cup {None}, cfg : Configs \cup {None}]

\* Where a thread is tells which of its two calls runs, what its configuration is
\* good for and whether the registry has been stored already.
BuildOK(t) ==
    /\ build[t] \in BuildType
    /\ call[t].pc # "idle" <=> On(t, "target")
    /\ tls[t].pc # "idle" <=> On(t, "securing") \/ On(t, "refresh")
    /\ ~On(t, "idle") /\ ~On(t, "refresh") => Cfg(t) \in Configs
    /\ On(t, "discovery") \/ On(t, "configure") \/ On(t, "target") => Balanced(Cfg(t))
    /\ build[t].op = "create" /\ ~On(t, "idle") /\ ~On(t, "discovery") /\ Balanced(Cfg(t))
          => discovery # None
    /\ build[t].op = "create" => ~At(t, "no discovery")

BuildInv ==
    /\ LBInv
    /\ TLSInv
    /\ build = [t \in Threads |-> build[t]]
    /\ \A t \in Threads : BuildOK(t)

\* What a step of the load balancer or the TLS manager leaves alone.
Kept(u) ==
    /\ call'[u].pc = call[u].pc
    /\ tls'[u].pc = tls[u].pc
    /\ discovery # None => discovery' # None

\* A thread is not disturbed by the others: its calls stay where they are, and the
\* registry is never unset.
LEMMA OthersKept ==
  ASSUME NEW u \in Threads, BuildOK(u), build'[u] = build[u], Kept(u)
  PROVE  BuildOK(u)'
BY DEF BuildOK, BuildType, On, Cfg, Balanced, At, Kept

\* A call that is running goes on or ends with a failure to be reported, and fails
\* for want of a registry only if there is none.
LEMMA SelectNodeFrame ==
  ASSUME LBInv, NEW t \in Threads, SelectNode(t)
  PROVE  /\ discovery' = discovery
         /\ \A u \in Threads : u # t => call'[u].pc = call[u].pc
         /\ call[t].pc # "idle" /\ call'[t].pc # "idle"
         /\ call'[t].pc = "no discovery" => discovery = None
<1>1. call \in [Threads -> CallType] /\ NoCall \in CallType
  BY DEF LBInv, RefsOK, NoCall, CallType
<1>2. call[t].pc \in {"fallback", "discovery", "instances", "filter", "apply", "select"}
  BY DEF SelectNode, Fallback, ReadDiscovery, GetService, Filter, Apply, Select, At
<1>3. discovery' = discovery /\ \E new : call' = [call EXCEPT ![t] = new]
  BY DEF SelectNode, Fallback, ReadDiscovery, GetService, Filter, Apply, Select, Fail
<1>4. /\ call'[t].pc \in {"discovery", "instances", "filter", "apply", "select", "selected"}
                            \cup Failures
      /\ call'[t].pc = "no discovery" => discovery = None
  <2>0. \A new : call' = [call EXCEPT ![t] = new] => call'[t] = new
    BY <1>1
  <2>1. ASSUME NEW why, Fail(t, why) PROVE call'[t].pc = why
    BY <2>0, <2>1 DEF Fail, NoCall
  <2>3. ASSUME Fallback(t) PROVE call'[t].pc = "discovery"
    <3> DEFINE new == [call[t] EXCEPT !.pc = "discovery", !.sel = Fresh]
    <3>1. call' = [call EXCEPT ![t] = new]
      BY <2>3 DEF Fallback
    <3>2. new.pc = "discovery"
      BY <1>1 DEF CallType
    <3> HIDE DEF new
    <3> QED
      BY <2>0, <2>1, <3>1, <3>2
  <2>4. ASSUME ReadDiscovery(t) PROVE call'[t].pc = "instances" \/ (call'[t].pc = "no discovery" /\ discovery = None)
    <3> DEFINE new == [call[t] EXCEPT !.pc = "instances", !.reg = discovery]
    <3>1. (discovery = None /\ Fail(t, "no discovery")) \/ call' = [call EXCEPT ![t] = new]
      BY <2>4 DEF ReadDiscovery
    <3>2. new.pc = "instances"
      BY <1>1 DEF CallType
    <3> HIDE DEF new
    <3> QED
      BY <2>0, <2>1, <3>1, <3>2
  <2>5. ASSUME GetService(t) PROVE call'[t].pc \in {"filter", "no instances"}
    <3> DEFINE new == [call[t] EXCEPT !.pc = "filter", !.reg = None,
                            !.seen = registered[call[t].reg][call[t].svc] \ Endpointless]
    <3>1. (Fail(t, "no instances")) \/ call' = [call EXCEPT ![t] = new]
      BY <2>5 DEF GetService
    <3>2. new.pc = "filter"
      BY <1>1 DEF CallType
    <3> HIDE DEF new
    <3> QED
      BY <2>0, <2>1, <3>1, <3>2
  <2>6. ASSUME Filter(t) PROVE call'[t].pc \in {"apply", "filtered out"}
    <3> DEFINE new == [call[t] EXCEPT !.pc = "apply", !.nodes = Keep(FilterOf(call[t].svc), call[t].seen)]
    <3>1. (Fail(t, "filtered out")) \/ call' = [call EXCEPT ![t] = new]
      BY <2>6 DEF Filter
    <3>2. new.pc = "apply"
      BY <1>1 DEF CallType
    <3> HIDE DEF new
    <3> QED
      BY <2>0, <2>1, <3>1, <3>2
  <2>7. ASSUME Apply(t) PROVE call'[t].pc = "select"
    <3> DEFINE new == [call[t] EXCEPT !.pc = "select", !.seen = {}, !.nodes = {}]
    <3>1. call' = [call EXCEPT ![t] = new]
      BY <2>7 DEF Apply
    <3>2. new.pc = "select"
      BY <1>1 DEF CallType
    <3> HIDE DEF new
    <3> QED
      BY <2>0, <2>1, <3>1, <3>2
  <2>8. ASSUME Select(t) PROVE call'[t].pc \in {"selected", "no selection"}
    BY <2>0, <2>1, <2>8 DEF Select, NoCall
  <2> QED
    BY <2>3, <2>4, <2>5, <2>6, <2>7, <2>8 DEF SelectNode, Failures
<1> QED
  BY <1>1, <1>2, <1>3, <1>4 DEF Failures

\* A call of the TLS manager moves its own thread only, as far as places go.
TLSMoves(t, S) ==
    /\ \A u \in Threads : u # t => tls'[u].pc = tls[u].pc
    /\ tls'[t].pc \in S

\* Where each step of the TLS manager takes its thread.
LEMMA TLSFrame ==
  ASSUME TLSInv, NEW t \in Threads
  PROVE  /\ \A s \in Services : TLS!ReadCertificate(t, s) => TLSMoves(t, {"set", "failed"})
         /\ TLS!BuildStep(t) =>
              tls[t].pc # "idle" /\ TLSMoves(t, {"get", "built", "missing", "failed"})
         /\ TLS!EndTLS(t) => TLSMoves(t, {"idle"})
         /\ TLS!Snapshot(t) => TLSMoves(t, {"refresh"})
         /\ TLS!WriteBack(t) => TLSMoves(t, {"idle"})
<1>1. TLS!TypeOK
  BY DEF TLSInv
<1>2. /\ DOMAIN tls = Threads
      /\ \A u \in Threads : \A d : [tls[u] EXCEPT !.oldest = d].pc = tls[u].pc
  BY <1>1 DEF TLS!TypeOK
<1>3. \A new : tls' = [tls EXCEPT ![t] = new] =>
          tls'[t] = new /\ \A u \in Threads : u # t => tls'[u] = tls[u]
  BY <1>2
<1>4. ASSUME NEW s \in Services, TLS!ReadCertificate(t, s) PROVE TLSMoves(t, {"set", "failed"})
  BY <1>3, <1>4 DEF TLS!ReadCertificate, TLS!NoTLS, TLSMoves
<1>5. ASSUME TLS!BuildStep(t)
      PROVE  tls[t].pc # "idle" /\ TLSMoves(t, {"get", "built", "missing", "failed"})
  <2>1. CASE TLS!SetServiceConfig(t)
    <3>1. TLS!Doing(t, "set") /\ (TLS!Reject(t) \/ tls' = [tls EXCEPT ![t].pc = "get"])
      BY <2>1 DEF TLS!SetServiceConfig
    <3>2. CASE TLS!Reject(t)
      BY <1>3, <3>1, <3>2 DEF TLS!Reject, TLS!NoTLS, TLSMoves, TLS!Doing
    <3>3. CASE tls' = [tls EXCEPT ![t].pc = "get"]
      BY <1>1, <3>1, <3>3 DEF TLS!TypeOK, TLSMoves, TLS!Doing
    <3> QED
      BY <3>1, <3>2, <3>3
  <2>2. CASE TLS!GetCredentials(t)
    BY <1>1, <2>2 DEF TLS!GetCredentials, TLS!TypeOK, TLSMoves, TLS!Doing
  <2> QED
    BY <1>5, <2>1, <2>2 DEF TLS!BuildStep
<1>6. ASSUME TLS!EndTLS(t) \/ TLS!WriteBack(t) PROVE TLSMoves(t, {"idle"})
  BY <1>3, <1>6 DEF TLS!EndTLS, TLS!WriteBack, TLS!NoTLS, TLSMoves
<1>7. ASSUME TLS!Snapshot(t) PROVE TLSMoves(t, {"refresh"})
  BY <1>1, <1>2, <1>7 DEF TLS!Snapshot, TLS!NoTLS, TLSMoves
<1> QED
  BY <1>4, <1>5, <1>6, <1>7

\* A removal marks builds but does not move them.
LEMMA DropFrame ==
  ASSUME TLSInv, NEW S \in SUBSET Services, TLS!Drop(S)
  PROVE  \A u \in Threads : tls'[u].pc = tls[u].pc
BY DEF TLSInv, TLS!TypeOK, TLS!Drop

\* Every step is one of the load balancer, one of the TLS manager, both or neither.
LEMMA StepIsOf ==
  ASSUME BuildInv, NEW t \in Threads, Step(t)
  PROVE  [LBNext]_lbVars /\ [TLSNext]_tlsVars
<1>0. BuildOK(t)
  BY DEF BuildInv
<1>1. \A k \in Configs : /\ k.svc \in Services /\ k.filter # None
                         /\ Balanced(k) => k.reg \in Registries
  BY ConfigsAssumption, NoneAssumption DEF ConfigType, Balanced
<1>2. ASSUME NEW k \in Configs, StartCreate(t, k) \/ StartCheck(t, k)
      PROVE  [LBNext]_lbVars /\ [TLSNext]_tlsVars
  BY <1>2 DEF StartCreate, StartCheck
<1>3. CASE StoreDiscovery(t)
  <2>1. Cfg(t).reg \in Registries
    BY <1>0, <1>1, <1>3 DEF StoreDiscovery, BuildOK, On
  <2> QED
    BY <1>3, <2>1 DEF StoreDiscovery, LBNext
<1>4. CASE Configure(t)
  <2>1. Cfg(t).svc \in Services /\ Cfg(t).filter # None /\ At(t, "idle")
    BY <1>0, <1>1, <1>4 DEF Configure, BuildOK, On, At
  <2> QED
    BY <1>4, <2>1 DEF Configure, LBNext
<1>5. CASE Pooled(t)
  BY <1>5 DEF Pooled
<1>6. CASE ChooseTarget(t)
  <2>1. Cfg(t).svc \in Services
    BY <1>0, <1>1, <1>6 DEF ChooseTarget, BuildOK, On
  <2> QED
    BY <1>6, <2>1 DEF ChooseTarget, LBNext
<1>7. CASE SelectNode(t) /\ UNCHANGED <<tlsVars, build>>
  BY <1>7 DEF LBNext
<1>8. CASE Target(t)
  BY <1>8 DEF Target, LBNext
<1>9. CASE Secure(t)
  <2>1. Cfg(t).svc \in Services
    BY <1>0, <1>1, <1>9 DEF Secure, BuildOK, On
  <2> QED
    BY <1>9, <2>1 DEF Secure, TLSNext
<1>10. CASE TLS!BuildStep(t) /\ UNCHANGED <<lbVars, build>>
  BY <1>10 DEF TLSNext
<1>11. CASE Secured(t) \/ Refresh(t) \/ Refreshed(t)
  BY <1>11 DEF Secured, Refresh, Refreshed, TLSNext
<1> QED
  BY <1>2, <1>3, <1>4, <1>5, <1>6, <1>7, <1>8, <1>9, <1>10, <1>11 DEF Step

\* So is every step of who administers them.
LEMMA AdministerIsOf == Administer => [LBNext]_lbVars /\ [TLSNext]_tlsVars
BY DEF Administer, LBNext, TLSNext

\* Each step of a build keeps the invariant of all threads.
LEMMA StepKeepsBuild ==
  ASSUME BuildInv, NEW t \in Threads, Step(t)
  PROVE  BuildInv'
<1>0. /\ LBInv /\ TLSInv /\ BuildOK(t) /\ build[t] \in BuildType
      /\ \A u \in Threads : BuildOK(u)
      /\ call \in [Threads -> CallType]
  BY DEF BuildInv, BuildOK, LBInv, RefsOK
<1>1. LBInv' /\ TLSInv'
  BY StepIsOf, LBStep, TLSStep DEF BuildInv
\* It is enough to look at t, if the calls of the others stay where they are.
<1>2. ASSUME NEW b, build' = [build EXCEPT ![t] = b], BuildOK(t)',
             \A u \in Threads : u # t => Kept(u)
      PROVE  BuildInv'
  <2>1. build = [u \in Threads |-> build[u]]
    BY DEF BuildInv
  <2>2. build' = [u \in Threads |-> build'[u]] /\ \A u \in Threads : u # t => build'[u] = build[u]
    BY <1>2, <2>1
  <2>3. \A u \in Threads : BuildOK(u)'
    BY <1>0, <1>2, <2>2, OthersKept
  <2> QED
    BY <1>1, <2>2, <2>3 DEF BuildInv
<1>3. \A b : build' = [build EXCEPT ![t] = b] => build'[t] = b
  <2>1. build = [u \in Threads |-> build[u]]
    BY DEF BuildInv
  <2> QED
    BY <2>1
<1> DEFINE Places == {"idle", "discovery", "configure", "pool", "target", "tls", "securing", "refresh"}
<1>4. ASSUME NEW l \in Places, Goto(t, l)
      PROVE  /\ build'[t] \in BuildType /\ build'[t].pc = l
             /\ build'[t].op = build[t].op /\ build'[t].cfg = build[t].cfg
             /\ \E b : build' = [build EXCEPT ![t] = b]
  <2> DEFINE new == [build[t] EXCEPT !.pc = l]
  <2>1. build' = [build EXCEPT ![t] = new]
    BY <1>4 DEF Goto
  <2>2. new \in BuildType /\ new.pc = l /\ new.op = build[t].op /\ new.cfg = build[t].cfg
    BY <1>0 DEF BuildType
  <2> HIDE DEF new
  <2> QED
    BY <1>3, <2>1, <2>2
<1>5. ASSUME Finish(t)
      PROVE  build'[t] = Idle /\ \E b : build' = [build EXCEPT ![t] = b]
  BY <1>3, <1>5 DEF Finish
<1>6. Idle \in BuildType /\ Idle.pc = "idle" /\ Idle.op = None
  BY DEF Idle, BuildType
<1>7. ASSUME Finish(t), call'[t].pc = "idle", tls'[t].pc = "idle" PROVE BuildOK(t)'
  BY <1>5, <1>6, <1>7 DEF BuildOK, On, At
<1> HIDE DEF Places
<1>8. \A l \in {"idle", "discovery", "configure", "pool", "target", "tls", "securing", "refresh"} :
        l \in Places
  BY DEF Places
<1>9. UNCHANGED lbVars => UNCHANGED <<call, discovery>>
  BY DEF lbVars
<1>10. UNCHANGED tlsVars => UNCHANGED tls
  BY DEF tlsVars
<1>11. ASSUME NEW k \in Configs, StartCreate(t, k) \/ StartCheck(t, k) PROVE BuildInv'
  <2>1. PICK l \in {"discovery", "pool"}, o \in {"create", "check"} \cap Ops :
          /\ build' = [build EXCEPT ![t] = [pc |-> l, op |-> o, cfg |-> k]]
          /\ l = "discovery" => Balanced(k)
          /\ o = "create" /\ Balanced(k) => l = "discovery"
    BY <1>11 DEF StartCreate, StartCheck
  <2>2. On(t, "idle") /\ UNCHANGED <<call, discovery, tls>>
    BY <1>9, <1>10, <1>11 DEF StartCreate, StartCheck
  <2>3. /\ build'[t] \in BuildType /\ build'[t].pc = l /\ build'[t].op = o
        /\ build'[t].cfg = k
    <3> DEFINE new == [pc |-> l, op |-> o, cfg |-> k]
    <3>1. new \in BuildType /\ new.pc = l /\ new.op = o /\ new.cfg = k
      BY DEF BuildType
    <3>2. build'[t] = new
      BY <1>3, <2>1
    <3> HIDE DEF new
    <3> QED
      BY <3>1, <3>2
  <2>4. BuildOK(t)'
    <3>1. call[t].pc = "idle" /\ tls[t].pc = "idle"
      BY <1>0, <2>2 DEF BuildOK, On
    <3>2. Cfg(t)' = k /\ Balanced(Cfg(t))' = Balanced(k)
      BY <2>3 DEF Cfg, Balanced
    <3> QED
      BY <2>1, <2>2, <2>3, <3>1, <3>2 DEF BuildOK, On, At
  <2> QED
    BY <1>2, <2>1, <2>2, <2>4 DEF Kept
<1>12. CASE StoreDiscovery(t)
  <2>1. On(t, "discovery") /\ Goto(t, "configure") /\ UNCHANGED <<call, tls>>
        /\ discovery' = Cfg(t).reg /\ Balanced(Cfg(t))
    BY <1>0, <1>10, <1>12 DEF StoreDiscovery, SetDiscovery, BuildOK
  <2>2. discovery' # None
    BY <2>1 DEF Balanced
  <2>3. BuildOK(t)'
    BY <1>0, <1>4, <1>8, <2>1, <2>2 DEF BuildOK, On, Cfg, At, Balanced
  <2> QED
    BY <1>2, <1>4, <1>8, <2>1, <2>2, <2>3 DEF Kept
<1>13. CASE Configure(t)
  <2>1. On(t, "configure") /\ Goto(t, "pool") /\ UNCHANGED <<call, discovery, tls>>
    BY <1>10, <1>13 DEF Configure, ConfigureService
  <2>2. BuildOK(t)'
    BY <1>0, <1>4, <1>8, <2>1 DEF BuildOK, On, Cfg, At, Balanced
  <2> QED
    BY <1>2, <1>4, <1>8, <2>1, <2>2 DEF Kept
<1>14. CASE Pooled(t)
  <2>1. On(t, "pool") /\ Finish(t) /\ UNCHANGED <<call, discovery, tls>>
    BY <1>9, <1>10, <1>14 DEF Pooled
  <2>2. call[t].pc = "idle" /\ tls[t].pc = "idle"
    BY <1>0, <2>1 DEF BuildOK, On
  <2> QED
    BY <1>2, <1>5, <1>7, <2>1, <2>2 DEF Kept
<1>15. CASE ChooseTarget(t)
  <2>1. On(t, "pool") /\ UNCHANGED <<discovery, tls>>
    BY <1>9, <1>10, <1>15 DEF ChooseTarget, StartSelect
  <2>2. call[t].pc = "idle" /\ tls[t].pc = "idle"
    BY <1>0, <2>1 DEF BuildOK, On
  <2>3. CASE Balanced(Cfg(t))
    <3>1. Goto(t, "target") /\ StartSelect(t, Cfg(t).svc)
      BY <1>15, <2>3 DEF ChooseTarget
    <3>2. /\ call'[t].pc \in {"fallback", "discovery"}
          /\ \A u \in Threads : u # t => call'[u] = call[u]
      BY <1>0, <3>1 DEF StartSelect, NoCall
    <3>3. BuildOK(t)'
      BY <1>0, <1>4, <1>8, <2>1, <2>2, <2>3, <3>1, <3>2 DEF BuildOK, On, Cfg, At, Balanced
    <3> QED
      BY <1>2, <1>4, <1>8, <2>1, <3>1, <3>2, <3>3 DEF Kept
  <2>4. CASE ~Balanced(Cfg(t))
    <3>1. (Goto(t, "tls") \/ Finish(t)) /\ UNCHANGED call
      BY <1>9, <1>15, <2>4 DEF ChooseTarget, AfterTarget
    <3>2. CASE Finish(t)
      BY <1>2, <1>5, <1>7, <2>1, <2>2, <3>1, <3>2 DEF Kept
    <3>3. CASE Goto(t, "tls")
      <4>1. BuildOK(t)'
        BY <1>0, <1>4, <1>8, <2>1, <2>2, <2>4, <3>1, <3>3 DEF BuildOK, On, Cfg, At, Balanced
      <4> QED
        BY <1>2, <1>4, <1>8, <2>1, <3>1, <3>3, <4>1 DEF Kept
    <3> QED
      BY <3>1, <3>2, <3>3
  <2> QED
    BY <2>3, <2>4
<1>16. CASE SelectNode(t) /\ UNCHANGED <<tlsVars, build>>
  <2>1. /\ \A u \in Threads : u # t => Kept(u)
        /\ call[t].pc # "idle" /\ call'[t].pc # "idle"
        /\ call'[t].pc = "no discovery" => discovery = None
        /\ UNCHANGED <<build, tls, discovery>>
    BY <1>0, <1>10, <1>16, SelectNodeFrame DEF Kept
  <2>2. BuildOK(t)'
    BY <1>0, <2>1 DEF BuildOK, BuildType, On, Cfg, At, Balanced
  <2>3. \A u \in Threads : BuildOK(u)'
    BY <1>0, <2>1, <2>2, OthersKept
  <2> QED
    BY <1>1, <2>1, <2>3 DEF BuildInv
<1>17. CASE Target(t)
  <2>1. On(t, "target") /\ EndSelect(t) /\ (Goto(t, "tls") \/ Finish(t)) /\ UNCHANGED tls
    BY <1>10, <1>17 DEF Target, AfterTarget
  <2>2. /\ call'[t].pc = "idle" /\ \A u \in Threads : u # t => call'[u] = call[u]
        /\ discovery' = discovery /\ tls[t].pc = "idle"
    BY <1>0, <2>1 DEF EndSelect, NoCall, BuildOK, On
  <2>3. CASE Finish(t)
    BY <1>2, <1>5, <1>7, <2>1, <2>2, <2>3 DEF Kept
  <2>4. CASE Goto(t, "tls")
    <3>1. BuildOK(t)'
      BY <1>0, <1>4, <1>8, <2>1, <2>2, <2>4 DEF BuildOK, On, Cfg, At, Balanced
    <3> QED
      BY <1>2, <1>4, <1>8, <2>1, <2>2, <2>4, <3>1 DEF Kept
  <2> QED
    BY <2>1, <2>3, <2>4
<1>18. CASE Secure(t)
  <2>1. On(t, "tls") /\ Goto(t, "securing") /\ UNCHANGED <<call, discovery>>
        /\ TLS!ReadCertificate(t, Cfg(t).svc) /\ Cfg(t).svc \in Services
    BY <1>0, <1>9, <1>18, ConfigsAssumption DEF Secure, BuildOK, On, ConfigType
  <2>2. TLSMoves(t, {"set", "failed"})
    BY <1>0, <2>1, TLSFrame
  <2>3. BuildOK(t)'
    BY <1>0, <1>4, <1>8, <2>1, <2>2 DEF BuildOK, On, Cfg, At, Balanced, TLSMoves
  <2> QED
    BY <1>2, <1>4, <1>8, <2>1, <2>2, <2>3 DEF Kept, TLSMoves
<1>19. CASE TLS!BuildStep(t) /\ UNCHANGED <<lbVars, build>>
  <2>1. /\ tls[t].pc # "idle" /\ TLSMoves(t, {"get", "built", "missing", "failed"})
        /\ UNCHANGED <<build, call, discovery>>
    BY <1>0, <1>9, <1>19, TLSFrame
  <2>2. BuildOK(t)'
    BY <1>0, <2>1 DEF BuildOK, BuildType, On, Cfg, At, Balanced, TLSMoves
  <2>3. \A u \in Threads : BuildOK(u)'
    BY <1>0, <2>1, <2>2, OthersKept DEF Kept, TLSMoves
  <2> QED
    BY <1>1, <2>1, <2>3 DEF BuildInv
<1>20. CASE Secured(t) \/ Refreshed(t)
  <2>1. On(t, "securing") \/ On(t, "refresh")
    BY <1>20 DEF Secured, Refreshed
  <2>2. Finish(t) /\ UNCHANGED <<call, discovery>> /\ (TLS!EndTLS(t) \/ TLS!WriteBack(t))
    BY <1>9, <1>20 DEF Secured, Refreshed
  <2>3. TLSMoves(t, {"idle"}) /\ call[t].pc = "idle"
    BY <1>0, <2>1, <2>2, TLSFrame DEF BuildOK, On
  <2> QED
    BY <1>2, <1>5, <1>7, <2>2, <2>3 DEF Kept, TLSMoves
<1>21. CASE Refresh(t)
  <2>1. /\ On(t, "idle") /\ UNCHANGED <<call, discovery>> /\ TLS!Snapshot(t) /\ "refresh" \in Ops
        /\ build' = [build EXCEPT ![t] = [pc |-> "refresh", op |-> "refresh", cfg |-> None]]
    BY <1>9, <1>21 DEF Refresh
  <2>2. TLSMoves(t, {"refresh"}) /\ call[t].pc = "idle"
    BY <1>0, <2>1, TLSFrame DEF BuildOK, On
  <2>3. build'[t] \in BuildType /\ build'[t].pc = "refresh" /\ build'[t].op = "refresh"
    <3> DEFINE new == [pc |-> "refresh", op |-> "refresh", cfg |-> None]
    <3>1. new \in BuildType /\ new.pc = "refresh" /\ new.op = "refresh"
      BY <2>1 DEF BuildType
    <3>2. build'[t] = new
      BY <1>3, <2>1
    <3> HIDE DEF new
    <3> QED
      BY <3>1, <3>2
  <2>4. BuildOK(t)'
    BY <2>1, <2>2, <2>3 DEF BuildOK, On, At, TLSMoves
  <2> QED
    BY <1>2, <2>1, <2>2, <2>4 DEF Kept, TLSMoves
<1> QED
  BY <1>11, <1>12, <1>13, <1>14, <1>15, <1>16, <1>17, <1>18, <1>19, <1>20, <1>21 DEF Step

\* So does each removal, closing, registration and rotation.
LEMMA AdministerKeepsBuild ==
  ASSUME BuildInv, Administer
  PROVE  BuildInv'
<1>1. LBInv' /\ TLSInv' /\ UNCHANGED build
  BY AdministerIsOf, LBStep, TLSStep DEF BuildInv, Administer
<1>2. UNCHANGED <<call, discovery>>
  BY DEF Administer, Close, RemoveService, Forget, Register, lbVars
<1>3. \A u \in Threads : tls'[u].pc = tls[u].pc
  <2>1. ASSUME NEW s \in Services, TLS!RemoveService(s) PROVE \A u \in Threads : tls'[u].pc = tls[u].pc
    <3>1. {s} \in SUBSET Services /\ TLS!Drop({s})
      BY <2>1 DEF TLS!RemoveService
    <3> QED
      BY <3>1, DropFrame DEF BuildInv
  <2>2. TLS!Close => \A u \in Threads : tls'[u].pc = tls[u].pc
    BY DropFrame DEF TLS!Close, BuildInv
  <2> QED
    BY <2>1, <2>2 DEF Administer, TLS!Rotate, tlsVars
<1>4. \A u \in Threads : BuildOK(u)'
  BY <1>1, <1>2, <1>3, OthersKept DEF BuildInv, Kept
<1> QED
  BY <1>1, <1>4 DEF BuildInv

\* The invariant holds before anything is built.
LEMMA InitBuilds == Init => BuildInv
<1> SUFFICES ASSUME Init PROVE BuildInv
  OBVIOUS
<1>1. LBInv /\ TLSInv
  BY LBInitOK, TLSInit DEF Init
<1>2. /\ Idle \in BuildType /\ Idle.pc = "idle"
      /\ build = [t \in Threads |-> Idle]
      /\ \A t \in Threads : call[t].pc = "idle" /\ tls[t].pc = "idle"
  BY DEF Init, Idle, BuildType, LBInit, NoCall, TLS!Init, TLS!NoTLS
<1>3. \A t \in Threads : BuildOK(t)
  BY <1>2 DEF BuildOK, On, At
<1> QED
  BY <1>1, <1>2, <1>3 DEF BuildInv

\* What the invariant says that a reader asks for.
LEMMA BuildInvImplies ==
  ASSUME BuildInv
  PROVE  TypeOK /\ NodeAskedFor /\ NeverStarved /\ DiscoveryKnown /\ CredentialsUsable
<1>1. LBTypeOK /\ TLS!TypeOK /\ NodeAskedFor /\ NeverStarved /\ TLS!CredentialsFound
  BY DEF BuildInv, LBInv, TLSInv
<1>2. TypeOK
  BY <1>1 DEF TypeOK, BuildInv, BuildOK, BuildType
<1>3. DiscoveryKnown
  BY DEF BuildInv, BuildOK, DiscoveryKnown
<1>4. TLS!CredentialsNotStale
  BY RotationsAssumption DEF BuildInv, TLSInv, TLS!CredentialsNotStale, TLS!Generations
<1> QED
  BY <1>1, <1>2, <1>3, <1>4 DEF CredentialsUsable

-----------------------------------------------------------------------------
(* The theorems *)

\* Whatever interleaves, the invariant of the build and of its two parts holds.
THEOREM BuildInvariant == Spec => []BuildInv
<1>1. BuildInv /\ [Next]_vars => BuildInv'
  <2> SUFFICES ASSUME BuildInv, [Next]_vars PROVE BuildInv'
    OBVIOUS
  <2>1. CASE UNCHANGED vars
    <3>1. UNCHANGED <<lbVars, tlsVars, build>>
      BY <2>1 DEF vars
    <3>2. LBInv' /\ TLSInv'
      BY <3>1, LBStep, TLSStep DEF BuildInv
    <3>3. \A u \in Threads : BuildOK(u)'
      BY <3>1, OthersKept DEF BuildInv, Kept, lbVars, tlsVars
    <3> QED
      BY <3>1, <3>2, <3>3 DEF BuildInv
  <2> QED
    BY <2>1, StepKeepsBuild, AdministerKeepsBuild DEF Next
<1> QED
  BY <1>1, InitBuilds, PTL DEF Spec

\* The state of the build, the load balancer and the TLS manager is well formed.
THEOREM TypeCorrect == Spec => []TypeOK
BY BuildInvariant, BuildInvImplies, PTL

\* A selected node is one that a filter in force during the call, or during the calls
\* that overlap with it, keeps (load_balancer.go:154-170).
THEOREM NodesAskedFor == Spec => []NodeAskedFor
BY BuildInvariant, BuildInvImplies, PTL

\* No call leaves the selector it shares with another without nodes
\* (load_balancer.go:160-178).
THEOREM NobodyStarved == Spec => []NeverStarved
BY BuildInvariant, BuildInvImplies, PTL

\* No connection that has a registry fails for want of one (client.go:453).
THEOREM RegistryKnown == Spec => []DiscoveryKnown
BY BuildInvariant, BuildInvImplies, PTL

\* A build whose service is not dropped finds the credentials it has set, or later
\* ones: none older than what the overlapping builds and refreshes had read
\* (client.go:679-687, tls_enhanced.go:99-119).
THEOREM CredentialsCorrect == Spec => []CredentialsUsable
BY BuildInvariant, BuildInvImplies, PTL

=============================================================================
