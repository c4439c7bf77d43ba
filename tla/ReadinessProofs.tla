--------------------------- MODULE ReadinessProofs ---------------------------
(***************************************************************************)
(* Proofs about RequiredServices and Readiness, for every set of required  *)
(* services and every number of workers.  First the check by itself: no    *)
(* service is lost between the dispatcher and the verdict, and the first   *)
(* error is never one that another's failure caused.  Then what the client *)
(* and the server publish on the strength of it.                           *)
(***************************************************************************)
EXTENDS Readiness, FiniteSetTheorems, SequenceTheorems, TLAPS

LEMMA ServicesCounted == Cardinality(Services) \in Nat
  BY RequiredAssumption, FS_CardinalityType

LEMMA NoErrors == <<>> \in Seq(Failures \ {"none"}) /\ Len(<<>>) <= Cardinality(Services)
<1>1. Len(<<>>) = 0 /\ 0 <= Cardinality(Services)
  BY ServicesCounted
<1> QED
  BY <1>1

-----------------------------------------------------------------------------
(* The inductive invariant of the check *)

\* A worker has a job exactly between taking it and dropping it.
JobsHeld == \A w \in Workers : job[w] = None <=> worker[w] \in {"receive", "off"}

\* No worker outlives its check.
WorkersJoined == check \in {"idle", "done"} => \A w \in Workers : worker[w] = "off"

\* Until an error is reported a service is waiting, in a worker's hands, or reached.
NothingLost ==
    check \in {"dispatch", "wait"} /\ errCh = <<>> =>
        \A s \in Services : s \in verified \/ s \in pending \/ \E w \in Workers : job[w] = s

\* The context is cancelled by a worker that has reported.
CancelReported ==
    /\ cancelled => errCh # <<>>
    /\ \A w \in Workers : worker[w] = "cancel" => errCh # <<>>

\* Only an error or the caller stops the dispatcher early.
DispatchedAll == check = "wait" /\ errCh = <<>> /\ ~ctxDone => pending = {}

\* A worker that is about to report has an error, and the first to report has the
\* error of the caller or its own.
ReportsReal ==
    \A w \in Workers :
        worker[w] = "report" =>
            failure[w] # "none" /\ (failure[w] = "canceled" /\ errCh = <<>> => ctxDone)

OutcomeTrue ==
    /\ check \in {"dispatch", "wait"} => outcome = "none"
    /\ OkMeansVerified

CheckInv == JobsHeld /\ WorkersJoined /\ NothingLost /\ CancelReported /\ DispatchedAll
            /\ ReportsReal /\ OutcomeTrue /\ FirstErrorIsReal

USE DEF Failures, Done

LEMMA CheckInitInv == CheckInit => CheckTypeOK /\ CheckInv
<1> SUFFICES ASSUME CheckInit PROVE CheckTypeOK /\ CheckInv
  OBVIOUS
<1>1. CheckTypeOK
  BY NoErrors DEF CheckInit, CheckTypeOK
<1>2. JobsHeld /\ WorkersJoined /\ NothingLost /\ CancelReported /\ DispatchedAll /\ ReportsReal
  BY DEF CheckInit, JobsHeld, WorkersJoined, NothingLost, CancelReported, DispatchedAll, ReportsReal
<1>3. OutcomeTrue /\ FirstErrorIsReal
  BY DEF CheckInit, OutcomeTrue, OkMeansVerified, FirstErrorIsReal
<1> QED
  BY <1>1, <1>2, <1>3 DEF CheckInv

-----------------------------------------------------------------------------
(* Types of the check *)

\* What is read from the channel is the error of a check.
LEMMA FirstError == CheckTypeOK => (errCh # <<>> => Head(errCh) \in {"unavailable", "canceled"})
<1> DEFINE Errors == Failures \ {"none"}
<1>1. CheckTypeOK => errCh \in Seq(Errors)
  BY DEF CheckTypeOK
<1> HIDE DEF Errors
<1>2. CheckTypeOK /\ errCh # <<>> => Head(errCh) \in Errors
  BY <1>1, HeadTailProperties
<1> QED
  BY <1>2 DEF Errors

LEMMA CheckStepType ==
  ASSUME CheckTypeOK, JobsHeld, ReportsReal, CheckNext \/ Begin
  PROVE  CheckTypeOK'
<1>1. ASSUME Begin PROVE CheckTypeOK'
  BY <1>1, NoErrors DEF Begin, CheckTypeOK
<1>2. ASSUME StopDispatch PROVE CheckTypeOK'
  BY <1>2 DEF StopDispatch, CheckTypeOK
<1>3. ASSUME Join PROVE CheckTypeOK'
  <2>1. errCh # <<>> => Head(errCh) \in {"unavailable", "canceled"}
    BY FirstError
  <2>2. outcome' \in {"none", "ok", "unavailable", "canceled"}
    BY <1>3, <2>1 DEF Join
  <2> QED
    BY <1>3, <2>2, NoErrors DEF Join, Forget, CheckTypeOK
<1>4. ASSUME CallerCancels PROVE CheckTypeOK'
  BY <1>4 DEF CallerCancels, CheckTypeOK
<1>5. ASSUME NEW w \in Workers, HandOut(w) PROVE CheckTypeOK'
  BY <1>5 DEF HandOut, CheckTypeOK
<1>6. ASSUME NEW w \in Workers, Exit(w) PROVE CheckTypeOK'
  BY <1>6 DEF Exit, CheckTypeOK
<1>7. ASSUME NEW w \in Workers, Entry(w) PROVE CheckTypeOK'
  BY <1>7 DEF Entry, Fails, CheckTypeOK
<1>8. ASSUME NEW w \in Workers, Build(w) PROVE CheckTypeOK'
  <2>1. job[w] \in Services
    BY <1>8 DEF Build, JobsHeld, CheckTypeOK
  <2> QED
    BY <1>8, <2>1 DEF Build, Fails, CheckTypeOK
<1>9. ASSUME NEW w \in Workers, Report(w) PROVE CheckTypeOK'
  <2>1. failure[w] \in Failures \ {"none"}
    BY <1>9 DEF Report, ReportsReal, CheckTypeOK
  <2>2. errCh' \in Seq(Failures \ {"none"}) /\ Len(errCh') = Len(errCh) + 1
    BY <1>9, <2>1 DEF Report, CheckTypeOK
  <2>3. Len(errCh') <= Cardinality(Services)
    BY <1>9, <2>2, ServicesCounted DEF Report, CheckTypeOK
  <2> QED
    BY <1>9, <2>2, <2>3 DEF Report, CheckTypeOK
<1>10. ASSUME NEW w \in Workers, Cancel(w) PROVE CheckTypeOK'
  BY <1>10 DEF Cancel, CheckTypeOK
<1> QED
  BY <1>1, <1>2, <1>3, <1>4, <1>5, <1>6, <1>7, <1>8, <1>9, <1>10 DEF CheckNext, WorkerStep

-----------------------------------------------------------------------------
(* The invariant is inductive: one lemma per action that disturbs it *)

LEMMA BeginInv == CheckTypeOK /\ CheckInv /\ Begin => CheckInv'
<1> SUFFICES ASSUME CheckTypeOK, CheckInv, Begin PROVE CheckInv'
  OBVIOUS
<1>1. JobsHeld' /\ WorkersJoined' /\ NothingLost' /\ CancelReported' /\ DispatchedAll' /\ ReportsReal'
  BY DEF Begin, CheckTypeOK, CheckInv, JobsHeld, WorkersJoined, NothingLost, CancelReported,
         DispatchedAll, ReportsReal
<1>2. OutcomeTrue' /\ FirstErrorIsReal'
  BY DEF Begin, OutcomeTrue, OkMeansVerified, FirstErrorIsReal
<1> QED
  BY <1>1, <1>2 DEF CheckInv

LEMMA DispatcherInv ==
  CheckTypeOK /\ CheckInv /\ (StopDispatch \/ CallerCancels) => CheckInv'
<1> SUFFICES ASSUME CheckTypeOK, CheckInv, StopDispatch \/ CallerCancels PROVE CheckInv'
  OBVIOUS
<1>1. JobsHeld' /\ WorkersJoined' /\ NothingLost' /\ CancelReported' /\ DispatchedAll' /\ ReportsReal'
  BY DEF StopDispatch, CallerCancels, CheckTypeOK, CheckInv, JobsHeld, WorkersJoined, NothingLost,
         CancelReported, DispatchedAll, ReportsReal
<1>2. OutcomeTrue' /\ FirstErrorIsReal'
  BY DEF StopDispatch, CallerCancels, CheckInv, OutcomeTrue, OkMeansVerified, FirstErrorIsReal
<1> QED
  BY <1>1, <1>2 DEF CheckInv

\* Every worker is gone, so every service that was handed out has been reached or
\* has left an error.
LEMMA JoinInv == CheckTypeOK /\ CheckInv /\ Join => CheckInv'
<1> SUFFICES ASSUME CheckTypeOK, CheckInv, Join PROVE CheckInv'
  OBVIOUS
<1>1. \A w \in Workers : job[w] = None
  BY DEF Join, CheckInv, JobsHeld
<1>2. errCh = <<>> /\ (ctxDone => Services = {}) => Services \subseteq verified
  BY <1>1, RequiredAssumption DEF Join, CheckInv, NothingLost, DispatchedAll
<1>3. outcome' = "ok" => errCh = <<>> /\ (ctxDone => Services = {})
  BY FirstError DEF Join
<1>4. OutcomeTrue'
  BY <1>2, <1>3 DEF Join, OutcomeTrue, OkMeansVerified, CheckTypeOK
<1>5. JobsHeld' /\ WorkersJoined' /\ NothingLost' /\ CancelReported' /\ DispatchedAll' /\ ReportsReal'
  BY DEF Join, Forget, CheckTypeOK, CheckInv, JobsHeld, WorkersJoined, NothingLost, CancelReported,
         DispatchedAll, ReportsReal
<1>6. FirstErrorIsReal'
  BY DEF Join, Forget, FirstErrorIsReal
<1> QED
  BY <1>4, <1>5, <1>6 DEF CheckInv

LEMMA HandOutInv == ASSUME CheckTypeOK, CheckInv, NEW w \in Workers, HandOut(w) PROVE CheckInv'
<1>1. PICK s \in pending : /\ pending' = pending \ {s}
                           /\ job' = [job EXCEPT ![w] = s]
  BY DEF HandOut
<1>2. s \in Services /\ s # None
  BY RequiredAssumption DEF CheckTypeOK
<1>3. JobsHeld'
  BY <1>1, <1>2 DEF HandOut, CheckTypeOK, CheckInv, JobsHeld
<1>4. NothingLost'
  <2> SUFFICES ASSUME errCh = <<>>, NEW t \in Services
               PROVE t \in verified' \/ t \in pending' \/ \E v \in Workers : job'[v] = t
    BY DEF HandOut, NothingLost
  <2>1. t \in verified \/ t \in pending \/ \E v \in Workers : job[v] = t
    BY DEF HandOut, CheckInv, NothingLost
  <2>2. job[w] = None
    BY DEF HandOut, CheckInv, JobsHeld
  <2>3. CASE t = s
    BY <1>1, <2>3 DEF CheckTypeOK
  <2>4. CASE t # s
    BY <1>1, <2>1, <2>2, <2>4, RequiredAssumption DEF HandOut, CheckTypeOK
  <2> QED
    BY <2>3, <2>4
<1>5. WorkersJoined' /\ CancelReported' /\ DispatchedAll' /\ ReportsReal'
  BY DEF HandOut, CheckTypeOK, CheckInv, WorkersJoined, CancelReported, DispatchedAll, ReportsReal
<1>6. OutcomeTrue' /\ FirstErrorIsReal'
  BY DEF HandOut, CheckInv, OutcomeTrue, OkMeansVerified, FirstErrorIsReal
<1> QED
  BY <1>3, <1>4, <1>5, <1>6 DEF CheckInv

LEMMA EntryInv ==
  ASSUME CheckTypeOK, CheckInv, NEW w \in Workers, Exit(w) \/ Entry(w) PROVE CheckInv'
<1>1. JobsHeld' /\ WorkersJoined'
  BY DEF Exit, Entry, Fails, CheckTypeOK, CheckInv, JobsHeld, WorkersJoined
<1>2. NothingLost' /\ DispatchedAll'
  BY DEF Exit, Entry, CheckInv, NothingLost, DispatchedAll
<1>3. CancelReported'
  BY DEF Exit, Entry, Fails, CheckTypeOK, CheckInv, CancelReported
<1>4. ReportsReal'
  BY DEF Exit, Entry, Fails, CheckTypeOK, CheckInv, ReportsReal, CancelReported
<1>5. OutcomeTrue' /\ FirstErrorIsReal'
  BY DEF Exit, Entry, CheckInv, OutcomeTrue, OkMeansVerified, FirstErrorIsReal
<1> QED
  BY <1>1, <1>2, <1>3, <1>4, <1>5 DEF CheckInv

LEMMA BuildInv == ASSUME CheckTypeOK, CheckInv, NEW w \in Workers, Build(w) PROVE CheckInv'
<1>0. check \in {"dispatch", "wait"}
  BY DEF Build, CheckTypeOK, CheckInv, WorkersJoined
<1>1. JobsHeld' /\ WorkersJoined'
  BY DEF Build, Fails, CheckTypeOK, CheckInv, JobsHeld, WorkersJoined
<1>2. NothingLost'
  <2> SUFFICES ASSUME errCh = <<>>, NEW t \in Services
               PROVE t \in verified' \/ t \in pending' \/ \E v \in Workers : job'[v] = t
    BY DEF Build, NothingLost
  <2>1. t \in verified \/ t \in pending \/ \E v \in Workers : job[v] = t
    BY <1>0 DEF CheckInv, NothingLost
  <2>2. CASE job' = job
    BY <2>1, <2>2 DEF Build
  <2>3. CASE verified' = verified \cup {job[w]} /\ job' = [job EXCEPT ![w] = None]
    BY <2>1, <2>3 DEF Build, CheckTypeOK
  <2> QED
    BY <2>2, <2>3 DEF Build
<1>3. CancelReported' /\ DispatchedAll'
  BY DEF Build, Fails, CheckTypeOK, CheckInv, CancelReported, DispatchedAll
<1>4. ReportsReal'
  BY DEF Build, Fails, CheckTypeOK, CheckInv, ReportsReal, CancelReported
<1>5. OutcomeTrue' /\ FirstErrorIsReal'
  BY <1>0 DEF Build, CheckInv, OutcomeTrue, OkMeansVerified, FirstErrorIsReal
<1> QED
  BY <1>1, <1>2, <1>3, <1>4, <1>5 DEF CheckInv

LEMMA ReportInv == ASSUME CheckTypeOK, CheckInv, NEW w \in Workers, Report(w) PROVE CheckInv'
<1>1. failure[w] \in Failures \ {"none"}
  BY DEF Report, CheckInv, ReportsReal, CheckTypeOK
<1>2. errCh' # <<>> /\ Head(errCh') = IF errCh = <<>> THEN failure[w] ELSE Head(errCh)
  BY <1>1 DEF Report, CheckTypeOK
<1>3. FirstErrorIsReal'
  BY <1>2 DEF Report, CheckInv, FirstErrorIsReal, ReportsReal
<1>4. JobsHeld' /\ WorkersJoined'
  BY DEF Report, CheckTypeOK, CheckInv, JobsHeld, WorkersJoined
<1>5. NothingLost' /\ DispatchedAll' /\ CancelReported'
  BY <1>2 DEF NothingLost, DispatchedAll, CancelReported
<1>6. ReportsReal'
  BY <1>2 DEF Report, CheckTypeOK, CheckInv, ReportsReal
<1>7. OutcomeTrue'
  BY DEF Report, CheckInv, OutcomeTrue, OkMeansVerified
<1> QED
  BY <1>3, <1>4, <1>5, <1>6, <1>7 DEF CheckInv

LEMMA CancelInv == ASSUME CheckTypeOK, CheckInv, NEW w \in Workers, Cancel(w) PROVE CheckInv'
<1>1. errCh # <<>>
  BY DEF Cancel, CheckInv, CancelReported
<1>2. JobsHeld' /\ WorkersJoined'
  BY DEF Cancel, CheckTypeOK, CheckInv, JobsHeld, WorkersJoined
<1>3. NothingLost' /\ DispatchedAll' /\ CancelReported'
  BY <1>1 DEF Cancel, NothingLost, DispatchedAll, CancelReported
<1>4. ReportsReal'
  BY DEF Cancel, CheckTypeOK, CheckInv, ReportsReal
<1>5. OutcomeTrue' /\ FirstErrorIsReal'
  BY DEF Cancel, CheckInv, OutcomeTrue, OkMeansVerified, FirstErrorIsReal
<1> QED
  BY <1>2, <1>3, <1>4, <1>5 DEF CheckInv

LEMMA CheckStepInv ==
  ASSUME CheckTypeOK, CheckInv, CheckNext \/ Begin \/ UNCHANGED checkVars
  PROVE  CheckTypeOK' /\ CheckInv'
<1>1. CASE UNCHANGED checkVars
  BY <1>1 DEF checkVars, CheckTypeOK, CheckInv, JobsHeld, WorkersJoined, NothingLost,
              CancelReported, DispatchedAll, ReportsReal, OutcomeTrue, OkMeansVerified,
              FirstErrorIsReal
<1>2. CASE CheckNext \/ Begin
  <2>1. CheckTypeOK'
    BY <1>2, CheckStepType DEF CheckInv
  <2>2. CheckInv'
    BY <1>2, BeginInv, DispatcherInv, JoinInv, HandOutInv, EntryInv, BuildInv, ReportInv, CancelInv
    DEF CheckNext, WorkerStep
  <2> QED
    BY <2>1, <2>2
<1> QED
  BY <1>1, <1>2

-----------------------------------------------------------------------------
(* What is published on the strength of the check *)

\* The client checks with the readiness withdrawn and is past its check only with the
\* readiness it published.
ReadinessKept ==
    /\ check \in {"dispatch", "wait"} => client = "check"
    /\ client = "check" => required = "no"
    /\ client \in {"register", "health", "started"} => required = "yes"
    /\ clientContract => client = "started"
    /\ ReadyMeansVerified

\* The poller runs from its start, which ends the start-up's own update, to the end
\* of the server's run.
PollerInv ==
    /\ server \in {"read", "set", "poll", "failed"} => poller = "off"
    /\ server \in {"register", "running"} => poller # "off" /\ ~pollStopped
    /\ serverContract => server = "running"

\* There is a health service, and no poller without one, from the first start-up on; what
\* is set after its shutdown is ignored.
HealthInv ==
    /\ health = "none" => server = "stopped" /\ poller = "off"
    /\ server = "stopped" => health \in {"none", "shutdown"}

IInv == TypeOK /\ CheckInv /\ ReadinessKept /\ PollerInv /\ HealthInv

USE DEF clientVars, serverVars, PublishRequired, PublishClient, PublishServer

LEMMA InitIInv == Init => IInv
<1> SUFFICES ASSUME Init PROVE IInv
  OBVIOUS
<1>1. CheckTypeOK /\ CheckInv
  BY CheckInitInv DEF Init
<1>2. TypeOK
  BY <1>1 DEF Init, TypeOK, Readers
<1>3. ReadinessKept /\ PollerInv /\ HealthInv
  BY DEF Init, CheckInit, ReadinessKept, ReadyMeansVerified, PollerInv, HealthInv
<1> QED
  BY <1>1, <1>2, <1>3 DEF IInv

\* Every step of the system is, for the check, a step of it or none.
LEMMA StepsOfCheck == [Next]_vars => CheckNext \/ Begin \/ UNCHANGED checkVars
  BY DEF Next, vars, InitializeClient, StartClient, ClientStep, Checked, RegisterClient, ClientHealth, StopClient,
         StartServer, ServerStep, ReadAtStart, SetAtStart, StartPoller, RegisterServer, Cleanup,
         Drained, ShutDown, StopServer, PollerStep, Tick, PollRead, PollSet, PollerExits

LEMMA StepTypeOK == TypeOK /\ CheckInv /\ [Next]_vars => TypeOK'
<1> SUFFICES ASSUME TypeOK, CheckInv, [Next]_vars PROVE TypeOK'
  OBVIOUS
<1>1. CheckTypeOK'
  BY StepsOfCheck, CheckStepInv DEF TypeOK
<1>2. CASE UNCHANGED <<clientVars, serverVars>>
  BY <1>1, <1>2 DEF TypeOK
<1>3. CASE InitializeClient \/ StartClient \/ ClientStep \/ StopClient
  BY <1>1, <1>3 DEF TypeOK, InitializeClient, StartClient, ClientStep, Checked, RegisterClient,
                    ClientHealth, StopClient
<1>4. CASE StartServer \/ StopServer \/ PollerExits
  BY <1>1, <1>4 DEF TypeOK, StartServer, StopServer, PollerExits
<1>5. CASE ServerStep
  BY <1>1, <1>5 DEF TypeOK, ServerStep, ReadAtStart, SetAtStart, StartPoller, RegisterServer, Cleanup,
                    Drained, ShutDown, Read, SetStatus
<1>6. CASE PollerStep
  BY <1>1, <1>6 DEF TypeOK, PollerStep, Tick, PollRead, PollSet, Read, SetStatus
<1> QED
  BY <1>2, <1>3, <1>4, <1>5, <1>6 DEF Next, vars

LEMMA StepReadiness == TypeOK /\ CheckInv /\ ReadinessKept /\ [Next]_vars => ReadinessKept'
<1> SUFFICES ASSUME TypeOK, CheckInv, ReadinessKept, [Next]_vars PROVE ReadinessKept'
  OBVIOUS
<1>1. CASE CheckNext /\ UNCHANGED <<clientVars, serverVars>>
  \* the set of services reached only grows
  <2>1. verified \subseteq verified'
    BY <1>1 DEF CheckNext, StopDispatch, Join, CallerCancels, WorkerStep, HandOut, Exit, Entry,
                Build, Report, Cancel
  <2>2. verified' \subseteq Services
    BY StepTypeOK DEF TypeOK, CheckTypeOK
  <2>3. check' \in {"dispatch", "wait"} => check \in {"dispatch", "wait"}
    BY <1>1 DEF CheckNext, StopDispatch, Join, CallerCancels, WorkerStep, HandOut, Exit, Entry,
                Build, Report, Cancel
  <2> QED
    BY <1>1, <2>1, <2>2, <2>3 DEF ReadinessKept, ReadyMeansVerified
<1>2. CASE InitializeClient \/ StartClient
  BY <1>2 DEF InitializeClient, StartClient, Begin, ReadinessKept, ReadyMeansVerified, TypeOK, checkVars
<1>3. CASE Checked
  BY <1>3 DEF Checked, ReadinessKept, ReadyMeansVerified, CheckInv, OutcomeTrue, OkMeansVerified,
              checkVars
<1>4. CASE RegisterClient \/ ClientHealth \/ StopClient
  BY <1>4 DEF RegisterClient, ClientHealth, StopClient, ReadinessKept, ReadyMeansVerified, checkVars
<1>5. CASE UNCHANGED <<checkVars, clientVars>>
  BY <1>5 DEF ReadinessKept, ReadyMeansVerified, checkVars
<1>6. StartServer \/ StopServer \/ ServerStep \/ PollerStep \/ PollerExits
        => UNCHANGED <<checkVars, clientVars>>
  BY DEF StartServer, ServerStep, ReadAtStart, SetAtStart, StartPoller, RegisterServer, Cleanup,
         Drained, ShutDown, StopServer, PollerStep, Tick, PollRead, PollSet, PollerExits
<1> QED
  BY <1>1, <1>2, <1>3, <1>4, <1>5, <1>6 DEF Next, ClientStep, vars

LEMMA StepPoller == TypeOK /\ PollerInv /\ [Next]_vars => PollerInv'
<1> SUFFICES ASSUME TypeOK, PollerInv, [Next]_vars PROVE PollerInv'
  OBVIOUS
<1>1. CASE UNCHANGED serverVars
  BY <1>1 DEF PollerInv
<1>2. InitializeClient \/ StartClient \/ ClientStep \/ StopClient => UNCHANGED serverVars
  BY DEF InitializeClient, StartClient, ClientStep, Checked, RegisterClient, ClientHealth, StopClient
<1>3. CASE StartServer \/ StopServer \/ PollerExits
  BY <1>3 DEF PollerInv, StartServer, StopServer, PollerExits
<1>4. CASE ServerStep
  BY <1>4 DEF PollerInv, ServerStep, ReadAtStart, SetAtStart, StartPoller, RegisterServer, Cleanup,
              Drained, ShutDown
<1>5. CASE PollerStep
  BY <1>5 DEF PollerInv, PollerStep, Tick, PollRead, PollSet
<1> QED
  BY <1>1, <1>2, <1>3, <1>4, <1>5 DEF Next, vars

LEMMA StepHealth == TypeOK /\ PollerInv /\ HealthInv /\ [Next]_vars => HealthInv'
<1> SUFFICES ASSUME TypeOK, PollerInv, HealthInv, [Next]_vars PROVE HealthInv'
  OBVIOUS
<1>1. CASE UNCHANGED serverVars
  BY <1>1 DEF HealthInv
<1>2. InitializeClient \/ StartClient \/ ClientStep \/ StopClient => UNCHANGED serverVars
  BY DEF InitializeClient, StartClient, ClientStep, Checked, RegisterClient, ClientHealth, StopClient
<1>3. CASE StartServer \/ StopServer \/ PollerExits
  BY <1>3 DEF HealthInv, StartServer, StopServer, PollerExits
<1>4. CASE ServerStep
  BY <1>4 DEF HealthInv, ServerStep, ReadAtStart, SetAtStart, StartPoller, RegisterServer, Cleanup,
              Drained, ShutDown, SetStatus
<1>5. CASE PollerStep
  BY <1>5 DEF HealthInv, PollerStep, Tick, PollRead, PollSet, SetStatus
<1> QED
  BY <1>1, <1>2, <1>3, <1>4, <1>5 DEF Next, vars

LEMMA StepIInv == IInv /\ [Next]_vars => IInv'
<1> SUFFICES ASSUME IInv, [Next]_vars PROVE IInv'
  OBVIOUS
<1>1. CheckInv'
  BY StepsOfCheck, CheckStepInv DEF IInv, TypeOK
<1> QED
  BY <1>1, StepTypeOK, StepReadiness, StepPoller, StepHealth DEF IInv

LEMMA Invariance == Spec => []IInv
  BY InitIInv, StepIInv, PTL DEF Spec

-----------------------------------------------------------------------------
(* Theorems *)

\* Every variable of both start-ups, the check and the poller keeps its type; in
\* particular the error channel never holds more than one error of each service.
THEOREM TypeCorrect == Spec => []TypeOK
<1>1. IInv => TypeOK
  BY DEF IInv
<1> QED
  BY <1>1, Invariance, PTL

\* A check that returned without an error has reached every required service
\* (client.go:958-1022), whoever was cancelled by whom.
THEOREM CheckIsTrue == Spec => []OkMeansVerified
<1>1. IInv => OkMeansVerified
  BY DEF IInv, CheckInv, OutcomeTrue
<1> QED
  BY <1>1, Invariance, PTL

\* The error the check returns is that of a service which failed by itself, unless
\* the caller gave up (client.go:996-1016).
THEOREM FirstErrorReal == Spec => []FirstErrorIsReal
<1>1. IInv => FirstErrorIsReal
  BY DEF IInv, CheckInv
<1> QED
  BY <1>1, Invariance, PTL

\* The readiness the server's health is derived from is never up without every
\* required service having been reached since the client was last started.
THEOREM ReadinessIsTrue == Spec => []ReadyMeansVerified
<1>1. IInv => ReadyMeansVerified
  BY DEF IInv, ReadinessKept
<1> QED
  BY <1>1, Invariance, PTL

\* What the two plugins publish about themselves is true while it is published, no poller
\* survives a start-up of the server that failed, and a stopped server's health service
\* stays shut down, whatever a late poll sets.
THEOREM ContractsTrue == Spec => []ContractsHold
<1>1. IInv => ContractsHold
  BY DEF IInv, ReadinessKept, PollerInv, HealthInv, ContractsHold
<1> QED
  BY <1>1, Invariance, PTL

-----------------------------------------------------------------------------
(* The promise to whoever reads the readiness *)

\* The steps of the check: one that concerns the promise is a service reached, the
\* caller giving up, or the verdict; the channels and the workers do not show.
LEMMA CheckKeepsPromise ==
  ASSUME IInv, IInv', CheckNext, UNCHANGED <<clientVars, serverVars>>
  PROVE  [Promise!Next]_(Promise!registerVars)
<1>1. CASE StopDispatch
  BY <1>1 DEF StopDispatch, Promise!registerVars
<1>2. CASE Join
  <2>1. check = "wait" /\ check' = "done" /\ ctxDone' = FALSE /\ UNCHANGED verified
    BY <1>2 DEF Join, Forget
  <2>2. outcome' \in {"ok", "unavailable", "canceled"}
    BY <1>2, FirstError DEF Join, IInv, TypeOK
  <2>3. outcome' = "ok" => verified = Services /\ (ctxDone => Services = {})
    <3>1. outcome' = "ok" => verified' = Services
      BY DEF IInv, CheckInv, OutcomeTrue, OkMeansVerified
    <3> QED
      BY <1>2, <2>1, <3>1, FirstError DEF Join, IInv, TypeOK
  <2>4. outcome' = "canceled" => ctxDone
    BY <1>2 DEF Join, IInv, CheckInv, FirstErrorIsReal
  <2>5. Promise!Return
    BY <2>1, <2>2, <2>3, <2>4 DEF Promise!Return, clientVars
  <2> QED
    BY <2>5 DEF Promise!Next
<1>3. CASE CallerCancels
  <2>1. Promise!GiveUp
    BY <1>3 DEF CallerCancels, Promise!GiveUp
  <2> QED
    BY <2>1 DEF Promise!Next
<1>4. ASSUME NEW w \in Workers, Build(w) PROVE [Promise!Next]_(Promise!registerVars)
  <2>1. check \in {"dispatch", "wait"} /\ job[w] \in Services
    BY <1>4 DEF Build, IInv, TypeOK, CheckTypeOK, CheckInv, WorkersJoined, JobsHeld
  <2>2. CASE verified' = verified \cup {job[w]}
    <3>1. Promise!Reach
      BY <1>4, <2>1, <2>2 DEF Build, Promise!Reach
    <3> QED
      BY <3>1 DEF Promise!Next
  <2>3. CASE UNCHANGED verified
    BY <1>4, <2>3 DEF Build, Promise!registerVars
  <2> QED
    BY <1>4, <2>2, <2>3 DEF Build
<1>5. ASSUME NEW w \in Workers,
             HandOut(w) \/ Exit(w) \/ Entry(w) \/ Report(w) \/ Cancel(w)
      PROVE  [Promise!Next]_(Promise!registerVars)
  BY <1>5 DEF HandOut, Exit, Entry, Report, Cancel, Promise!registerVars
<1> QED
  BY <1>1, <1>2, <1>3, <1>4, <1>5 DEF CheckNext, WorkerStep

\* The steps of the client; those of the server leave everything promised alone.
LEMMA ClientKeepsPromise ==
  ASSUME IInv, InitializeClient \/ StartClient \/ ClientStep \/ StopClient
  PROVE  [Promise!Next]_(Promise!registerVars)
<1>0. CASE InitializeClient
  <2>1. check \notin {"dispatch", "wait"}
    BY <1>0 DEF InitializeClient, IInv, ReadinessKept
  <2>2. Promise!Clear
    BY <1>0, <2>1 DEF InitializeClient, Promise!Clear, IInv, TypeOK, ReadinessKept, checkVars
  <2> QED
    BY <2>2 DEF Promise!Next
<1>1. CASE StartClient
  <2>1. Promise!Start
    BY <1>1 DEF StartClient, Begin, Promise!Start
  <2> QED
    BY <2>1 DEF Promise!Next
<1>2. CASE Checked
  <2>1. CASE outcome = "ok"
    <3>1. Promise!Raise
      BY <1>2, <2>1 DEF Checked, Promise!Raise, IInv, ReadinessKept, checkVars
    <3> QED
      BY <3>1 DEF Promise!Next
  <2>2. CASE outcome # "ok"
    BY <1>2, <2>2 DEF Checked, Promise!registerVars, checkVars
  <2> QED
    BY <2>1, <2>2
<1>3. CASE RegisterClient \/ ClientHealth \/ StopClient
  <2>1. UNCHANGED checkVars /\ UNCHANGED required
    BY <1>3 DEF RegisterClient, ClientHealth, StopClient
  <2>2. CASE UNCHANGED clientContract
    BY <2>1, <2>2 DEF Promise!registerVars, checkVars
  <2>3. CASE clientContract' = FALSE
    <3>1. Promise!Withdraw
      BY <2>1, <2>3 DEF Promise!Withdraw, checkVars
    <3> QED
      BY <3>1 DEF Promise!Next
  <2>4. CASE ClientHealth /\ clientContract' = TRUE
    <3>1. Promise!Attest
      BY <2>1, <2>4 DEF ClientHealth, Promise!Attest, IInv, ReadinessKept, checkVars
    <3> QED
      BY <3>1 DEF Promise!Next
  <2> QED
    BY <1>3, <2>2, <2>3, <2>4 DEF RegisterClient, ClientHealth, StopClient
<1> QED
  BY <1>0, <1>1, <1>2, <1>3 DEF ClientStep

\* Both plugins, started and stopped in any order, keep the promise: the readiness goes
\* up only on a check's good verdict and comes down before the next check, and every
\* verdict is true of what was reached and of who still waited (client.go:220-299).
THEOREM ImplementsRegister == Spec => KeepsPromise
<1>1. Init => Promise!Init
  BY DEF Init, CheckInit, Promise!Init
<1>2. IInv /\ IInv' /\ [Next]_vars => [Promise!Next]_(Promise!registerVars)
  <2> SUFFICES ASSUME IInv, IInv', [Next]_vars PROVE [Promise!Next]_(Promise!registerVars)
    OBVIOUS
  <2>1. CASE CheckNext /\ UNCHANGED <<clientVars, serverVars>>
    BY <2>1, CheckKeepsPromise
  <2>2. CASE InitializeClient \/ StartClient \/ ClientStep \/ StopClient
    BY <2>2, ClientKeepsPromise
  <2>3. CASE UNCHANGED <<checkVars, clientVars>>
    BY <2>3 DEF checkVars, Promise!registerVars
  <2>4. StartServer \/ StopServer \/ ServerStep \/ PollerStep \/ PollerExits
          => UNCHANGED <<checkVars, clientVars>>
    BY DEF StartServer, ServerStep, ReadAtStart, SetAtStart, StartPoller, RegisterServer, Cleanup,
           Drained, ShutDown, StopServer, PollerStep, Tick, PollRead, PollSet, PollerExits
  <2> QED
    BY <2>1, <2>2, <2>3, <2>4 DEF Next, vars
<1> QED
  BY <1>1, <1>2, Invariance, PTL DEF Spec, KeepsPromise, Promise!Spec
=============================================================================
