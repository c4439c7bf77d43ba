-------------------------- MODULE RequiredServices --------------------------
(***************************************************************************)
(* client.go, CheckRequiredServicesContext: the check, at start-up, that   *)
(* the required services can be reached.  A dispatcher hands the services  *)
(* to workers over an unbuffered channel; a worker that fails reports its  *)
(* error on a buffered one and cancels the context all checks share.       *)
(*                                                                         *)
(* Whether a service can be reached is open, and only what kind of error a *)
(* check gives is kept: the service's own, or that the context was done.   *)
(***************************************************************************)
EXTENDS Naturals, FiniteSets, Sequences

CONSTANTS
    Services,   \* the required services, if any
    Workers,    \* the goroutines that check them
    MaxChecks,  \* maxConcurrentRequiredChecks, 8
    None        \* no service

ASSUME RequiredAssumption ==
    /\ IsFiniteSet(Services) /\ IsFiniteSet(Workers) /\ None \notin Services
    /\ MaxChecks \in Nat \ {0}
    /\ Cardinality(Workers) =
         IF Cardinality(Services) < MaxChecks THEN Cardinality(Services) ELSE MaxChecks

VARIABLES
    check,      \* where the dispatcher is
    pending,    \* the services it has not handed out
    job,        \* the service each worker has
    worker,     \* where each worker is
    failure,    \* the error of its check
    errCh,      \* the errors reported
    cancelled,  \* cancel() was called
    ctxDone,    \* the caller's context is done
    outcome,    \* what the check returned
    verified    \* history: the services found reachable since the check began

checkVars == <<check, pending, job, worker, failure, errCh, cancelled, ctxDone, outcome, verified>>

Failures == {"none", "unavailable", "canceled"}

CheckTypeOK ==
    /\ check \in {"idle", "dispatch", "wait", "done"}
    /\ pending \subseteq Services /\ verified \subseteq Services
    /\ job \in [Workers -> Services \cup {None}]
    /\ worker \in [Workers -> {"off", "receive", "entry", "build", "report", "cancel"}]
    /\ failure \in [Workers -> Failures]
    /\ errCh \in Seq(Failures \ {"none"}) /\ Len(errCh) <= Cardinality(Services)
    /\ cancelled \in BOOLEAN /\ ctxDone \in BOOLEAN
    /\ outcome \in {"none", "ok", "unavailable", "canceled"}

CheckInit ==
    /\ check = "idle" /\ pending = {} /\ errCh = <<>> /\ outcome = "none" /\ verified = {}
    /\ job = [w \in Workers |-> None] /\ worker = [w \in Workers |-> "off"]
    /\ failure = [w \in Workers |-> "none"]
    /\ cancelled = FALSE /\ ctxDone = FALSE

Done == cancelled \/ ctxDone   \* checkCtx.Done()

Begin ==
    /\ check \in {"idle", "done"}
    /\ check' = "dispatch" /\ pending' = Services
    /\ worker' = [w \in Workers |-> "receive"]
    /\ errCh' = <<>> /\ outcome' = "none" /\ verified' = {} /\ cancelled' = FALSE
    /\ UNCHANGED <<job, failure, ctxDone>>

\* jobs <- svc meets a worker that ranges over jobs.
HandOut(w) ==
    /\ check = "dispatch" /\ worker[w] = "receive"
    /\ \E s \in pending : /\ pending' = pending \ {s}
                          /\ job' = [job EXCEPT ![w] = s]
    /\ worker' = [worker EXCEPT ![w] = "entry"]
    /\ UNCHANGED <<check, failure, errCh, cancelled, ctxDone, outcome, verified>>

\* The loop ends, or its select takes checkCtx.Done(); close(jobs).
StopDispatch ==
    /\ check = "dispatch" /\ (pending = {} \/ Done)
    /\ check' = "wait"
    /\ UNCHANGED <<pending, job, worker, failure, errCh, cancelled, ctxDone, outcome, verified>>

Exit(w) ==
    /\ worker[w] = "receive" /\ check = "wait"
    /\ worker' = [worker EXCEPT ![w] = "off"]
    /\ UNCHANGED <<check, pending, job, failure, errCh, cancelled, ctxDone, outcome, verified>>

Fails(w, f) ==
    /\ failure' = [failure EXCEPT ![w] = f]
    /\ worker' = [worker EXCEPT ![w] = "report"]

Entry(w) ==
    /\ worker[w] = "entry"
    /\ IF Done THEN Fails(w, "canceled")
               ELSE worker' = [worker EXCEPT ![w] = "build"] /\ UNCHANGED failure
    /\ UNCHANGED <<check, pending, job, errCh, cancelled, ctxDone, outcome, verified>>

\* The temporary connection becomes ready, or does not within the timeout, or
\* the wait is cut short by the context.
Build(w) ==
    /\ worker[w] = "build"
    /\ \/ /\ worker' = [worker EXCEPT ![w] = "receive"]
          /\ verified' = verified \cup {job[w]}
          /\ job' = [job EXCEPT ![w] = None]
          /\ UNCHANGED failure
       \/ Fails(w, "unavailable") /\ UNCHANGED <<verified, job>>
       \/ Done /\ Fails(w, "canceled") /\ UNCHANGED <<verified, job>>
    /\ UNCHANGED <<check, pending, errCh, cancelled, ctxDone, outcome>>

\* Variant: the error is reported after the others have been cancelled.
ReportCancelling(w) ==
    /\ worker[w] = "report"
    /\ \/ ~cancelled /\ cancelled' = TRUE /\ UNCHANGED <<errCh, worker>>
       \/ /\ cancelled
          /\ errCh' = Append(errCh, failure[w])
          /\ worker' = [worker EXCEPT ![w] = "cancel"]
          /\ UNCHANGED cancelled
    /\ UNCHANGED <<check, pending, job, failure, ctxDone, outcome, verified>>

\* Variant: the error channel has room for one error only.
ReportUnbuffered(w) ==
    /\ worker[w] = "report" /\ Len(errCh) < 1
    /\ errCh' = Append(errCh, failure[w])
    /\ worker' = [worker EXCEPT ![w] = "cancel"]
    /\ UNCHANGED <<check, pending, job, failure, cancelled, ctxDone, outcome, verified>>

\* The channel has room for an error of every service.
Report(w) ==
    /\ worker[w] = "report" /\ Len(errCh) < Cardinality(Services)
    /\ errCh' = Append(errCh, failure[w])
    /\ worker' = [worker EXCEPT ![w] = "cancel"]
    /\ UNCHANGED <<check, pending, job, failure, cancelled, ctxDone, outcome, verified>>

Cancel(w) ==
    /\ worker[w] = "cancel"
    /\ cancelled' = TRUE
    /\ worker' = [worker EXCEPT ![w] = "receive"]
    /\ job' = [job EXCEPT ![w] = None]
    /\ failure' = [failure EXCEPT ![w] = "none"]
    /\ UNCHANGED <<check, pending, errCh, ctxDone, outcome, verified>>

\* The channels and contexts of a check that has returned.
Forget == pending' = {} /\ errCh' = <<>> /\ cancelled' = FALSE /\ ctxDone' = FALSE

\* Variant: only errors of checks count, not the caller's context.
JoinIgnoringContext ==
    /\ check = "wait" /\ \A w \in Workers : worker[w] = "off"
    /\ check' = "done"
    /\ outcome' = IF errCh # <<>> THEN Head(errCh) ELSE "ok"
    /\ Forget
    /\ UNCHANGED <<job, worker, failure, verified>>

\* wg.Wait(); the first error, else that of the caller's context, is returned.  Without
\* required services the check succeeds without a look at the context.
Join ==
    /\ check = "wait" /\ \A w \in Workers : worker[w] = "off"
    /\ check' = "done"
    /\ outcome' = IF errCh # <<>> THEN Head(errCh)
                  ELSE IF ctxDone /\ Services # {} THEN "canceled" ELSE "ok"
    /\ Forget
    /\ UNCHANGED <<job, worker, failure, verified>>

\* The caller gives up.
CallerCancels ==
    /\ check \in {"dispatch", "wait"} /\ ~ctxDone
    /\ ctxDone' = TRUE
    /\ UNCHANGED <<check, pending, job, worker, failure, errCh, cancelled, outcome, verified>>

WorkerStep(w) == HandOut(w) \/ Exit(w) \/ Entry(w) \/ Build(w) \/ Report(w) \/ Cancel(w)
CheckNext == StopDispatch \/ Join \/ CallerCancels \/ \E w \in Workers : WorkerStep(w)


(***************************************************************************)
(* Properties                                                              *)
(***************************************************************************)

\* The check succeeds only after every required service was reached, although
\* dispatching stops at the first error and at the caller's cancellation.
OkMeansVerified == outcome = "ok" => verified = Services

\* Unless the caller gave up, the first error reported, which is the one returned,
\* is that of a service, not that of a check which another's failure cancelled.
FirstErrorIsReal == errCh # <<>> /\ Head(errCh) = "canceled" => ctxDone
=============================================================================
