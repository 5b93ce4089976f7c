----------------------------- MODULE StepAttempt -----------------------------
(***************************************************************************)
(* One step under its retry and timeout policy: _execute_step_with_policy  *)
(* in the job thread, and the worker threads of its attempts.  An attempt  *)
(* that timed out cannot be stopped: its thread goes on as a zombie, and   *)
(* the attempt_active event of that attempt is what keeps its result out.  *)
(*                                                                         *)
(* The callback a handler polls, context["cancelled"], reads the variables *)
(* attempt_active and deadline of the job thread's loop when it is called, *)
(* so that it tells every handler about the current attempt.               *)
(***************************************************************************)
EXTENDS Naturals, FiniteSets

CONSTANT MaxRetries

ASSUME AttemptAssumption == MaxRetries \in Nat

Attempt == 1..(MaxRetries + 1)

VARIABLES
    policy,     \* the step: retries, timeout, sideEffecting, idempotent, terminal
    cancelled,  \* what _cancelled answers
    rpc,        \* where the job thread is
    k,          \* the current attempt
    wpc,        \* where the worker of every attempt is
    outcome,    \* how the worker's future was resolved
    live,       \* the attempts whose attempt_active is set
    past,       \* the attempts whose deadline has passed
    done,       \* future.done() as read after the wait expired
    committed,  \* the attempt whose local outputs were copied out
    published,  \* the attempts that updated the result of the job
    late,       \* history: those that did so after they had expired
    invoked     \* history: handlers invoked

jobThread == <<rpc, k, done, committed>>
workers   == <<wpc, outcome, published, late, invoked>>
vars      == <<policy, cancelled, jobThread, workers, live, past>>

Policy == [retries: 0..MaxRetries, timeout: BOOLEAN, sideEffecting: BOOLEAN,
           idempotent: BOOLEAN, terminal: BOOLEAN]

Attempts == policy.retries + 1

Init ==
    /\ policy \in Policy /\ cancelled = FALSE
    /\ rpc = "validate" /\ k = 0 /\ done = FALSE /\ committed = 0
    /\ wpc = [w \in Attempt |-> "off"] /\ outcome = [w \in Attempt |-> "none"]
    /\ live = {} /\ past = {}
    /\ published = {} /\ late = {} /\ invoked = {}

-----------------------------------------------------------------------------
(* The job thread *)

\* Mutant: retries are allowed without an idempotency contract.
ValidateNothing ==
    /\ rpc = "validate"
    /\ rpc' = "start"
    /\ UNCHANGED <<policy, cancelled, k, done, committed, workers, live, past>>

Validate ==
    /\ rpc = "validate"
    /\ rpc' = IF policy.retries > 0 /\ policy.sideEffecting /\ ~policy.idempotent
              THEN "raised" ELSE "start"
    /\ UNCHANGED <<policy, cancelled, k, done, committed, workers, live, past>>

\* _start_step, and the attempt is submitted to an executor of its own.
StartAttempt ==
    /\ rpc = "start"
    /\ k' = k + 1
    /\ live' = live \cup {k + 1}
    /\ wpc' = [wpc EXCEPT ![k + 1] = "pending"]
    /\ rpc' = "wait"
    /\ UNCHANGED <<policy, cancelled, done, committed, outcome, published, late, invoked, past>>

\* future.result() returned: the local outputs replace the shared ones.
TakeResult ==
    /\ rpc = "wait" /\ wpc[k] = "resolved" /\ outcome[k] = "value"
    /\ committed' = k
    /\ live' = live \ {k}
    /\ rpc' = "succeeded"
    /\ UNCHANGED <<policy, cancelled, k, done, workers, past>>

\* Mutant: one attempt too many.
RetryOnceMore == rpc' = IF cancelled \/ k > Attempts THEN "raised" ELSE "start"

\* After a failed attempt: the next one, unless the run is cancelled or this
\* was the last one.
RetryOrRaise == rpc' = IF cancelled \/ k = Attempts THEN "raised" ELSE "start"

\* future.result() raised what the worker raised, other than TimeoutError.
TakeError ==
    /\ rpc = "wait" /\ wpc[k] = "resolved" /\ outcome[k] \in {"error", "expired"}
    /\ RetryOrRaise
    /\ live' = IF cancelled THEN live ELSE live \ {k}
    /\ UNCHANGED <<policy, cancelled, k, done, committed, workers, past>>

\* ... a TimeoutError of the handler, or the wait itself expired.
TakeTimeout ==
    /\ rpc = "wait"
    /\ \/ wpc[k] = "resolved" /\ outcome[k] = "timeout"
       \/ policy.timeout /\ k \in past /\ wpc[k] # "resolved"
    /\ rpc' = "timedOut"
    /\ UNCHANGED <<policy, cancelled, k, done, committed, workers, live, past>>

ReadDone ==
    /\ rpc = "timedOut"
    /\ done' = (wpc[k] = "resolved")
    /\ rpc' = "expire"
    /\ UNCHANGED <<policy, cancelled, k, committed, workers, live, past>>

\* Mutant: the attempt stays active.
ExpireActive ==
    /\ rpc = "expire"
    /\ wpc' = IF wpc[k] = "pending" THEN [wpc EXCEPT ![k] = "dropped"] ELSE wpc
    /\ rpc' = IF done THEN "providerError" ELSE "stepTimeout"
    /\ UNCHANGED <<policy, cancelled, k, done, committed, outcome, published, late, invoked,
                   live, past>>

\* Mutant: the executor is shut down with wait=True.
ExpireWaiting ==
    /\ rpc = "expire" /\ wpc[k] = "resolved"
    /\ live' = live \ {k}
    /\ rpc' = IF done THEN "providerError" ELSE "stepTimeout"
    /\ UNCHANGED <<policy, cancelled, k, done, committed, workers, past>>

\* attempt_active.clear() and future.cancel(), which drops a worker that has not
\* begun; the executor is shut down without waiting.
Expire ==
    /\ rpc = "expire"
    /\ live' = live \ {k}
    /\ wpc' = IF wpc[k] = "pending" THEN [wpc EXCEPT ![k] = "dropped"] ELSE wpc
    /\ rpc' = IF done THEN "providerError" ELSE "stepTimeout"
    /\ UNCHANGED <<policy, cancelled, k, done, committed, outcome, published, late, invoked, past>>

AfterTimeout ==
    /\ rpc \in {"providerError", "stepTimeout"}
    /\ RetryOrRaise
    /\ UNCHANGED <<policy, cancelled, k, done, committed, workers, live, past>>

RunPolicy ==
    \/ Validate \/ StartAttempt \/ TakeResult \/ TakeError
    \/ TakeTimeout \/ ReadDone \/ Expire \/ AfterTimeout

-----------------------------------------------------------------------------
(* The worker of an attempt: _execute_step *)

Resolve(w, how) ==
    /\ wpc' = [wpc EXCEPT ![w] = "resolved"]
    /\ outcome' = [outcome EXCEPT ![w] = how]

EnterWorker(w) ==
    /\ wpc[w] = "pending"
    /\ IF w \in live
       THEN /\ wpc' = [wpc EXCEPT ![w] = "handler"]
            /\ invoked' = invoked \cup {w}
            /\ UNCHANGED outcome
       ELSE Resolve(w, "expired") /\ UNCHANGED invoked
    /\ UNCHANGED <<policy, cancelled, jobThread, published, late, live, past>>

\* attempt_cancelled(), as the closure evaluates it.
ToldToStop == k \notin live \/ cancelled \/ (policy.timeout /\ k \in past)

HandlerStops(w) ==
    /\ wpc[w] = "handler" /\ ToldToStop
    /\ Resolve(w, "error")
    /\ UNCHANGED <<policy, cancelled, jobThread, published, late, invoked, live, past>>

HandlerRaises(w) ==
    /\ wpc[w] = "handler"
    /\ \E how \in {"error", "timeout"} : Resolve(w, how)
    /\ UNCHANGED <<policy, cancelled, jobThread, published, late, invoked, live, past>>

\* Mutant: the handler's output goes to the shared outputs at once.
HandlerReturnsShared(w) ==
    /\ wpc[w] = "handler"
    /\ wpc' = [wpc EXCEPT ![w] = "stored"]
    /\ committed' = w
    /\ UNCHANGED <<policy, cancelled, rpc, k, done, outcome, published, late, invoked, live, past>>

\* The handler returned: an expired attempt raises, before its output is stored.
HandlerReturns(w) ==
    /\ wpc[w] = "handler"
    /\ IF w \in live THEN wpc' = [wpc EXCEPT ![w] = "stored"] /\ UNCHANGED outcome
                     ELSE Resolve(w, "expired")
    /\ UNCHANGED <<policy, cancelled, jobThread, published, late, invoked, live, past>>

\* A terminal output is published only if the attempt is active when it looks ...
CheckActive(w) ==
    /\ wpc[w] = "stored"
    /\ IF policy.terminal /\ w \in live
       THEN wpc' = [wpc EXCEPT ![w] = "publish"] /\ UNCHANGED outcome
       ELSE Resolve(w, "value")
    /\ UNCHANGED <<policy, cancelled, jobThread, published, late, invoked, live, past>>

\* ... by job_manager.update_result, later.
UpdateResult(w) ==
    /\ wpc[w] = "publish"
    /\ published' = published \cup {w}
    /\ late' = IF w \in live THEN late ELSE late \cup {w}
    /\ Resolve(w, "value")
    /\ UNCHANGED <<policy, cancelled, jobThread, invoked, live, past>>

Work(w) ==
    \/ EnterWorker(w) \/ HandlerStops(w) \/ HandlerRaises(w) \/ HandlerReturns(w)
    \/ CheckActive(w) \/ UpdateResult(w)

-----------------------------------------------------------------------------

\* The deadline of the current attempt passes.
Tick ==
    /\ k \in Attempt /\ k \notin past
    /\ past' = past \cup {k}
    /\ UNCHANGED <<policy, cancelled, jobThread, workers, live>>

CancelRun ==
    /\ ~cancelled
    /\ cancelled' = TRUE
    /\ UNCHANGED <<policy, jobThread, workers, live, past>>

Ended == rpc \in {"succeeded", "raised"}

\* The step has ended and no zombie is left.
Rest ==
    /\ Ended /\ \A w \in Attempt : wpc[w] \in {"off", "dropped", "resolved"}
    /\ UNCHANGED vars

Next == RunPolicy \/ (\E w \in Attempt : Work(w)) \/ Tick \/ CancelRun \/ Rest

Spec == Init /\ [][Next]_vars

\* The job thread runs and time passes; nothing is assumed of the handlers.
FairSpec == Spec /\ WF_vars(RunPolicy) /\ WF_vars(Tick)

-----------------------------------------------------------------------------
(* Properties *)

\* Every variable has its type.
TypeOK ==
    /\ policy \in Policy /\ cancelled \in BOOLEAN /\ done \in BOOLEAN
    /\ rpc \in {"validate", "start", "wait", "timedOut", "expire", "providerError",
                "stepTimeout", "succeeded", "raised"}
    /\ k \in 0..Attempts /\ committed \in 0..Attempts
    /\ wpc \in [Attempt -> {"off", "pending", "dropped", "handler", "stored", "publish",
                            "resolved"}]
    /\ outcome \in [Attempt -> {"none", "value", "error", "timeout", "expired"}]
    /\ live \subseteq Attempt /\ past \subseteq Attempt
    /\ published \subseteq Attempt /\ late \subseteq Attempt /\ invoked \subseteq Attempt

\* Only the current attempt is ever active, whatever zombies are left.
OneLiveAttempt == live \subseteq {k}

\* A side-effecting step without an idempotency contract is invoked at most
\* once, whatever times out.
AtMostOneEffect ==
    policy.sideEffecting /\ ~policy.idempotent => Cardinality(invoked) <= 1

\* The outputs of an attempt that expired are never taken over, however late
\* its handler returns.
LateResultDropped ==
    [][\A w \in Attempt : committed' = w /\ committed # w => w \in live]_vars

\* A step with a timeout ends, even when none of its handlers ever returns.
StepEnds == policy.timeout ~> Ended

-----------------------------------------------------------------------------
(* What the documentation says and the code does not do *)

\* "Prevent a timed-out attempt from publishing late local results."
NoLatePublication == late = {}
=============================================================================
