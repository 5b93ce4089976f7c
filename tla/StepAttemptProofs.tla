------------------------- MODULE StepAttemptProofs -------------------------
(***************************************************************************)
(* Proofs about StepAttempt, for every number of retries: its type         *)
(* invariant, that zombies of expired attempts are never taken for the     *)
(* current one, that their results are never taken over, and that a        *)
(* side-effecting handler is invoked at most once.                         *)
(***************************************************************************)
EXTENDS StepAttempt, FiniteSetTheorems, TLAPS

NonIdempotent == policy.sideEffecting /\ ~policy.idempotent

\* The attempts that were begun are 1..k; another one is begun only while there
\* is one left.
Begun ==
    /\ rpc = "validate" => k = 0
    /\ rpc = "start" => k < Attempts
    /\ rpc \in {"wait", "timedOut", "expire", "providerError", "stepTimeout"} => k \in 1..Attempts
    /\ \A w \in Attempt : wpc[w] # "off" => w <= k
    /\ \A w \in invoked : w <= k

\* The current attempt is active exactly while the job thread waits for it; a
\* cancelled run may leave it active when it raises.
Live ==
    /\ live \subseteq {k}
    /\ rpc \in {"wait", "timedOut", "expire"} => k \in live
    /\ rpc \in {"validate", "start", "providerError", "stepTimeout"} => live = {}

\* A step that must not be retried has one attempt.
Single ==
    NonIdempotent =>
        /\ k <= 1
        /\ rpc \notin {"validate", "raised"} => policy.retries = 0

\* The inductive invariant.
IInv == TypeOK /\ Begun /\ Live /\ Single

LEMMA InitIInv == Init => IInv
<1> SUFFICES ASSUME Init PROVE IInv
    OBVIOUS
<1> USE AttemptAssumption DEF Init
<1>1. TypeOK
  <2>1. k \in 0..Attempts /\ committed \in 0..Attempts  BY DEF Policy, Attempts
  <2> QED BY <2>1 DEF TypeOK
<1>2. Begun   BY DEF Begun, Policy, Attempts
<1>3. Live    BY DEF Live
<1>4. Single  BY DEF Single
<1> QED BY <1>1, <1>2, <1>3, <1>4 DEF IInv

\* The actions of the job thread.
LEMMA JobThreadStep == IInv /\ RunPolicy => IInv'
<1> SUFFICES ASSUME IInv, RunPolicy PROVE IInv'
    OBVIOUS
<1> USE AttemptAssumption
    DEF IInv, TypeOK, Begun, Live, Single, NonIdempotent, Policy, Attempts, Attempt, workers,
        jobThread
<1>1. CASE Validate
  <2> USE <1>1 DEF Validate
  <2>1. TypeOK' /\ Live'  OBVIOUS
  <2>2. Begun'           OBVIOUS
  <2>3. Single'
    <3>1. CASE policy.retries > 0  BY <3>1
    <3>2. CASE policy.retries = 0  BY <3>2
    <3> QED BY <3>1, <3>2
  <2> QED BY <2>1, <2>2, <2>3
<1>2. CASE StartAttempt
  <2> USE <1>2 DEF StartAttempt
  <2>1. k + 1 \in Attempt /\ k + 1 <= Attempts  OBVIOUS
  <2>2. TypeOK'  BY <2>1
  <2>3. Begun'   BY <2>1
  <2>4. Live'    OBVIOUS
  <2>5. Single'  OBVIOUS
  <2> QED BY <2>2, <2>3, <2>4, <2>5
<1>3. CASE TakeResult    BY <1>3 DEF TakeResult
<1>4. CASE TakeError     BY <1>4 DEF TakeError, RetryOrRaise
<1>5. CASE TakeTimeout   BY <1>5 DEF TakeTimeout
<1>6. CASE ReadDone      BY <1>6 DEF ReadDone
<1>7. CASE Expire        BY <1>7 DEF Expire
<1>8. CASE AfterTimeout  BY <1>8 DEF AfterTimeout, RetryOrRaise
<1> QED BY <1>1, <1>2, <1>3, <1>4, <1>5, <1>6, <1>7, <1>8 DEF RunPolicy

\* The actions of the workers: they change nothing of the job thread.
LEMMA WorkerStep == ASSUME NEW w \in Attempt, IInv, Work(w) PROVE IInv'
<1> USE DEF Work, Resolve
<1>1. UNCHANGED <<policy, cancelled, jobThread, live, past>>
    BY DEF EnterWorker, HandlerStops, HandlerRaises, HandlerReturns, CheckActive, UpdateResult
<1>2. /\ wpc[w] # "off"
      /\ \E l \in {"handler", "stored", "publish", "resolved"} : wpc' = [wpc EXCEPT ![w] = l]
    BY DEF EnterWorker, HandlerStops, HandlerRaises, HandlerReturns, CheckActive, UpdateResult
<1>3. \/ UNCHANGED outcome
      \/ \E how \in {"value", "error", "timeout", "expired"} :
           outcome' = [outcome EXCEPT ![w] = how]
    BY DEF EnterWorker, HandlerStops, HandlerRaises, HandlerReturns, CheckActive, UpdateResult
<1>4. /\ invoked' \in {invoked, invoked \cup {w}}
      /\ published' \in {published, published \cup {w}}
      /\ late' \in {late, late \cup {w}}
    BY DEF EnterWorker, HandlerStops, HandlerRaises, HandlerReturns, CheckActive, UpdateResult
<1>5. TypeOK'
  <2> USE DEF IInv, TypeOK, jobThread
  <2>1. wpc' \in [Attempt -> {"off", "pending", "dropped", "handler", "stored", "publish",
                              "resolved"}]
      BY <1>2
  <2>2. outcome' \in [Attempt -> {"none", "value", "error", "timeout", "expired"}]
      BY <1>3
  <2>3. published' \subseteq Attempt /\ late' \subseteq Attempt /\ invoked' \subseteq Attempt
      BY <1>4
  <2> QED BY <1>1, <2>1, <2>2, <2>3 DEF Attempts
<1>6. Begun'
    BY <1>1, <1>2, <1>4 DEF IInv, TypeOK, Begun, Attempts, jobThread
<1>7. Live' /\ Single'
    BY <1>1 DEF IInv, Live, Single, NonIdempotent, jobThread
<1> QED BY <1>5, <1>6, <1>7 DEF IInv

LEMMA NextIInv == IInv /\ [Next]_vars => IInv'
<1> SUFFICES ASSUME IInv, [Next]_vars PROVE IInv'
    OBVIOUS
<1> USE DEF IInv, TypeOK, Begun, Live, Single, NonIdempotent, Policy, Attempts, Attempt
<1>1. CASE RunPolicy                    BY <1>1, JobThreadStep
<1>2. CASE \E w \in Attempt : Work(w)   BY <1>2, WorkerStep
<1>3. CASE Tick                         BY <1>3 DEF Tick, jobThread, workers
<1>4. CASE CancelRun                    BY <1>4 DEF CancelRun, jobThread, workers
<1>5. CASE Rest                         BY <1>5 DEF Rest, vars, jobThread, workers
<1>6. CASE UNCHANGED vars               BY <1>6 DEF vars, jobThread, workers
<1> QED BY <1>1, <1>2, <1>3, <1>4, <1>5, <1>6 DEF Next

LEMMA Inductive == Spec => []IInv
BY InitIInv, NextIInv, PTL DEF Spec

-----------------------------------------------------------------------------

\* Type correctness of the step policy, whatever the number of retries.
THEOREM TypeCorrect == Spec => []TypeOK
<1>1. IInv => TypeOK  BY DEF IInv
<1> QED BY <1>1, Inductive, PTL

\* attempt_active of an expired attempt is clear: only the current attempt is
\* ever active.
THEOREM OnlyCurrentAttemptLives == Spec => []OneLiveAttempt
<1>1. IInv => OneLiveAttempt  BY DEF IInv, Live, OneLiveAttempt
<1> QED BY <1>1, Inductive, PTL

\* The handler of a side-effecting step without an idempotency contract is
\* invoked at most once.
THEOREM EffectsHappenOnce == Spec => []AtMostOneEffect
<1>1. IInv => AtMostOneEffect
  <2> SUFFICES ASSUME IInv, NonIdempotent PROVE Cardinality(invoked) <= 1
      BY DEF AtMostOneEffect, NonIdempotent
  <2>1. invoked \subseteq {1}
      BY AttemptAssumption DEF IInv, TypeOK, Begun, Single, Attempts, Policy, Attempt
  <2>2. IsFiniteSet({1}) /\ Cardinality({1}) = 1
      BY FS_Singleton
  <2> QED BY <2>1, <2>2, FS_Subset
<1> QED BY <1>1, Inductive, PTL

\* The job thread takes over the outputs of an active attempt only.
THEOREM ExpiredResultsAreDropped == Spec => LateResultDropped
<1> DEFINE Takeover == \A w \in Attempt : committed' = w /\ committed # w => w \in live
<1>1. IInv /\ [Next]_vars => [Takeover]_vars
  <2> SUFFICES ASSUME IInv, Next PROVE Takeover
      OBVIOUS
  <2>1. CASE TakeResult
      BY <2>1 DEF IInv, Live, TakeResult
  <2>2. CASE UNCHANGED committed
      BY <2>2
  <2> QED
      BY <2>1, <2>2
      DEF Next, RunPolicy, Validate, StartAttempt, TakeError, TakeTimeout, ReadDone, Expire,
          AfterTimeout, Work, EnterWorker, HandlerStops, HandlerRaises, HandlerReturns,
          CheckActive, UpdateResult, Tick, CancelRun, Rest, vars, jobThread
<1> QED BY <1>1, Inductive, PTL DEF Spec, LateResultDropped
=============================================================================
