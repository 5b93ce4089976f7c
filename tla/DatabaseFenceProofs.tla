------------------------ MODULE DatabaseFenceProofs ------------------------
(***************************************************************************)
(* Proofs about DatabaseFence, for any number of requests, operations,     *)
(* jobs and switches: the counter is exact, a session and an operation see *)
(* one engine only, and no switch happens under a workflow job but for the *)
(* ones that a late cancellation or a resume hides from the job manager.   *)
(***************************************************************************)
EXTENDS DatabaseFence, FiniteSetTheorems, TLAPS

\* The counter can be compared because the sets it counts are finite.
Counted == IsFiniteSet(fenced) /\ IsFiniteSet(session)

\* A starter is inside operation() between its entry and its exit, and opens
\* its sessions there.
Inside ==
    /\ \A s \in Starter :
          s \in fenced <=> spc[s] \in {"work", "pending", "resumed", "started", "answered"}
    /\ \A s \in Starter \cap session :
          /\ spc[s] \in {"work", "started"}
          /\ spc[s] = "work" => left[s] > 0

\* One activate call at a time is between its test of _switching and its end.
OneSwitch ==
    /\ \A a \in Activator : apc[a] # "idle" => switching
    /\ \A a, b \in Activator : apc[a] # "idle" /\ apc[b] # "idle" => a = b

\* A job at work has been started, and is running but for a late cancellation.
AtWork ==
    \A s \in working :
        /\ spc[s] \in {"started", "answered", "done"}
        /\ job[s] \in {"running", "cancelled"}

\* A call that has drained the database is alone: nobody uses the engine, and no
\* job is at work that the code sees.
Alone ==
    \A a \in Activator : apc[a] = "migrate" =>
        /\ fenced = {} /\ session = {}
        /\ \A s \in working : Unseen(s)

\* The inductive invariant.
IInv ==
    /\ TypeOK /\ Counted /\ Inside /\ OneSwitch /\ AtWork /\ Alone
    /\ SessionsOnActiveEngine /\ OperationOnOneEngine

-----------------------------------------------------------------------------
(* Counting *)

LEMMA CountAdd ==
    ASSUME NEW S, NEW x, IsFiniteSet(S), x \notin S
    PROVE  /\ IsFiniteSet(S \cup {x})
           /\ Cardinality(S \cup {x}) = Cardinality(S) + 1
           /\ Cardinality(S) \in Nat
BY FS_AddElement, FS_CardinalityType

LEMMA CountRemove ==
    ASSUME NEW S, NEW x, IsFiniteSet(S), x \in S
    PROVE  /\ IsFiniteSet(S \ {x})
           /\ Cardinality(S \ {x}) = Cardinality(S) - 1
           /\ Cardinality(S \ {x}) \in Nat
           /\ Cardinality(S) \in Nat
BY FS_RemoveElement, FS_CardinalityType

\* When the counter is zero, nobody is inside.
LEMMA ZeroMeansEmpty ==
    ASSUME TypeOK, Counted, active = 0
    PROVE  fenced = {} /\ session = {}
<1>1. Cardinality(fenced) \in Nat /\ Cardinality(session) \in Nat
    BY FS_CardinalityType DEF Counted
<1>2. Cardinality(fenced) = 0 /\ Cardinality(session) = 0
    BY <1>1 DEF TypeOK
<1> QED BY <1>2, FS_EmptySet DEF Counted

-----------------------------------------------------------------------------
(* Opening and closing a session *)

LEMMA OpenCounts ==
    ASSUME NEW u \in User, IInv, OpenSession(u), UNCHANGED <<engine, fenced>>
    PROVE  /\ active' \in Nat /\ session' \subseteq User /\ held' \in [User -> Nat]
           /\ active' = Cardinality(fenced') + Cardinality(session')
           /\ Counted' /\ SessionsOnActiveEngine'
<1> USE DEF IInv, OpenSession, Counted, TypeOK
<1>1. /\ IsFiniteSet(session') /\ Cardinality(session') = Cardinality(session) + 1
      /\ Cardinality(session) \in Nat /\ Cardinality(fenced) \in Nat
    BY CountAdd, FS_CardinalityType
<1>2. SessionsOnActiveEngine'
    BY DEF SessionsOnActiveEngine
<1> QED BY <1>1, <1>2

LEMMA CloseCounts ==
    ASSUME NEW u \in User, IInv, CloseSession(u), UNCHANGED <<engine, fenced>>
    PROVE  /\ active' \in Nat /\ session' \subseteq User /\ held' \in [User -> Nat]
           /\ active' = Cardinality(fenced') + Cardinality(session')
           /\ Counted' /\ SessionsOnActiveEngine'
<1> USE DEF IInv, CloseSession, Counted, TypeOK
<1>1. /\ IsFiniteSet(session') /\ Cardinality(session') = Cardinality(session) - 1
      /\ Cardinality(session') \in Nat
      /\ Cardinality(session) \in Nat /\ Cardinality(fenced) \in Nat
    BY CountRemove, FS_CardinalityType
<1>2. SessionsOnActiveEngine'
    BY DEF SessionsOnActiveEngine
<1> QED BY <1>1, <1>2

-----------------------------------------------------------------------------

LEMMA InitIInv == Init => IInv
<1> SUFFICES ASSUME Init PROVE IInv
    OBVIOUS
<1> USE FenceAssumption DEF Init
<1>1. IsFiniteSet({}) /\ Cardinality({}) = 0
    BY FS_EmptySet
<1>2. TypeOK /\ Counted
  <2>1. active = Cardinality(fenced) + Cardinality(session)  BY <1>1
  <2>2. left \in [Starter -> 0..OpSessions]                  OBVIOUS
  <2>3. held \in [User -> Nat] /\ base \in [Starter -> Nat]    OBVIOUS
  <2>4. /\ job \in [Starter -> {"none", "pending", "running", "cancelled", "ended"}]
        /\ spc \in [Starter -> {"idle", "work", "pending", "resumed", "started", "answered", "done"}]
        /\ listed \subseteq Starter /\ working \subseteq Starter
        /\ found \in [Canceller -> SUBSET Starter]
        /\ apc \in [Activator -> {"idle", "drain", "migrate", "finally"}]
      OBVIOUS
  <2>5. Counted  BY <1>1 DEF Counted
  <2>6. /\ switching \in BOOLEAN /\ active \in Nat /\ engine \in Nat
        /\ fenced \subseteq Starter /\ session \subseteq User
      OBVIOUS
  <2> HIDE DEF Init
  <2>7. TypeOK   BY <2>1, <2>2, <2>3, <2>4, <2>6 DEF TypeOK
  <2> QED BY <2>5, <2>7
<1>3. Inside /\ OneSwitch /\ AtWork /\ Alone
    BY DEF Inside, OneSwitch, AtWork, Alone
<1>4. SessionsOnActiveEngine /\ OperationOnOneEngine
    BY DEF SessionsOnActiveEngine, OperationOnOneEngine
<1> QED BY <1>2, <1>3, <1>4 DEF IInv

\* Requests and jobs.
LEMMA UseDatabaseStep == ASSUME NEW u \in User, IInv, UseDatabase(u) PROVE IInv'
<1>1. /\ UNCHANGED <<switching, engine, fenced, registry, base, left, spc, apc>>
      /\ \/ u \notin Starter /\ OpenSession(u)
         \/ u \notin Starter /\ CloseSession(u)
    BY FenceAssumption DEF UseDatabase, Job, registry
<1>2. /\ active' \in Nat /\ session' \subseteq User /\ held' \in [User -> Nat]
      /\ active' = Cardinality(fenced') + Cardinality(session')
      /\ Counted' /\ SessionsOnActiveEngine'
    BY <1>1, OpenCounts, CloseCounts
<1>3. TypeOK'                        BY <1>1, <1>2 DEF IInv, TypeOK, registry
<1>4. Inside'                        BY <1>1 DEF IInv, Inside, OpenSession, CloseSession
<1>5. OneSwitch' /\ AtWork'          BY <1>1 DEF IInv, OneSwitch, AtWork, registry
<1>6. Alone'
    BY <1>1 DEF IInv, Alone, OneSwitch, OpenSession, CloseSession, Unseen, registry
<1>7. OperationOnOneEngine'          BY <1>1 DEF IInv, OperationOnOneEngine
<1> QED BY <1>2, <1>3, <1>4, <1>5, <1>6, <1>7 DEF IInv

LEMMA EndJobStep == ASSUME NEW s \in Starter, IInv, EndJob(s) PROVE IInv'
<1> USE DEF IInv, EndJob, threads
<1>1. TypeOK' /\ Counted'   BY DEF TypeOK, Counted
<1>2. Inside' /\ OneSwitch' BY DEF Inside, OneSwitch
<1>3. AtWork' /\ Alone'     BY DEF AtWork, Alone, Unseen, TypeOK
<1>4. SessionsOnActiveEngine' /\ OperationOnOneEngine'
    BY DEF SessionsOnActiveEngine, OperationOnOneEngine
<1> QED BY <1>1, <1>2, <1>3, <1>4

\* An operation begins; nobody has a switch in progress.
LEMMA EnterOperationStep == ASSUME NEW s \in Starter, IInv, EnterOperation(s) PROVE IInv'
<1> USE DEF IInv, EnterOperation, registry
<1>1. s \notin fenced /\ fenced' = fenced \cup {s}
    BY DEF Inside, TypeOK
<1>2. /\ IsFiniteSet(fenced') /\ Cardinality(fenced') = Cardinality(fenced) + 1
      /\ Cardinality(session) \in Nat /\ Cardinality(fenced) \in Nat
    BY <1>1, CountAdd, FS_CardinalityType DEF Counted
<1>3. TypeOK' /\ Counted'
    BY <1>2 DEF TypeOK, Counted
<1>4. Inside' /\ OneSwitch' /\ Alone'
    BY DEF Inside, OneSwitch, Alone, TypeOK
<1>6. AtWork'
    BY DEF AtWork, TypeOK
<1>5. SessionsOnActiveEngine' /\ OperationOnOneEngine'
    BY DEF SessionsOnActiveEngine, OperationOnOneEngine, TypeOK
<1> QED BY <1>3, <1>4, <1>5, <1>6

\* An operation goes on.
LEMMA StartStep == ASSUME NEW s \in Starter, IInv, Start(s) PROVE IInv'
<1> USE DEF IInv, registry
<1>0. s \in User
    BY DEF User
<1>1. CASE NestedOpen(s)
  <2>1. /\ UNCHANGED <<switching, engine, fenced, registry, base, left, spc, apc>>
        /\ OpenSession(s) /\ s \in fenced
        /\ spc[s] \in {"work", "started"} /\ (spc[s] = "work" => left[s] > 0)
      BY <1>1 DEF NestedOpen, TypeOK
  <2>2. TypeOK' /\ Counted' /\ SessionsOnActiveEngine'
      BY <1>0, <2>1, OpenCounts DEF TypeOK
  <2>3. Inside'
      BY <2>1 DEF Inside, OpenSession
  <2>4. OneSwitch' /\ AtWork' /\ Alone' /\ OperationOnOneEngine'
      BY <2>1 DEF OneSwitch, AtWork, Alone, OperationOnOneEngine, Unseen, OpenSession
  <2> QED BY <2>2, <2>3, <2>4
<1>2. CASE NestedClose(s)
  <2>1. /\ UNCHANGED <<switching, engine, fenced, registry, base, apc>>
        /\ CloseSession(s) /\ s \in session
        /\ spc[s] \in {"work", "started"} /\ (spc[s] = "work" => left[s] > 0)
      BY <1>2 DEF NestedClose, CloseSession, Inside
  <2>2. left' \in [Starter -> 0..OpSessions]
        /\ spc' \in [Starter -> {"idle", "work", "pending", "resumed", "started", "answered",
                                  "done"}]
      BY <1>2, <2>1, FenceAssumption DEF NestedClose, TypeOK
  <2>3. TypeOK' /\ Counted' /\ SessionsOnActiveEngine'
      BY <1>0, <2>1, <2>2, CloseCounts DEF TypeOK
  <2>4. Inside'
      BY <1>2, <2>1 DEF Inside, CloseSession, NestedClose, TypeOK
  <2>5. OneSwitch' /\ Alone' /\ OperationOnOneEngine'
      BY <2>1 DEF OneSwitch, Alone, OperationOnOneEngine, Unseen, CloseSession
  <2>6. AtWork'
      BY <1>2, <2>1 DEF AtWork, NestedClose, TypeOK
  <2> QED BY <2>3, <2>4, <2>5, <2>6
<1>3. CASE RegisterJob(s)
  <2>1. s \in fenced /\ s \notin session /\ s \notin working
      BY <1>3 DEF RegisterJob, Inside, AtWork, TypeOK
  <2>2. \A a \in Activator : apc[a] # "migrate"
      BY <2>1 DEF Alone
  <2>3. TypeOK' /\ Counted'
      BY <1>3 DEF RegisterJob, TypeOK, Counted
  <2>4. Inside' /\ AtWork'
      BY <1>3, <2>1 DEF RegisterJob, Inside, AtWork, TypeOK
  <2>5. OneSwitch' /\ Alone' /\ SessionsOnActiveEngine' /\ OperationOnOneEngine'
      BY <1>3, <2>2
      DEF RegisterJob, OneSwitch, Alone, SessionsOnActiveEngine, OperationOnOneEngine
  <2> QED BY <2>3, <2>4, <2>5
<1>5. CASE StartJob(s)
  <2>1. s \in fenced /\ s \notin session
      BY <1>5 DEF StartJob, Inside, TypeOK
  <2>2. \A a \in Activator : apc[a] # "migrate"
      BY <2>1 DEF Alone
  <2>3. TypeOK' /\ Counted'
      BY <1>5 DEF StartJob, TypeOK, Counted
  <2>4. Inside' /\ AtWork'
      BY <1>5, <2>1 DEF StartJob, Inside, AtWork, TypeOK
  <2>5. OneSwitch' /\ Alone' /\ SessionsOnActiveEngine' /\ OperationOnOneEngine'
      BY <1>5, <2>2
      DEF StartJob, OneSwitch, Alone, SessionsOnActiveEngine, OperationOnOneEngine
  <2> QED BY <2>3, <2>4, <2>5
<1>4. CASE LeaveOperation(s)
  <2>1. s \in fenced /\ s \notin session
      BY <1>4 DEF LeaveOperation, Inside
  <2>2. /\ IsFiniteSet(fenced') /\ Cardinality(fenced') = Cardinality(fenced) - 1
        /\ Cardinality(session) \in Nat
        /\ Cardinality(fenced) \in Nat /\ Cardinality(fenced') \in Nat
      BY <1>4, <2>1, CountRemove, FS_CardinalityType DEF LeaveOperation, Counted
  <2>3. TypeOK' /\ Counted'
      BY <1>4, <2>2 DEF LeaveOperation, TypeOK, Counted
  <2>4. Inside'
      BY <1>4, <2>1 DEF LeaveOperation, Inside, TypeOK
  <2>6. AtWork'
      BY <1>4 DEF LeaveOperation, AtWork, TypeOK
  <2>5. OneSwitch' /\ Alone' /\ SessionsOnActiveEngine' /\ OperationOnOneEngine'
      BY <1>4
      DEF LeaveOperation, OneSwitch, Alone, SessionsOnActiveEngine, OperationOnOneEngine,
          Unseen
  <2> QED BY <2>3, <2>4, <2>5, <2>6
<1> QED BY <1>1, <1>2, <1>3, <1>4, <1>5 DEF Start

\* A cancellation can only hide a job at work from the switch.
LEMMA CancelStep ==
    ASSUME NEW c \in Canceller, IInv,
           MarkCancelled(c) \/ \E s \in Starter : FindPending(c, s)
    PROVE  IInv'
<1> USE DEF IInv, threads
<1>1. CASE MarkCancelled(c)
  <2>1. PICK s \in found[c] : job' = [job EXCEPT ![s] = "cancelled"]
      BY <1>1 DEF MarkCancelled
  <2>2. s \in Starter
      BY DEF TypeOK
  <2>3. /\ found' = [found EXCEPT ![c] = {}]
        /\ UNCHANGED <<switching, active, engine, fenced, session, listed, working,
                        held, base, left, spc, apc>>
      BY <1>1 DEF MarkCancelled
  <2>4. TypeOK' /\ Counted'
      BY <2>1, <2>2, <2>3 DEF TypeOK, Counted
  <2>5. Inside' /\ OneSwitch' /\ SessionsOnActiveEngine' /\ OperationOnOneEngine'
      BY <2>3 DEF Inside, OneSwitch, SessionsOnActiveEngine, OperationOnOneEngine
  <2>6. AtWork' /\ Alone'
      BY <2>1, <2>2, <2>3 DEF AtWork, Alone, Unseen, TypeOK
  <2> QED BY <2>4, <2>5, <2>6
<1>2. ASSUME NEW s \in Starter, FindPending(c, s) PROVE IInv'
  <2>1. TypeOK' /\ Counted'
      BY <1>2 DEF FindPending, TypeOK, Counted
  <2>2. Inside' /\ OneSwitch' /\ AtWork' /\ Alone'
      BY <1>2 DEF FindPending, Inside, OneSwitch, AtWork, Alone, Unseen
  <2>3. SessionsOnActiveEngine' /\ OperationOnOneEngine'
      BY <1>2 DEF FindPending, SessionsOnActiveEngine, OperationOnOneEngine
  <2> QED BY <2>1, <2>2, <2>3
<1> QED BY <1>1, <1>2

\* A switch begins, drains, swaps the engine and ends.
LEMMA SwitchStep ==
    ASSUME NEW a \in Activator, IInv, BeginSwitch(a) \/ Activate(a) PROVE IInv'
<1> USE DEF IInv, registry
<1>1. CASE BeginSwitch(a)
  <2>1. TypeOK' /\ Counted' /\ Inside'
      BY <1>1 DEF BeginSwitch, TypeOK, Counted, Inside
  <2>2. OneSwitch' /\ AtWork' /\ Alone'
      BY <1>1 DEF BeginSwitch, OneSwitch, AtWork, Alone, TypeOK, Unseen
  <2>3. SessionsOnActiveEngine' /\ OperationOnOneEngine'
      BY <1>1 DEF BeginSwitch, SessionsOnActiveEngine, OperationOnOneEngine
  <2> QED BY <2>1, <2>2, <2>3
<1>2. CASE Drained(a)
  <2>1. fenced = {} /\ session = {}
      BY <1>2, ZeroMeansEmpty DEF Drained
  <2>2. TypeOK' /\ Counted' /\ Inside'
      BY <1>2 DEF Drained, TypeOK, Counted, Inside
  <2>5. ~WorkflowJobRunning => \A s \in working : Unseen(s)
      BY DEF WorkflowJobRunning, AtWork, Unseen
  <2>3. OneSwitch' /\ AtWork' /\ Alone'
      BY <1>2, <2>1, <2>5 DEF Drained, OneSwitch, AtWork, Alone, TypeOK, Unseen
  <2>4. SessionsOnActiveEngine' /\ OperationOnOneEngine'
      BY <1>2 DEF Drained, SessionsOnActiveEngine, OperationOnOneEngine
  <2> QED BY <2>2, <2>3, <2>4
<1>3. CASE Swap(a)
  <2>1. fenced' = {} /\ session' = {}
      BY <1>3 DEF Swap, Alone
  <2>2. TypeOK' /\ Counted' /\ Inside'
      BY <1>3 DEF Swap, TypeOK, Counted, Inside
  <2>3. OneSwitch' /\ AtWork' /\ Alone'
      BY <1>3 DEF Swap, OneSwitch, AtWork, Alone, TypeOK, Unseen
  <2>4. SessionsOnActiveEngine' /\ OperationOnOneEngine'
      BY <2>1 DEF SessionsOnActiveEngine, OperationOnOneEngine
  <2> QED BY <2>2, <2>3, <2>4
<1>4. CASE EndSwitch(a)
  <2>1. TypeOK' /\ Counted' /\ Inside'
      BY <1>4 DEF EndSwitch, TypeOK, Counted, Inside
  <2>2. OneSwitch' /\ AtWork' /\ Alone'
      BY <1>4 DEF EndSwitch, OneSwitch, AtWork, Alone, TypeOK, Unseen
  <2>3. SessionsOnActiveEngine' /\ OperationOnOneEngine'
      BY <1>4 DEF EndSwitch, SessionsOnActiveEngine, OperationOnOneEngine
  <2> QED BY <2>1, <2>2, <2>3
<1> QED BY <1>1, <1>2, <1>3, <1>4 DEF Activate

LEMMA NextIInv == IInv /\ [Next]_vars => IInv'
<1> SUFFICES ASSUME IInv, [Next]_vars PROVE IInv'
    OBVIOUS
<1>1. CASE \E u \in User : UseDatabase(u)
    BY <1>1, UseDatabaseStep
<1>2. CASE \E s \in Starter : EnterOperation(s) \/ Start(s) \/ EndJob(s)
    BY <1>2, EnterOperationStep, StartStep, EndJobStep
<1>3. CASE \E a \in Activator : BeginSwitch(a) \/ Activate(a)
    BY <1>3, SwitchStep
<1>4. CASE UNCHANGED vars
    BY <1>4
    DEF vars, registry, threads, IInv, TypeOK, Counted, Inside, OneSwitch, AtWork, Alone,
        Unseen, SessionsOnActiveEngine, OperationOnOneEngine
<1>5. CASE \E c \in Canceller : MarkCancelled(c) \/ \E s \in Starter : FindPending(c, s)
    BY <1>5, CancelStep
<1> QED BY <1>1, <1>2, <1>3, <1>4, <1>5 DEF Next

LEMMA Inductive == Spec => []IInv
BY InitIInv, NextIInv, PTL DEF Spec

-----------------------------------------------------------------------------

\* Type correctness, with the exact count: _active_operations is the number of
\* operations and sessions in progress, so a drained database is unused.
THEOREM CountIsExact == Spec => []TypeOK
<1>1. IInv => TypeOK  BY DEF IInv
<1> QED BY <1>1, Inductive, PTL

\* No session works on an engine that has been retired.
THEOREM NoRetiredEngineInUse == Spec => []SessionsOnActiveEngine
<1>1. IInv => SessionsOnActiveEngine  BY DEF IInv
<1> QED BY <1>1, Inductive, PTL

\* operation() fences the whole operation.
THEOREM OperationIsFenced == Spec => []OperationOnOneEngine
<1>1. IInv => OperationOnOneEngine  BY DEF IInv
<1> QED BY <1>1, Inductive, PTL

\* The check of the job manager, made before and after draining, keeps every
\* switch away from the jobs at work, but for those that it does not see: a job
\* that a cancel_job call found pending and marked cancelled after its start, and
\* the thread of a job whose id a resume has taken over.
THEOREM JobsKeepTheirDatabase == Spec => NoSwitchUnderJob
<1> DEFINE Safe == engine' # engine => \A s \in working : Unseen(s)
<1>1. IInv /\ [Next]_vars => [Safe]_vars
  <2> SUFFICES ASSUME IInv, Next, engine' # engine PROVE \A s \in working : Unseen(s)
      OBVIOUS
  <2>1. \E a \in Activator : Swap(a)
      BY DEF Next, UseDatabase, EnterOperation, Start, NestedOpen, NestedClose, RegisterJob,
             StartJob, LeaveOperation, EndJob, BeginSwitch, Activate, Drained, EndSwitch,
             FindPending, MarkCancelled
  <2> QED BY <2>1 DEF IInv, Alone, Swap
<1> QED BY <1>1, Inductive, PTL DEF Spec, NoSwitchUnderJob
=============================================================================
