---------------------------- MODULE DatabaseFence ----------------------------
(***************************************************************************)
(* Switching the application database while requests and workflow jobs use *)
(* it: DatabaseRuntime.operation, session and activate, with the calls     *)
(* that nest a session in an operation (start_execution and resume) and    *)
(* the job manager's answer to is_job_running("workflow"), which cancel_job  *)
(* and a resume under the same id can change under a job at work.          *)
(*                                                                         *)
(* Every wait of the code re-reads its condition in a loop and every       *)
(* change of the condition notifies all waiters, so a wait is a guard.     *)
(***************************************************************************)
EXTENDS Naturals, FiniteSets

CONSTANTS
    Starter,      \* start_execution and resume calls; each starts one job
    Caller,       \* requests that open one session after the other
    Activator,    \* requests that switch the database
    Canceller,    \* cancel_job calls
    OpSessions,   \* the sessions an operation opens before it starts the job
    MaxSwitch     \* bound: completed switches

\* The job started by a Starter is a thread of its own, named after it.
JobOf(s) == <<"job", s>>
Job      == {JobOf(s) : s \in Starter}
User     == Starter \cup Caller \cup Job     \* the threads that open sessions

ASSUME FenceAssumption ==
    /\ OpSessions \in Nat /\ MaxSwitch \in Nat
    /\ IsFiniteSet(Starter) /\ IsFiniteSet(Caller)
    /\ Starter \cap Caller = {} /\ Job \cap (Starter \cup Caller) = {}

VARIABLES
    switching,    \* _switching
    active,       \* _active_operations
    engine,       \* the active engine, numbered by the switches before it
    fenced,       \* the starters inside operation()
    session,      \* the threads inside session()
    held,         \* the engine of a thread's session
    base,         \* the engine that was active when a starter entered operation()
    left,         \* the sessions a starter still has to open before start_job
    job,          \* the status of every starter's job
    listed,       \* the starters whose job is the one registered under its id
    working,      \* the starters whose job has a thread at work
    found,        \* the job that a cancel_job call has found pending, if any
    spc,          \* where every starter is
    apc           \* where every activate call is

registry == <<job, listed, working, found>>
threads  == <<held, base, left, spc, apc>>
vars     == <<switching, active, engine, fenced, session, registry, threads>>

Init ==
    /\ switching = FALSE /\ active = 0 /\ engine = 0
    /\ fenced = {} /\ session = {}
    /\ held = [u \in User |-> 0] /\ base = [s \in Starter |-> 0]
    /\ left = [s \in Starter |-> OpSessions]
    /\ job = [s \in Starter |-> "none"]
    /\ listed = {} /\ working = {} /\ found = [c \in Canceller |-> {}]
    /\ spc = [s \in Starter |-> "idle"]
    /\ apc = [a \in Activator |-> "idle"]

WorkflowJobRunning == \E s \in listed : job[s] \in {"pending", "running"}

-----------------------------------------------------------------------------
(* session() *)

OpenSession(u) ==
    /\ u \notin session
    /\ ~switching
    /\ active' = active + 1
    /\ session' = session \cup {u}
    /\ held' = [held EXCEPT ![u] = engine]

CloseSession(u) ==
    /\ u \in session
    /\ active' = active - 1
    /\ session' = session \ {u}
    /\ UNCHANGED held

\* A request, or a running workflow job.
UseDatabase(u) ==
    /\ \/ (u \in Caller \/ \E s \in Starter : u = JobOf(s) /\ s \in working)
          /\ OpenSession(u)
       \/ u \notin Starter /\ CloseSession(u)
    /\ UNCHANGED <<switching, engine, fenced, registry, base, left, spc, apc>>

\* The runner returns or raises, and a terminal status is written.
EndJob(s) ==
    /\ s \in working /\ JobOf(s) \notin session
    /\ job' = [job EXCEPT ![s] = "ended"]
    /\ working' = working \ {s}
    /\ UNCHANGED <<switching, active, engine, fenced, session, listed, found, threads>>

-----------------------------------------------------------------------------
(* start_execution and resume: sessions nested in operation() *)

\* Mutant: an operation is not counted, only its sessions are.
EnterUncounted(s) ==
    /\ spc[s] = "idle"
    /\ ~switching
    /\ fenced' = fenced \cup {s}
    /\ base' = [base EXCEPT ![s] = engine]
    /\ spc' = [spc EXCEPT ![s] = "work"]
    /\ UNCHANGED <<switching, active, engine, session, held, left, registry, apc>>

EnterOperation(s) ==
    /\ spc[s] = "idle"
    /\ ~switching
    /\ active' = active + 1
    /\ fenced' = fenced \cup {s}
    /\ base' = [base EXCEPT ![s] = engine]
    /\ spc' = [spc EXCEPT ![s] = "work"]
    /\ UNCHANGED <<switching, engine, session, held, left, registry, apc>>

\* resume opens one more session after it started the job.
NestedOpen(s) ==
    /\ s \in fenced
    /\ \/ spc[s] = "work" /\ left[s] > 0
       \/ spc[s] = "started"
    /\ OpenSession(s)
    /\ UNCHANGED <<switching, engine, fenced, registry, base, left, spc, apc>>

NestedClose(s) ==
    /\ CloseSession(s)
    /\ IF spc[s] = "work"
       THEN left' = [left EXCEPT ![s] = @ - 1] /\ UNCHANGED spc
       ELSE spc' = [spc EXCEPT ![s] = "answered"] /\ UNCHANGED left
    /\ UNCHANGED <<switching, engine, fenced, registry, base, apc>>

\* A resumed run takes over the id of its job, whose earlier thread may not have
\* ended yet.
RegisterJob(s) ==
    /\ spc[s] = "work" /\ left[s] = 0
    /\ job' = [job EXCEPT ![s] = "pending"]
    /\ \/ listed' = listed \cup {s} /\ spc' = [spc EXCEPT ![s] = "pending"]
       \/ \E r \in listed :
             /\ spc[r] \in {"started", "answered", "done"}
             /\ listed' = (listed \ {r}) \cup {s}
             /\ spc' = [spc EXCEPT ![s] = "resumed"]
    /\ UNCHANGED <<switching, active, engine, fenced, session, working, found,
                   held, base, left, apc>>

\* The status becomes "running" whatever it was, and the thread starts; only a
\* resume then reads the run again.
StartJob(s) ==
    /\ spc[s] \in {"pending", "resumed"}
    /\ job' = [job EXCEPT ![s] = "running"]
    /\ working' = working \cup {s}
    /\ \/ spc' = [spc EXCEPT ![s] = "started"]
       \/ spc[s] = "pending" /\ spc' = [spc EXCEPT ![s] = "answered"]
    /\ UNCHANGED <<switching, active, engine, fenced, session, listed, found,
                   held, base, left, apc>>

\* Mutant: an operation that ends is still counted.
LeaveCounted(s) ==
    /\ spc[s] = "answered"
    /\ fenced' = fenced \ {s}
    /\ spc' = [spc EXCEPT ![s] = "done"]
    /\ UNCHANGED <<switching, active, engine, session, held, base, left, registry, apc>>

LeaveOperation(s) ==
    /\ spc[s] = "answered"
    /\ active' = active - 1
    /\ fenced' = fenced \ {s}
    /\ spc' = [spc EXCEPT ![s] = "done"]
    /\ UNCHANGED <<switching, engine, session, held, base, left, registry, apc>>

Start(s) == NestedOpen(s) \/ NestedClose(s) \/ RegisterJob(s) \/ StartJob(s)
            \/ LeaveOperation(s)

-----------------------------------------------------------------------------
(* cancel_job: the status is read outside the lock, and written later *)

FindPending(c, s) ==
    /\ found[c] = {} /\ s \in listed /\ job[s] = "pending"
    /\ found' = [found EXCEPT ![c] = {s}]
    /\ UNCHANGED <<switching, active, engine, fenced, session, job, listed, working, threads>>

\* A job that was started in the meantime is at work with this status; one that is
\* found running is told to stop and keeps its status.
MarkCancelled(c) ==
    /\ \E s \in found[c] : job' = [job EXCEPT ![s] = "cancelled"]
    /\ found' = [found EXCEPT ![c] = {}]
    /\ UNCHANGED <<switching, active, engine, fenced, session, listed, working, threads>>

-----------------------------------------------------------------------------
(* activate(): the calls that are refused change nothing *)

BeginSwitch(a) ==
    /\ apc[a] = "idle" /\ engine < MaxSwitch
    /\ ~switching /\ ~WorkflowJobRunning
    /\ switching' = TRUE
    /\ apc' = [apc EXCEPT ![a] = "drain"]
    /\ UNCHANGED <<active, engine, fenced, session, held, base, left, registry, spc>>

\* Mutant: the switch does not wait for the sessions in progress.
DrainedAtOnce(a) ==
    /\ apc[a] = "drain"
    /\ IF WorkflowJobRunning
       THEN switching' = FALSE /\ apc' = [apc EXCEPT ![a] = "idle"]
       ELSE apc' = [apc EXCEPT ![a] = "migrate"] /\ UNCHANGED switching
    /\ UNCHANGED <<active, engine, fenced, session, held, base, left, registry, spc>>

\* Mutant: jobs are looked for only before the switch begins.
DrainedUnchecked(a) ==
    /\ apc[a] = "drain" /\ active = 0
    /\ apc' = [apc EXCEPT ![a] = "migrate"]
    /\ UNCHANGED <<switching, active, engine, fenced, session, held, base, left, registry, spc>>

\* Nothing uses the database any more; a job started meanwhile refuses the switch.
Drained(a) ==
    /\ apc[a] = "drain" /\ active = 0
    /\ IF WorkflowJobRunning
       THEN switching' = FALSE /\ apc' = [apc EXCEPT ![a] = "idle"]
       ELSE apc' = [apc EXCEPT ![a] = "migrate"] /\ UNCHANGED switching
    /\ UNCHANGED <<active, engine, fenced, session, held, base, left, registry, spc>>

\* _activate migrates and opens the target; it may fail before it publishes the
\* engine.
Swap(a) ==
    /\ apc[a] = "migrate"
    /\ \/ engine' = engine + 1
       \/ UNCHANGED engine
    /\ apc' = [apc EXCEPT ![a] = "finally"]
    /\ UNCHANGED <<switching, active, fenced, session, held, base, left, registry, spc>>

EndSwitch(a) ==
    /\ apc[a] = "finally"
    /\ switching' = FALSE
    /\ apc' = [apc EXCEPT ![a] = "idle"]
    /\ UNCHANGED <<active, engine, fenced, session, held, base, left, registry, spc>>

Activate(a) == Drained(a) \/ Swap(a) \/ EndSwitch(a)

-----------------------------------------------------------------------------

Next ==
    \/ \E u \in User : UseDatabase(u)
    \/ \E s \in Starter : EnterOperation(s) \/ Start(s) \/ EndJob(s)
    \/ \E a \in Activator : BeginSwitch(a) \/ Activate(a)
    \/ \E c \in Canceller : MarkCancelled(c) \/ \E s \in Starter : FindPending(c, s)

Spec == Init /\ [][Next]_vars

\* Sessions are closed, operations go on and a switch that began goes on; no
\* request has to be made and no job has to end.
FairSpec ==
    /\ Spec
    /\ \A u \in User : WF_vars(u \notin Starter /\ u \in session /\ UseDatabase(u))
    /\ \A s \in Starter : WF_vars(Start(s))
    /\ \A a \in Activator : WF_vars(Activate(a))

-----------------------------------------------------------------------------
(* Properties *)

\* Every variable has its type, and the counter counts the operations and the
\* sessions in progress.
TypeOK ==
    /\ switching \in BOOLEAN /\ active \in Nat /\ engine \in Nat
    /\ fenced \subseteq Starter /\ session \subseteq User
    /\ held \in [User -> Nat] /\ base \in [Starter -> Nat]
    /\ left \in [Starter -> 0..OpSessions]
    /\ job \in [Starter -> {"none", "pending", "running", "cancelled", "ended"}]
    /\ listed \subseteq Starter /\ working \subseteq Starter
    /\ found \in [Canceller -> SUBSET Starter]
    /\ spc \in [Starter -> {"idle", "work", "pending", "resumed", "started", "answered", "done"}]
    /\ apc \in [Activator -> {"idle", "drain", "migrate", "finally"}]
    /\ active = Cardinality(fenced) + Cardinality(session)

\* A session never outlives its engine: no thread works on a disposed engine.
SessionsOnActiveEngine == \A u \in session : held[u] = engine

\* "Fence a complete multi-step operation": all the sessions of an operation use
\* the engine that was active when the operation began.
OperationOnOneEngine == \A s \in fenced : base[s] = engine

\* A job at work that is_job_running("workflow") does not see: it runs although it
\* was cancelled, by a call that had found it pending, or a resume has taken its id
\* over before its thread ended.
Unseen(s) == job[s] = "cancelled" \/ s \notin listed

\* The database is never switched under a job at work, although jobs are started
\* and cancelled concurrently with the switch, but for the jobs that the code does
\* not see.
NoSwitchUnderJob == [][engine' # engine => \A s \in working : Unseen(s)]_vars

\* "A switch returns HTTP 409 while a workflow job is active"
\* (docs/architecture/persistence.md): as NoSwitchUnderJob, without the exception.
NoSwitchUnderWork == [][engine' # engine => working = {}]_vars

\* "draining existing ones before retiring the old pool": a switch that began
\* ends, one way or the other.
SwitchEnds == switching ~> ~switching
=============================================================================
