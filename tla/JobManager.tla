----------------------------- MODULE JobManager -----------------------------
(***************************************************************************)
(* services/jobs.py: the registry of background jobs.  Callers start jobs  *)
(* one by one or again under the id of a job that is leaving (a resumed    *)
(* run), other callers cancel them, and every job runs on its own thread,  *)
(* which prunes the registry when it ends.                                 *)
(*                                                                         *)
(* A job is the number of the call that started it; its JobState outlives  *)
(* its entry of the registry.  Each access under the lock is one step.     *)
(***************************************************************************)
EXTENDS Naturals, Sequences, FiniteSets

CONSTANTS
    Id,         \* job ids
    MaxStarts,  \* bound
    MaxActive,  \* bound: jobs whose thread has not ended
    Canceller,  \* calls of cancel_job
    MaxTerminal \* MAX_TERMINAL_JOBS

Job   == 1..MaxStarts
NoJob == 0
Live     == {"pending", "running"}
Terminal == {"completed", "failed", "cancelled"}

VARIABLES
    jobs,       \* the registry: the job under each id
    threads,    \* the job whose thread is under each id
    state,      \* of each job: id, status, stop_requested
    started,    \* number of calls of start_job
    caller,     \* how far start_job has come
    thread,     \* how far the thread of the job has come
    cancel,     \* of each canceller: what it decided, for which job
    ended,      \* completed_at, as an order: of each job that ended, the jobs that ended before it
    told,       \* history: jobs told to stop while their runner worked
    server      \* "up", the jobs shutdown waits for, and whether it exited

vars == <<jobs, threads, state, started, caller, thread, cancel, ended, told, server>>

TypeOK ==
    /\ jobs \in [Id -> Job \cup {NoJob}] /\ threads \in [Id -> Job \cup {NoJob}]
    /\ state \in [Job -> [id : Id \cup {NoJob}, status : {"none"} \cup Live \cup Terminal,
                          stop : BOOLEAN]]
    /\ started \in 0..MaxStarts
    /\ caller \in [Job -> {"off", "registered", "listed", "marked", "back"}]
    /\ thread \in [Job -> {"off", "lookup", "run", "leaving", "returned", "raised",
                           "complete", "fail", "last", "done"}]
    /\ cancel \in [Canceller -> [job : Job \cup {NoJob},
                                 pc : {"idle", "drop", "stop", "dropped", "done"}]]
    /\ told \subseteq Job
    /\ ended \in [Job -> SUBSET Job]
    /\ \A j, k \in Job : j # k /\ {state[j].status, state[k].status} \subseteq Terminal
                            <=> (j \in ended[k] <=> k \notin ended[j])

Init ==
    /\ jobs = [i \in Id |-> NoJob] /\ threads = [i \in Id |-> NoJob]
    /\ state = [j \in Job |-> [id |-> NoJob, status |-> "none", stop |-> FALSE]]
    /\ started = 0
    /\ caller = [j \in Job |-> "off"] /\ thread = [j \in Job |-> "off"]
    /\ cancel = [c \in Canceller |-> [job |-> NoJob, pc |-> "idle"]]
    /\ ended = [j \in Job |-> {}] /\ told = {}
    /\ server = [up |-> TRUE, awaited |-> {}, exited |-> FALSE]

Running == ~server.exited

-----------------------------------------------------------------------------
(* start_job *)

\* An id is new, or the id of a run whose runner has paused the run and is leaving.
MayReuse(i) ==
    \A j \in Job : state[j].id = i => thread[j] \notin {"off", "lookup", "run"}
                                      /\ caller[j] = "back"

Register(i) ==
    LET j == started + 1 IN
    /\ Running /\ started < MaxStarts /\ MayReuse(i)
    /\ Cardinality({k \in Job : state[k].id # NoJob /\ thread[k] # "done"}) < MaxActive
    /\ started' = j
    /\ state' = [state EXCEPT ![j] = [id |-> i, status |-> "pending", stop |-> FALSE]]
    /\ jobs' = [jobs EXCEPT ![i] = j]
    /\ caller' = [caller EXCEPT ![j] = "registered"]
    /\ UNCHANGED <<threads, thread, cancel, ended, told, server>>

List(j) ==
    /\ Running /\ caller[j] = "registered"
    /\ threads' = [threads EXCEPT ![state[j].id] = j]
    /\ caller' = [caller EXCEPT ![j] = "listed"]
    /\ UNCHANGED <<jobs, state, started, thread, cancel, ended, told, server>>

\* A job that was cancelled while it was pending is running from here on.
MarkRunning(j) ==
    /\ Running /\ caller[j] = "listed"
    /\ state' = [state EXCEPT ![j].status = "running"]
    /\ ended' = [k \in Job |-> IF k = j THEN {} ELSE ended[k] \ {j}]
    /\ caller' = [caller EXCEPT ![j] = "marked"]
    /\ UNCHANGED <<jobs, threads, started, thread, cancel, told, server>>

StartThread(j) ==
    /\ Running /\ caller[j] = "marked"
    /\ thread' = [thread EXCEPT ![j] = "lookup"]
    /\ caller' = [caller EXCEPT ![j] = "back"]
    /\ UNCHANGED <<jobs, threads, state, started, cancel, ended, told, server>>

-----------------------------------------------------------------------------
(* _run_job *)

\* The thread of a job that was pruned already ends before its runner begins.
Lookup(j) ==
    /\ Running /\ thread[j] = "lookup"
    /\ thread' = [thread EXCEPT ![j] = IF jobs[state[j].id] = NoJob THEN "done" ELSE "run"]
    /\ UNCHANGED <<jobs, threads, state, started, caller, cancel, ended, told, server>>

\* The job ends with a status, as the latest of those that ended.
EndAs(j, status, stop) ==
    /\ state' = [state EXCEPT ![j].status = status, ![j].stop = @ \/ stop]
    /\ ended' = [k \in Job |-> IF k = j THEN {i \in Job \ {j} : state[i].status \in Terminal}
                              ELSE ended[k] \ {j}]

End(j, status) == EndAs(j, status, FALSE) /\ thread' = [thread EXCEPT ![j] = "last"]

ShouldStop(i) == IF jobs[i] = NoJob THEN TRUE ELSE state[jobs[i]].stop

\* The runner returns or raises, because it saw a stop or for reasons of its own;
\* one of a run that pauses lets the run be resumed before it returns.
Leave(j) ==
    /\ Running
    /\ \/ /\ thread[j] = "run"
          /\ \E l \in {"returned", "raised", "leaving"} : thread' = [thread EXCEPT ![j] = l]
       \/ thread[j] = "leaving" /\ thread' = [thread EXCEPT ![j] = "returned"]
    /\ UNCHANGED <<jobs, threads, state, started, caller, cancel, ended, told, server>>

\* Mutant: a runner that raised has failed, whether or not it was told to stop.
ReadStopOnReturn(j) ==
    /\ Running /\ thread[j] \in {"returned", "raised"}
    /\ IF state[j].stop /\ thread[j] = "returned"
       THEN End(j, "cancelled")
       ELSE /\ thread' = [thread EXCEPT ![j] = IF @ = "raised" THEN "fail" ELSE "complete"]
            /\ UNCHANGED <<state, ended>>
    /\ UNCHANGED <<jobs, threads, started, caller, cancel, told, server>>

\* stop_requested is read, and then the status is written.
ReadStop(j) ==
    /\ Running /\ thread[j] \in {"returned", "raised"}
    /\ IF state[j].stop
       THEN End(j, "cancelled")
       ELSE /\ thread' = [thread EXCEPT ![j] = IF @ = "raised" THEN "fail" ELSE "complete"]
            /\ UNCHANGED <<state, ended>>
    /\ UNCHANGED <<jobs, threads, started, caller, cancel, told, server>>

Finish(j) ==
    /\ Running
    /\ \/ thread[j] = "complete" /\ End(j, "completed")
       \/ thread[j] = "fail" /\ End(j, "failed")
    /\ UNCHANGED <<jobs, threads, started, caller, cancel, told, server>>

\* The jobs of the registry with a terminal status, but for the latest of them.
Stale(registry) ==
    LET terminal == {j \in Job : state[j].status \in Terminal /\ registry[state[j].id] = j} IN
    {j \in terminal : Cardinality({k \in terminal : j \in ended[k]}) >= MaxTerminal}

\* The entry of the thread is removed by id, whosever it is by now.
Prune(j) ==
    /\ Running /\ thread[j] = "last"
    /\ threads' = [threads EXCEPT ![state[j].id] = NoJob]
    /\ jobs' = [i \in Id |-> IF jobs[i] \in Stale(jobs) THEN NoJob ELSE jobs[i]]
    /\ thread' = [thread EXCEPT ![j] = "done"]
    /\ UNCHANGED <<state, started, caller, cancel, ended, told, server>>

-----------------------------------------------------------------------------
(* cancel_job *)

\* The status is read outside the lock: a pending job is to be dropped, a running
\* one to be stopped.
Decide(c, i) ==
    /\ Running /\ cancel[c].pc = "idle" /\ jobs[i] # NoJob
    /\ LET j == jobs[i] IN
         cancel' = [cancel EXCEPT ![c] =
             [job |-> j, pc |-> CASE state[j].status = "pending" -> "drop"
                                  [] state[j].status = "running" -> "stop"
                                  [] OTHER -> "done"]]
    /\ UNCHANGED <<jobs, threads, state, started, caller, thread, ended, told, server>>

Apply(c) ==
    LET j == cancel[c].job IN
    /\ Running /\ cancel[c].pc \in {"drop", "stop"}
    /\ cancel' = [cancel EXCEPT ![c].pc = IF @ = "drop" THEN "dropped" ELSE "done"]
    /\ IF cancel[c].pc = "drop"
       THEN EndAs(j, "cancelled", TRUE)
       ELSE state' = [state EXCEPT ![j].stop = TRUE] /\ UNCHANGED ended
    /\ told' = told \cup (IF thread[j] \in {"off", "lookup", "run"} THEN {j} ELSE {})
    /\ UNCHANGED <<jobs, threads, started, caller, thread, server>>

-----------------------------------------------------------------------------
(* shutdown *)

Shutdown ==
    /\ Running /\ server.up /\ \A j \in Job : caller[j] \in {"off", "back"}
    /\ LET active == {j \in Job : \E i \in Id : jobs[i] = j /\ state[j].status \in Live} IN
         /\ server' = [up |-> FALSE, exited |-> FALSE,
                       awaited |-> {threads[state[j].id] : j \in active} \ {NoJob}]
         /\ state' = [j \in Job |-> IF j \in active THEN [state[j] EXCEPT !.stop = TRUE]
                                    ELSE state[j]]
         /\ told' = told \cup {j \in active : thread[j] \in {"off", "lookup", "run"}}
    /\ UNCHANGED <<jobs, threads, started, caller, thread, cancel, ended>>

\* Every awaited thread ended, or the time is up.
Exit ==
    /\ Running /\ ~server.up
    /\ server' = [server EXCEPT !.exited = TRUE]
    /\ UNCHANGED <<jobs, threads, state, started, caller, thread, cancel, ended, told>>

Quiet == started = MaxStarts /\ \A j \in Job : thread[j] = "done"
Rest  == (Quiet \/ server.exited) /\ UNCHANGED vars

Next ==
    \/ \E i \in Id : server.up /\ (Register(i) \/ \E c \in Canceller : Decide(c, i))
    \/ \E j \in Job : List(j) \/ MarkRunning(j) \/ StartThread(j) \/ Lookup(j) \/ Leave(j)
                      \/ ReadStop(j) \/ Finish(j) \/ Prune(j)
    \/ \E c \in Canceller : Apply(c)
    \/ Shutdown \/ Exit \/ Rest

Spec == Init /\ [][Next]_vars

-----------------------------------------------------------------------------
(* Properties *)

\* A runner at work is under its id, where a cancellation finds it, or is told to
\* stop by should_stop: pruning never cuts loose a job that goes on.
WorkIsReachable ==
    \A j \in Job : thread[j] = "run" => jobs[state[j].id] = j \/ ShouldStop(state[j].id)

\* A job that was told to stop before its runner ended does not end as completed or
\* failed.
ToldEndsCancelled ==
    \A j \in told : thread[j] \in {"last", "done"} => state[j].status \notin {"completed", "failed"}

\* is_job_running misses a runner at work only when its job was told to stop; a
\* switch of the database relies on it.
FenceSeesWork ==
    \A j \in Job : thread[j] = "run" /\ ~state[j].stop
        => jobs[state[j].id] = j /\ state[j].status = "running"

\* The status a job ended with changes only when a cancellation found the job still
\* pending, was overtaken by its start, and is applied or undone later.
EndIsFinal(j) ==
    state[j].status \in Terminal /\ state'[j].status # state[j].status
    => \E c \in Canceller : cancel[c].job = j /\ cancel[c].pc \in {"drop", "dropped"}

\* A thread that ends leaves no more ended jobs in the registry than its limit.
EndsPruned(j) ==
    thread[j] = "last" /\ thread'[j] = "done"
    => Cardinality({i \in Id : jobs'[i] # NoJob /\ state'[jobs'[i]].status \in Terminal})
          <= MaxTerminal

\* A thread that shutdown does not wait for belongs to a job that reused an id.
ShutdownAwaitsWork ==
    ~server.up /\ ~server.exited => \A j \in Job :
        thread[j] \in {"lookup", "run"} =>
            \/ j \in server.awaited \/ jobs[state[j].id] # j \/ state[j].status \in Terminal
            \/ \E k \in Job : k # j /\ state[k].id = state[j].id

JobsAreReachable == WorkIsReachable /\ ToldEndsCancelled /\ FenceSeesWork /\ ShutdownAwaitsWork
JobsStayEnded    == \A j \in Job : EndIsFinal(j) /\ EndsPruned(j)
=============================================================================
