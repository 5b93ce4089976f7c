------------------------- MODULE ExecutionLifecycle -------------------------
(***************************************************************************)
(* The life of one workflow run: the job thread that executes its steps    *)
(* (ExecutionService.execute_plan_job), the API calls that cancel and      *)
(* resume it, a graceful shutdown, a crash at any point and the recovery   *)
(* at the next start.  Job threads, cancel calls and resume calls          *)
(* interleave; each of their actions is one repository transaction, one    *)
(* event publication or one step of the job manager.                       *)
(*                                                                         *)
(* Transactions that read before they write are not isolated by the        *)
(* database driver (no BEGIN is issued before the first write), so the two *)
(* whose writes depend on what they read -- update_run(cancelled) and      *)
(* consume_pause_checkpoint -- take two actions, a load and a commit.      *)
(***************************************************************************)
EXTENDS RunRecord, Sequences, FiniteSets

CONSTANTS
    MaxJobs,      \* bound: jobs ever started for the run (first, resumed, recovered)
    MaxCrash,     \* bound: process exits, graceful or not
    Canceller,    \* concurrent cancel requests, each made once
    Resumer,      \* concurrent clients of the resume endpoint
    Gates,        \* steps that pause for human review
    Fallible,     \* steps whose handler may raise
    Nullable,     \* steps whose output may be None
    Terminals,    \* output steps, recorded in output_payload
    Sources,      \* the steps bound to a step's data inputs
    HasChat       \* whether the plan carries a chat_terminal_outputs mapping

Job    == 1..MaxJobs
NoJob  == 0
Thread == Job \cup Canceller \cup Resumer

ASSUME ConstantsAssumption ==
    /\ MaxJobs \in Nat \ {0} /\ MaxCrash \in Nat
    /\ Canceller \cap Resumer = {} /\ Job \cap (Canceller \cup Resumer) = {}
    /\ Gates \subseteq Step /\ Fallible \subseteq Step /\ Nullable \subseteq Step
    /\ Terminals \subseteq Step
    /\ Sources \in [Step -> SUBSET Step]
    /\ HasChat \in BOOLEAN

VARIABLES
    db,         \* durable: the run's record
    log,        \* durable: the run's lifecycle events, in sequence order
    chat,       \* durable: chat exchanges appended by the run
    server,     \* "up", "stopping", "down" or "recovering"
    crashes,    \* process exits so far
    job,        \* the job manager's entry for the run
    spawned,    \* jobs started so far
    pc,         \* where every thread is
    ctx,        \* why a thread evaluates _cancelled
    me,         \* the local variables of every thread
    succeeded,  \* history: steps whose handler has returned
    late        \* history: handlers started although a cancellation was requested

durable == <<db, log, chat>>
control == <<server, crashes, job, spawned>>
locals  == <<ctx, me>>
history == <<succeeded, late>>
vars    == <<durable, control, pc, locals, history>>

EventKind == {"started", "paused", "resumed", "requested", "cancelled",
              "completed", "failed", "recovered"}
JobStatus == {"none", "running", "completed", "failed", "cancelled"}
Context   == {"loop", "poll", "except", "end", "api"}
JobLabel  == {"off", "begin", "mark", "pubStarted", "load", "check", "checkStop",
              "cancelLoad", "cancelCommit", "cancelPub", "read", "skip", "start",
              "exec", "complete", "pause", "pubPaused", "failStep", "failRun",
              "pubFailed", "chat", "finish", "pubCompleted", "returned", "raised",
              "done"}
ApiLabel  == {"idle", "request", "pubRequested", "stopJob", "check", "checkStop",
              "cancelLoad", "cancelCommit", "cancelPub", "done"}
ResumeLabel == {"idle", "consumeLoad", "consumeCommit", "pubResumed", "startJob"}

\* Labels at which a job may still execute steps or write the record.
Busy == JobLabel \ {"off", "pubPaused", "returned", "raised", "done"}

NoCheckpoint == [token |-> NoToken, gate |-> NoStep, clears |-> FALSE]
NoPlan       == [writes |-> FALSE, clears |-> FALSE]

\* The local variables of a thread: the status in the snapshot it holds, what
\* its pending update_run(cancelled) decided to write, a job's position in
\* plan.step_order, its outputs_by_step (the steps with a value) and its
\* output_payload, and the checkpoint a resume call has loaded.
LocalType == [snap: RunStatus, plan: [writes: BOOLEAN, clears: BOOLEAN],
              pos: Nat, have: SUBSET Step, pay: SUBSET Step,
              seen: [token: Job \cup {NoToken}, gate: Step \cup {NoStep}, clears: BOOLEAN]]
NewLocals == [snap |-> "queued", plan |-> NoPlan, pos |-> 1, have |-> {}, pay |-> {},
              seen |-> NoCheckpoint]

\* Mutant: a job is registered as pending and never marked running.
NewJobPending(j) == [id |-> j, status |-> "pending", stop |-> FALSE]

NewJob(j)    == [id |-> j, status |-> "running", stop |-> FALSE]
NullJob      == [id |-> NoJob, status |-> "none", stop |-> FALSE]

Init ==
    /\ db = NewRecord /\ log = <<>> /\ chat = 0
    /\ server = "up" /\ crashes = 0
    /\ job = NewJob(1) /\ spawned = 1
    /\ pc = [t \in Thread |-> IF t = 1 THEN "begin" ELSE IF t \in Job THEN "off" ELSE "idle"]
    /\ ctx = [t \in Thread |-> "loop"] /\ me = [t \in Thread |-> NewLocals]
    /\ succeeded = {} /\ late = 0

-----------------------------------------------------------------------------
(* Steps shared by the threads *)

\* Labels inside the try block of the step loop, where an exception leads to
\* another evaluation of _cancelled instead of ending the job.
InTry == {"skip", "start", "exec", "complete", "pause", "pubPaused"}

Goto(t, l) == pc' = [pc EXCEPT ![t] = l] /\ UNCHANGED ctx

Evaluate(t, c) == pc' = [pc EXCEPT ![t] = "check"] /\ ctx' = [ctx EXCEPT ![t] = c]

\* A repository call raised in thread t, because the record is not readable.
Raise(t) ==
    IF t \in Job
    THEN IF pc[t] \in InTry \/ ctx[t] = "poll"
         THEN Evaluate(t, "except")
         ELSE Goto(t, "raised")
    ELSE Goto(t, IF t \in Canceller THEN "done" ELSE "idle")

\* t commits d as the new record and goes on to l: the write is followed by a
\* get_run, which raises when d is not readable.
CommitGoto(t, d, l) ==
    /\ db' = d
    /\ IF Readable(d) THEN Goto(t, l) ELSE Raise(t)

Publish(kind) == log' = Append(log, kind)

\* _cancelled returned: TRUE ends the job (in a handler: makes it raise), FALSE
\* lets it go on.
Answer(t, cancelled) ==
    IF t \in Canceller THEN Goto(t, "done")
    ELSE CASE ctx[t] = "poll" -> IF cancelled THEN Evaluate(t, "except") ELSE Goto(t, "exec")
           [] ctx[t] # "poll" /\ cancelled -> Goto(t, "returned")
           [] ctx[t] = "loop" /\ ~cancelled -> Goto(t, "read")
           [] ctx[t] = "except" /\ ~cancelled -> Goto(t, "failStep")
           [] ctx[t] = "end" /\ ~cancelled -> Goto(t, IF HasChat THEN "chat" ELSE "finish")

-----------------------------------------------------------------------------
(* _cancelled *)

\* cancellation_requested or stop_requested: the run becomes cancelled unless
\* the snapshot was terminal.
Cancelling(t, status) ==
    IF status \in Terminal THEN Answer(t, TRUE) ELSE Goto(t, "cancelLoad")

\* Mutant: the durable flag is ignored, only the job manager is asked.
CheckRecordStopOnly(t) ==
    /\ pc[t] = "check"
    /\ IF ~Readable(db)
       THEN Raise(t) /\ UNCHANGED me
       ELSE me' = [me EXCEPT ![t].snap = db.status] /\ Goto(t, "checkStop")
    /\ UNCHANGED <<durable, control, history>>

CheckRecord(t) ==
    /\ pc[t] = "check"
    /\ IF ~Readable(db)
       THEN Raise(t) /\ UNCHANGED me
       ELSE /\ me' = [me EXCEPT ![t].snap = db.status]
            /\ IF db.cancelReq THEN Cancelling(t, db.status) ELSE Goto(t, "checkStop")
    /\ UNCHANGED <<durable, control, history>>

\* job_manager.should_stop: TRUE for a job it does not know.
CheckStop(t) ==
    /\ pc[t] = "checkStop"
    /\ IF job.id = NoJob \/ job.stop THEN Cancelling(t, me[t].snap) ELSE Answer(t, FALSE)
    /\ UNCHANGED <<durable, control, me, history>>

CancelLoad(t) ==
    /\ pc[t] = "cancelLoad"
    /\ me' = [me EXCEPT ![t].plan = CancelPlan(db)]
    /\ Goto(t, "cancelCommit")
    /\ UNCHANGED <<durable, control, history>>

CancelCommit(t) ==
    /\ pc[t] = "cancelCommit"
    /\ CommitGoto(t, Cancel(db, me[t].plan), "cancelPub")
    /\ UNCHANGED <<log, chat, control, me, history>>

\* Mutant: the run is cancelled without an event.
CancelSilently(t) ==
    /\ pc[t] = "cancelPub"
    /\ Answer(t, TRUE)
    /\ UNCHANGED <<durable, control, me, history>>

CancelPublish(t) ==
    /\ pc[t] = "cancelPub"
    /\ Publish("cancelled")
    /\ Answer(t, TRUE)
    /\ UNCHANGED <<db, chat, control, me, history>>

Cancelled(t) ==
    \/ CheckRecord(t) \/ CheckStop(t)
    \/ CancelLoad(t)  \/ CancelCommit(t) \/ CancelPublish(t)

-----------------------------------------------------------------------------
(* The job thread: execute_plan_job *)

Step_(j) == me[j].pos     \* the step the job is at

Begin(j) ==
    /\ pc[j] = "begin"
    /\ IF ~Readable(db) THEN Raise(j)
       ELSE Goto(j, IF db.status = "queued" THEN "mark" ELSE "load")
    /\ UNCHANGED <<durable, control, me, history>>

MarkRunning(j) ==
    /\ pc[j] = "mark"
    /\ CommitGoto(j, SetStatus(db, "running"), "pubStarted")
    /\ UNCHANGED <<log, chat, control, me, history>>

PublishStarted(j) ==
    /\ pc[j] = "pubStarted"
    /\ Publish("started")
    /\ Goto(j, "load")
    /\ UNCHANGED <<db, chat, control, me, history>>

\* The loop starts from the persisted outputs of the completed steps and from
\* the persisted final outputs.
LoadOutputs(j) ==
    /\ pc[j] = "load"
    /\ IF ~Readable(db)
       THEN Raise(j) /\ UNCHANGED me
       ELSE /\ me' = [me EXCEPT
                 ![j].have = {s \in db.value : db.step[s] = "completed"},
                 ![j].pay = db.outputs]
            /\ Evaluate(j, "loop")
    /\ UNCHANGED <<durable, control, history>>

\* The next iteration of the loop, or what follows the last one.
Advance(j) ==
    /\ me' = [me EXCEPT ![j].pos = @ + 1]
    /\ Evaluate(j, IF me[j].pos = N THEN "end" ELSE "loop")

\* _should_skip_step: there are bound inputs and none of them has a value.
ShouldSkip(j) ==
    LET bound == Sources[Step_(j)] IN bound # {} /\ bound \cap me[j].have = {}

\* Mutant: every step that was begun counts as done.
ReadStepBegun(j) ==
    /\ pc[j] = "read"
    /\ IF ~Readable(db) THEN Raise(j) /\ UNCHANGED me
       ELSE IF db.step[Step_(j)] # "queued" THEN Advance(j)
       ELSE Goto(j, IF ShouldSkip(j) THEN "skip" ELSE "start") /\ UNCHANGED me
    /\ UNCHANGED <<durable, control, history>>

\* Mutant: completed steps are not passed over.
ReadStepAgain(j) ==
    /\ pc[j] = "read"
    /\ IF ~Readable(db) THEN Raise(j)
       ELSE Goto(j, IF ShouldSkip(j) THEN "skip" ELSE "start")
    /\ UNCHANGED <<durable, control, me, history>>

ReadStep(j) ==
    /\ pc[j] = "read"
    /\ IF ~Readable(db) THEN Raise(j) /\ UNCHANGED me
       ELSE IF db.step[Step_(j)] = "completed" THEN Advance(j)
       ELSE Goto(j, IF ShouldSkip(j) THEN "skip" ELSE "start") /\ UNCHANGED me
    /\ UNCHANGED <<durable, control, history>>

SkipStep(j) ==
    /\ pc[j] = "skip"
    /\ db' = SetStep(db, Step_(j), "skipped")
    /\ IF Readable(db') THEN Advance(j) ELSE Raise(j) /\ UNCHANGED me
    /\ UNCHANGED <<log, chat, control, history>>

\* _start_step; the handler begins.
StartStep(j) ==
    /\ pc[j] = "start"
    /\ CommitGoto(j, SetStep(db, Step_(j), "running"), "exec")
    /\ late' = IF db.cancelReq /\ late < 2 THEN late + 1 ELSE late
    /\ UNCHANGED <<log, chat, control, me, succeeded>>

\* A handler may consult context["cancelled"] at any time.
HandlerPolls(j) ==
    /\ pc[j] = "exec"
    /\ Evaluate(j, "poll")
    /\ UNCHANGED <<durable, control, me, history>>

HandlerSucceeds(j) ==
    /\ pc[j] = "exec" /\ Step_(j) \notin Gates
    /\ \E hasValue \in BOOLEAN :
         /\ ~hasValue => Step_(j) \in Nullable
         /\ me' = [me EXCEPT
              ![j].have = IF hasValue THEN @ \cup {Step_(j)} ELSE @ \ {Step_(j)},
              ![j].pay = @ \cup ({Step_(j)} \cap Terminals)]
    /\ succeeded' = succeeded \cup {Step_(j)}
    /\ Goto(j, "complete")
    /\ UNCHANGED <<durable, control, late>>

HandlerPauses(j) ==
    /\ pc[j] = "exec" /\ Step_(j) \in Gates
    /\ succeeded' = succeeded \cup {Step_(j)}
    /\ Goto(j, "pause")
    /\ UNCHANGED <<durable, control, me, late>>

HandlerRaises(j) ==
    /\ pc[j] = "exec" /\ Step_(j) \in Fallible
    /\ Evaluate(j, "except")
    /\ UNCHANGED <<durable, control, me, history>>

HandlerReturns(j) == HandlerSucceeds(j) \/ HandlerPauses(j) \/ HandlerRaises(j)

FinishStep(j) ==
    /\ pc[j] = "complete"
    /\ db' = CompleteStep(db, Step_(j), Step_(j) \in me[j].have)
    /\ IF Readable(db') THEN Advance(j) ELSE Raise(j) /\ UNCHANGED me
    /\ UNCHANGED <<log, chat, control, history>>

\* _pause_run; the token is fresh.
PauseRun(j) ==
    /\ pc[j] = "pause"
    /\ CommitGoto(j, PauseAt(db, Step_(j), j), "pubPaused")
    /\ UNCHANGED <<log, chat, control, me, history>>

PublishPaused(j) ==
    /\ pc[j] = "pubPaused"
    /\ IF Readable(db) THEN Publish("paused") /\ Goto(j, "returned")
                       ELSE Raise(j) /\ UNCHANGED log
    /\ UNCHANGED <<db, chat, control, me, history>>

FailStep(j) ==
    /\ pc[j] = "failStep"
    /\ CommitGoto(j, SetStep(db, Step_(j), "failed"), "failRun")
    /\ UNCHANGED <<log, chat, control, me, history>>

\* Also reached when appending to the chat history fails.
FailRun(j) ==
    /\ pc[j] = "failRun"
    /\ CommitGoto(j, SetStatus(db, "failed"), "pubFailed")
    /\ UNCHANGED <<log, chat, control, me, history>>

PublishFailed(j) ==
    /\ pc[j] = "pubFailed"
    /\ IF Readable(db) THEN Publish("failed") ELSE UNCHANGED log
    /\ Goto(j, "raised")
    /\ UNCHANGED <<db, chat, control, me, history>>

\* _persist_chat_history appends the exchange, or raises.
AppendChat(j) ==
    /\ pc[j] = "chat"
    /\ \/ chat' = chat + 1 /\ Goto(j, "finish")
       \/ Goto(j, "failRun") /\ UNCHANGED chat
    /\ UNCHANGED <<db, log, control, me, history>>

FinishRun(j) ==
    /\ pc[j] = "finish"
    /\ CommitGoto(j, Complete(db, me[j].pay), "pubCompleted")
    /\ UNCHANGED <<log, chat, control, me, history>>

PublishCompleted(j) ==
    /\ pc[j] = "pubCompleted"
    /\ Publish("completed")
    /\ Goto(j, "returned")
    /\ UNCHANGED <<db, chat, control, me, history>>

\* JobManager._run_job, after the runner: the outcome goes to the job's own
\* entry, which a resumed run has replaced.
EndJob(j) ==
    /\ pc[j] \in {"returned", "raised"}
    /\ job' = IF job.id # j THEN job
              ELSE [job EXCEPT !.status = IF job.stop THEN "cancelled"
                                          ELSE IF pc[j] = "raised" THEN "failed"
                                          ELSE "completed"]
    /\ me' = [me EXCEPT ![j] = NewLocals]
    /\ Goto(j, "done")
    /\ UNCHANGED <<durable, server, crashes, spawned, history>>

Execute(j) ==
    \/ Begin(j) \/ MarkRunning(j) \/ PublishStarted(j) \/ LoadOutputs(j)
    \/ ReadStep(j) \/ SkipStep(j) \/ StartStep(j) \/ FinishStep(j)
    \/ PauseRun(j) \/ PublishPaused(j)
    \/ FailStep(j) \/ FailRun(j) \/ PublishFailed(j)
    \/ AppendChat(j) \/ FinishRun(j) \/ PublishCompleted(j) \/ EndJob(j)

RunJob(j) == Execute(j) \/ HandlerPolls(j) \/ HandlerReturns(j) \/ Cancelled(j)

\* job_manager.start_job: the entry of the same run id is replaced.
SpawnJob ==
    /\ spawned < MaxJobs
    /\ spawned' = spawned + 1
    /\ job' = NewJob(spawned + 1)

-----------------------------------------------------------------------------
(* POST /executions/{run_id}/cancel: ExecutionService.cancel *)

RequestCancelRead(c) ==
    /\ pc[c] = "idle" /\ server = "up"
    /\ IF Readable(db) /\ db.status \notin Terminal
       THEN me' = [me EXCEPT ![c].snap = db.status] /\ Goto(c, "request")
       ELSE Goto(c, "done") /\ UNCHANGED me
    /\ UNCHANGED <<durable, control, history>>

RequestCancelCommit(c) ==
    /\ pc[c] = "request"
    /\ CommitGoto(c, RequestCancel(db), "pubRequested")
    /\ UNCHANGED <<log, chat, control, me, history>>

PublishRequested(c) ==
    /\ pc[c] = "pubRequested"
    /\ Publish("requested")
    /\ Goto(c, "stopJob")
    /\ UNCHANGED <<db, chat, control, me, history>>

\* job_manager.cancel_job, accepted by a live job only.
StopJob(c) ==
    /\ pc[c] = "stopJob"
    /\ LET accepted == job.status = "running" IN
         /\ job' = IF accepted THEN [job EXCEPT !.stop = TRUE] ELSE job
         /\ IF me[c].snap \in {"queued", "paused"} \/ ~accepted
            THEN Evaluate(c, "api")
            ELSE Goto(c, "done")
    /\ UNCHANGED <<durable, server, crashes, spawned, me, history>>

CancelCall(c) ==
    \/ RequestCancelCommit(c) \/ PublishRequested(c) \/ StopJob(c) \/ Cancelled(c)

-----------------------------------------------------------------------------
(* POST /executions/{run_id}/resume: ExecutionService._resume *)

\* Only the calls whose token and payload are accepted: the others raise before
\* they write.
ResumeRead(r) ==
    /\ pc[r] = "idle" /\ server = "up"
    /\ Readable(db) /\ db.status = "paused"
    /\ me' = [me EXCEPT ![r].seen = [NoCheckpoint EXCEPT !.token = db.token]]
    /\ Goto(r, "consumeLoad")
    /\ UNCHANGED <<durable, control, history>>

ConsumeLoad(r) ==
    /\ pc[r] = "consumeLoad"
    /\ IF db.status = "paused" /\ db.token = me[r].seen.token
       THEN /\ me' = [me EXCEPT ![r].seen = [token |-> db.token, gate |-> db.gate,
                                            clears |-> db.cancelReq]]
            /\ Goto(r, "consumeCommit")
       ELSE Raise(r) /\ UNCHANGED me
    /\ UNCHANGED <<durable, control, history>>

ConsumeCommit(r) ==
    /\ pc[r] = "consumeCommit"
    /\ CommitGoto(r, Consume(db, me[r].seen.gate, me[r].seen.clears), "pubResumed")
    /\ UNCHANGED <<log, chat, control, me, history>>

PublishResumed(r) ==
    /\ pc[r] = "pubResumed"
    /\ Publish("resumed")
    /\ Goto(r, "startJob")
    /\ UNCHANGED <<db, chat, control, me, history>>

\* Mutant: the checkpoint is consumed, but no job is started.
ResumeWithoutJob(r) ==
    /\ pc[r] = "startJob"
    /\ Goto(r, "idle")
    /\ UNCHANGED <<durable, control, me, history>>

StartResumed(r) ==
    /\ pc[r] = "startJob"
    /\ SpawnJob
    /\ pc' = [pc EXCEPT ![r] = "idle", ![spawned + 1] = "begin"]
    /\ UNCHANGED <<durable, server, crashes, ctx, me, history>>

ResumeCall(r) ==
    \/ ConsumeLoad(r) \/ ConsumeCommit(r) \/ PublishResumed(r) \/ StartResumed(r)

-----------------------------------------------------------------------------
(* The process: app_lifespan *)

NoCallInProgress == \A t \in Canceller \cup Resumer : pc[t] \in {"idle", "done"}

\* job_manager.shutdown after the server has drained its requests; the job
\* threads are daemons and go on until the process exits.
Shutdown ==
    /\ server = "up" /\ NoCallInProgress /\ crashes < MaxCrash
    /\ server' = "stopping"
    /\ job' = IF job.status = "running" THEN [job EXCEPT !.stop = TRUE] ELSE job
    /\ UNCHANGED <<durable, crashes, spawned, pc, locals, history>>

\* The process exits: everything but the database is lost.
Exit ==
    /\ server # "down" /\ crashes < MaxCrash
    /\ server' = "down" /\ crashes' = crashes + 1
    /\ job' = NullJob
    /\ pc' = [t \in Thread |-> IF t \in Job /\ t <= spawned THEN "done"
                               ELSE IF t \in Canceller /\ pc[t] # "idle" THEN "done"
                               ELSE IF t \in Resumer THEN "idle"
                               ELSE pc[t]]
    /\ me' = [t \in Thread |-> NewLocals]
    /\ UNCHANGED <<durable, spawned, ctx, history>>

\* Mutant: runs that were queued when the process exited are not looked for.
RecoverableRunning == db.status = "running"

\* recover_interrupted, for a run found queued or running.  Nothing else runs
\* during startup.
Recoverable == db.status \in {"queued", "running"}

RecoverNothing ==
    /\ server = "down"
    /\ ~Recoverable \/ ~Readable(db)
    /\ server' = "up"
    /\ UNCHANGED <<durable, crashes, job, spawned, pc, locals, history>>

FailClosed ==
    /\ server = "down"
    /\ Recoverable /\ Readable(db) /\ \E s \in Step : db.step[s] = "running"
    /\ db' = SetStatus(db, "failed") /\ Publish("recovered")
    /\ server' = "up"
    /\ UNCHANGED <<chat, crashes, job, spawned, pc, locals, history>>

\* Mutant: an ambiguous step does not keep the run from being requeued.
RequeueAmbiguous ==
    /\ server = "down"
    /\ Recoverable /\ Readable(db)
    /\ db' = SetStatus(db, "queued") /\ Publish("recovered")
    /\ server' = "recovering"
    /\ UNCHANGED <<chat, crashes, job, spawned, pc, locals, history>>

Requeue ==
    /\ server = "down"
    /\ Recoverable /\ Readable(db) /\ \A s \in Step : db.step[s] # "running"
    /\ db' = SetStatus(db, "queued") /\ Publish("recovered")
    /\ server' = "recovering"
    /\ UNCHANGED <<chat, crashes, job, spawned, pc, locals, history>>

StartRecovered ==
    /\ server = "recovering"
    /\ SpawnJob
    /\ pc' = [pc EXCEPT ![spawned + 1] = "begin"]
    /\ server' = "up"
    /\ UNCHANGED <<durable, crashes, locals, history>>

Startup == RecoverNothing \/ FailClosed \/ Requeue \/ StartRecovered

-----------------------------------------------------------------------------

Settled ==
    /\ server = "up"
    /\ \A j \in Job : pc[j] \in {"off", "done"}
    /\ \A t \in Canceller \cup Resumer : pc[t] \in {"idle", "done"}

\* A settled run may stay as it is for ever.
Rest == Settled /\ UNCHANGED vars

Next ==
    \/ \E j \in Job : RunJob(j)
    \/ \E c \in Canceller : RequestCancelRead(c) \/ CancelCall(c)
    \/ \E r \in Resumer : ResumeRead(r) \/ ResumeCall(r)
    \/ Shutdown \/ Exit \/ Startup \/ Rest

Spec == Init /\ [][Next]_vars

\* Threads run, handlers return, a stopping process exits and a process that is
\* down is started again; nobody is obliged to cancel or to resume.
Fairness ==
    /\ \A j \in Job : WF_vars(Execute(j) \/ Cancelled(j)) /\ SF_vars(HandlerReturns(j))
    /\ \A c \in Canceller : WF_vars(CancelCall(c))
    /\ \A r \in Resumer : WF_vars(ResumeCall(r))
    /\ WF_vars(Startup) /\ WF_vars(Exit /\ server = "stopping")

FairSpec == Spec /\ Fairness

-----------------------------------------------------------------------------
(* Properties *)

\* Every variable has its type.
TypeOK ==
    /\ db \in RecordType(Job) /\ log \in Seq(EventKind) /\ chat \in Nat
    /\ server \in {"up", "stopping", "down", "recovering"} /\ crashes \in 0..MaxCrash
    /\ job \in [id: Job \cup {NoJob}, status: JobStatus, stop: BOOLEAN]
    /\ spawned \in 0..MaxJobs
    /\ pc \in [Thread -> JobLabel \cup ApiLabel \cup ResumeLabel]
    /\ \A t \in Thread : pc[t] \in IF t \in Job THEN JobLabel
                                   ELSE IF t \in Canceller THEN ApiLabel ELSE ResumeLabel
    /\ ctx \in [Thread -> Context] /\ me \in [Thread -> LocalType]
    /\ succeeded \subseteq Step /\ late \in 0..2

\* At most one job thread executes the run's steps, although a resumed or
\* recovered run replaces the job of an earlier thread.
OneExecutor == \A i, j \in Job : pc[i] \in Busy /\ pc[j] \in Busy => i = j

\* The handler of a step begins.
Invokes(s) == \E j \in Job : pc[j] = "start" /\ pc'[j] = "exec" /\ Step_(j) = s

\* A handler that has returned successfully is never invoked again: not after a
\* review, not after a crash between its return and the commit of its result.
NoReplay == [][\A s \in succeeded : ~Invokes(s)]_vars

\* A completed step keeps its status in the record.
CompletedIsFinal ==
    [][\A s \in Step : db.step[s] = "completed" => db'.step[s] = "completed"]_vars

\* What is done stays done, through the exit and the recovery of the process and through
\* either reviews (LifecycleReview) or cancellations (LifecycleCancel).  It does not hold
\* of a run that has both: a cancellation that commits between the two halves of
\* consume_pause_checkpoint (ConsumeRace) leaves the reviewed step completed under the
\* job that paused it, which marks the step failed, and the resumed job executes it again.
DoneStaysDone == NoReplay /\ CompletedIsFinal

\* A run is marked completed only when every step was completed or skipped.
CompletedIsWhole ==
    db.status = "completed" => \A s \in Step : db.step[s] \in {"completed", "skipped"}

\* A paused run can be resumed: its checkpoint names the one paused step, and no
\* thread is still going to execute steps.
PausedIsResumable ==
    db.status = "paused" =>
        /\ db.token # NoToken
        /\ {s \in Step : db.step[s] = "paused"} = {db.gate}
        /\ \A j \in Job : pc[j] \notin Busy

\* Without review gates, a cancellation request that is on record lets at most
\* one more handler begin (the one whose check came before the request).
CancelStopsSteps == late <= 1

\* When the run has come to rest in a terminal status, the event history holds
\* the event of that status: clients that follow the events learn of it.  An
\* exit of the process between the commit and the publication loses the event.
RestIsAnnounced ==
    Settled /\ crashes = 0 /\ db.status \in Terminal =>
        \E k \in DOMAIN log : log[k] = db.status

\* Whatever is cancelled, resumed, shut down or lost in a crash, the run comes
\* to rest: no thread is left and its status is terminal or paused.
ComesToRest == []<>(Settled /\ db.status \in Terminal \cup {"paused"})

-----------------------------------------------------------------------------
(* What the documentation says and the code does not do *)

\* "Atomically verify and consume a pause checkpoint": a commit consumes the
\* checkpoint that its call verified, in the state in which it commits.  Otherwise
\* another resume call has consumed it, or a cancellation has ended the run and its
\* token "can no longer be used".
AtomicConsume ==
    [][\A r \in Resumer :
         pc[r] = "consumeCommit" /\ pc'[r] = "pubResumed" =>
             db.status = "paused" /\ db.token = me[r].seen.token]_vars

\* "Cancelling a paused run clears its run and step checkpoints in the same
\* transaction": a cancelled run holds no token.
CancelledHoldsNoToken == db.status = "cancelled" => db.token = NoToken

\* "On success, the selected Chat scope receives the user message and final
\* terminal output": one exchange for one submission.
ChatOnce == chat <= 1

\* "final outputs ... are stored": a completed run holds the output of every
\* terminal step that completed.
FinalOutputsKept ==
    db.status = "completed" =>
        db.outputs = {s \in Terminals : db.step[s] = "completed"}
=============================================================================
