# ParaGraph: a verification project for the workflow engine and its services

ParaGraph is an editor and a server for LLM workflows. The editor (React) sends
a graph; the server (FastAPI, one process, SQLite) compiles it
into a plan and executes the plan step by step in a job thread, records every
step in a database, streams events over a WebSocket, can pause a run for human
review and resume it, can be cancelled, and recovers interrupted runs when it
starts again. This directory holds TLA+ modules of the parts where concurrency,
crashes and lost or repeated calls matter, configurations with which TLC checks
them, and proofs about them that the TLAPS proof system checks.

All source paths are relative to the root of the repository; `server/` stands
for `src/app/server/`.

## 1. Inventory

| Component | State it keeps | Operations | Source |
|---|---|---|---|
| Run lifecycle (`ExecutionService`) | local variables of the job thread | start, execute_plan_job, cancel, resume, recover_interrupted, `_cancelled` | `server/services/workflow/execution.py`, `server/api/executions.py` |
| Run repository | `execution_runs`, `execution_steps`, `execution_events` rows | create_run, update_run, update_step, pause_run, consume_pause_checkpoint, append_event, get_events, list_recoverable, cleanup | `server/repositories/workflow/execution_run.py` |
| Step policy | attempt, deadline, `attempt_active` | attempts, retries, timeouts in worker threads | `execution.py:489-626` |
| Job manager | `_jobs`, `_threads`, stop flags, results | start_job, cancel_job, should_stop, update_result, shutdown, pruning | `server/services/jobs.py` |
| Event stream | `_subscribers`, bounded queues, `_publish_lock` | publish, subscribe, replay and live loop of the WebSocket | `server/services/runtime/events.py`, `server/api/ws.py` |
| Database runtime | `_switching`, `_active_operations`, the engine | session, operation, activate, test | `server/repositories/database/runtime.py` |
| Migration | Alembic version and tables, file lock | migrate at start and at a switch | `server/repositories/database/migration.py` |
| Chat history | messages per scope, in memory or in tables | load (and trim), record an exchange, show, reset | `server/services/workflow/chat_history.py`, `server/repositories/workflow/chat_history_*.py` |
| Compiler | none | activate, check, order, chat terminals, bind | `server/services/workflow/compiler/service.py` |
| Node registry | manifests in memory and on disk | import, reload | `server/services/workflow/nodes/registry.py` |
| Tools of a run | `_RUNTIME_TOOL_COLLECTIONS` of the process | store a collection, call a tool, release | `server/services/workflow/node_handlers/core/tools.py` |
| Model providers | configuration, models a provider lists | validate, select, convert, send, embed | `server/services/workflow/provider/`, `server/services/llm/providers.py`, `node_handlers/core/models.py`, `embeddings.py` |
| Hugging Face downloads and catalog | model directories and their metadata, jobs, a cache of pages | request, download, cancel; list a page | `server/services/workflow/provider/huggingface_*.py` |
| HTTP transport | none between calls | redirects, retries, limits, downloads | `server/services/workflow/http_transport.py` |
| Vector stores | FAISS directories and file locks; collections of six services | write, update, delete, search | `server/services/workflow/vector_stores/` |
| Configuration | provider rows, profiles; start-up files | save, profiles, secrets | `server/services/configuration.py`, `src/app/client/src/pages/ConfigurationsPage.tsx` |
| Workflow editor | tracked run, review shown, generations, autosave | start, follow, resume, cancel, restore | `src/app/client/src/pages/WorkflowPage.tsx`, `app/services/executionsApi.ts`, `workflow/hooks/workflowPersistence.ts` |

How they interact. An API thread creates the run and its job inside
`database_runtime.operation()` and returns; the job thread reads and writes the
record through the repository, publishes through the event service (which
appends to the history first and then puts the event on the queues of the
subscribers), and asks both the record and the job manager whether it was
cancelled. Cancel and resume requests run in API threads beside it. A pause ends
the job thread: the run waits in the database until a resume consumes its
one-time token and starts another job under the same id. The process may exit
anywhere; only the database survives.

What is hard, and what must hold for each part:

* **Lifecycle**: threads of earlier and later jobs, cancel and resume requests,
  shutdown and crashes interleave between transactions. One thread executes at a
  time; no handler that returned is invoked again; a completed step stays
  completed; "completed" means the whole plan; a paused run can be resumed; a
  recorded cancellation stops the steps; the terminal status is announced; the
  run always comes to rest.
* **Event stream**: history, replay and live queue overlap, and queues overflow.
  Sequence numbers are not allocated twice; a client misses nothing or is
  disconnected.
* **Database runtime**: switches race with requests and jobs that start. No
  session outlives its engine, no operation sees two databases, no switch under
  a job, also one that is cancelled while it starts; a switch ends.
* **Step policy**: a handler that timed out cannot be stopped and may answer
  later. Its result is dropped, one attempt is active, a side effect without an
  idempotency contract is not repeated, the step ends.

`PROJECT.json` lists every hazard at its line with the properties that would
catch it going wrong.

## 2. Modules

```
RunRecord ── ExecutionLifecycle ─┬─ MCLifecycle              (TLC instances)
                                 └─ ExecutionLifecycleProofs ── ReviewedRunProofs (TLAPS)
EventFeed ── EventStream ── EventStreamProofs
DatabaseFence ── DatabaseFenceProofs
StepAttempt ── StepAttemptProofs

PlanCompiler, RunTracking, ToolScope, ModelRouting, HttpTransport
   ── MCNodes ── NodesProofs
JobManager, HubDownloads, HubCatalog, ChatHistory, NodeRegistry, Migration,
ProviderSettings ── MCServices ── ServicesProofs
FaissStore, VectorBackends, VectorSearch ── MCRetrieval ── RetrievalProofs
```

The components of the last three groups are independent of each other and have few
states; MCNodes, MCServices and MCRetrieval check them together. The variable
`which` holds the component of a behaviour, chosen in the initial state: the
variables of this component start and move as its module says, and those of the
other components keep the value "off". Names that two modules use for variables
of their own stand for whatever `which` makes of them.

### RunRecord and ExecutionLifecycle

`RunRecord` is the durable record of one run with one operator for each write of
`ExecutionRunRepository`: a record has the run's status, cancellation flag,
resume token and gate, final outputs, and the status of every step. `Readable`
is the consistency check of `_state_from_records`: a row that fails it makes
every `get_run` raise, and the model follows where that exception goes.

`ExecutionLifecycle` has the threads: jobs (`1..MaxJobs`, in the order they are
started), cancel calls and resume calls, each with a program counter whose labels
are the database transactions, event publications and job manager calls of the
code, in its order. `me[t]` holds the thread's local variables (the snapshot it
loaded, its position in `plan.step_order`, `outputs_by_step`, `output_payload`,
the loaded checkpoint), `job` the job manager's entry of the run id, `log` the
lifecycle events, `chat` the appended exchanges, `server` the state of the
process.

Two repository calls decide from what they read what they write:
`update_run(status="cancelled")` and `consume_pause_checkpoint`. The SQLite driver
issues no BEGIN before the first write, so another transaction may commit in between: both take a load and a commit
action. The remaining writes do not depend on what their transaction read and
are one action. Only changed attributes are written, which is why `Consume`
clears the cancellation flag only when it was loaded as set.

Abstractions, each of which keeps the control:

* The creation of the run and the first `start_job` are in `Init` (job 1 stands
  before its first statement).
* A handler may return (with or without a value), pause if it is a gate, poll
  `context["cancelled"]`, or raise; what it computes is left out. Retries and
  timeouts are `StepAttempt`'s.
* Step-level events are not in `log`; the progress write and the step.completed
  event of `FinishStep` are part of that action. An evaluation of `_cancelled`
  in the `except` path of the step policy and the one of the step loop right
  after it are one.
* The short time in which `start_job` has registered a job as pending is merged
  with its start.
* Calls of resume whose token or payload is refused write nothing and are left
  out; a token is named by the job that issued it.
* `update_run` and the event of one recovered run are one action, for nothing
  else runs during startup.
* A database call may raise only because the record is unreadable (or, for the
  chat history, for any reason); I/O errors of the database are not modelled.

### EventFeed and EventStream

`EventFeed` is the promise: every open client handles the events of the run one
by one, in order, or its link is closed. `EventStream` has publishers that take
the publish lock, read `max(sequence)`, insert, take a copy of the subscribers and
serve them one by one, and connections that subscribe, replay page by page up
to the high water mark, drain their queue and follow it live. A full queue is
marked and unsubscribed; the connection notices the mark at the places where the
code looks at it. `seen` is the client's `lastEventSequence`. The refinement maps
`wpc` to the link; `last` and `seen` are themselves. Only connections that ask
for a replay are modelled.

### DatabaseFence

The counters and waits of `DatabaseRuntime`: `OpenSession` waits for
`~switching`, `EnterOperation` too, `BeginSwitch` refuses while a workflow job
runs, `Drained` waits for the counter and looks for jobs again, `Swap` replaces
the engine or fails, `EndSwitch` gives way. A `Starter` is a start or resume call
which opens sessions inside its operation and starts a job, whose thread opens
sessions of its own. Of the job manager it has what `is_job_running` reads: a job is
registered pending (a resume replaces the entry of the job whose id it takes over) and
then set running, `cancel_job` reads the status in one step (`FindPending`) and writes
it in another (`MarkCancelled`). A job that is cancelled in between, or replaced before
its thread has ended, works `Unseen`: `NoSwitchUnderJob` excepts it, and TLC
finds the switch under it when `NoSwitchUnderWork`, without the exception, is asked. All waits of the code are loops around one condition
variable that every change notifies, so a wait is a guard.

### StepAttempt

`_execute_step_with_policy` in the job thread (`rpc`) and the worker of every
attempt (`wpc`). A worker of an expired attempt goes on. `ToldToStop` is what the
closure passed to the handler evaluates: it reads the loop variables when it is
called, and so speaks about the current attempt, whoever asks.

### JobManager

The registry with any number of jobs. A job is the call of `start_job` that made
it; its `JobState` outlives its entry. Every access under the lock is a step, so
that the pending window, a cancellation that overtakes a start, a resumed run that
takes over the id of the job it follows, and threads that end and prune in any
order are there. `JobsAreReachable` is what cancellation, fence and shutdown
need; `JobsStayEnded` says that an ended job keeps its status. Excused there: a
cancellation that found the job pending and is applied later, which does change
a status in the code.

### RunTracking

The editor's side of a run. `flow` are the asynchronous functions (`runWorkflow`
and the effect that resumes a tracked run), `page` what the mounted page
remembers, `stored` what autosave wrote, `ask` a cancel or resume request. A
request and its answer are two steps; either may be lost. Pages are left, reloaded
and killed at any point; functions of a page that was left go on. `EditorIsTrue`:
one function follows the run while `isRunning` and none otherwise; a live run is
tracked by the page or by what the next page restores; one run at a time; the
review shown is that of the tracked run; an ended run is not left behind. Two
situations are excused because the code does not handle them: a run whose start
the page could not record (left, reloaded or cut off before the answer of
`startExecution`; history variable `orphan`), and a run that was cancelled or
resumed by a request made while the page still followed it, by an earlier page or
with a lost answer (`missed`): `requestCancellation` looks at `isRunning` as it
was rendered, so the page may keep showing a review that Resume and Cancel refuse
until it is reloaded.

### PlanCompiler

One step of the model is one turn of a loop of the compiler. TLC takes every set of
nodes, skipped nodes and connections over the manifests of MCNodes. A definition may
list an id twice (`twice`), one of the two skipped or none, and a connection too; the
nodes of one id are alike. `_topological_order` has an id once in its order and compares
it with the list of ids, and so reports a cycle for an id listed twice although there
need be none: `CycleExactly` says that it reports a cycle exactly then or when there
is one. The queue,
indegrees and the search for the terminal of every chat are those of the code;
`Closure` is the reference they are compared with. Controllers count as edges
like data; the text of diagnostics, positions and nested definitions are left out.

### ToolScope, ModelRouting, HttpTransport

`ToolScope` runs a plan of a step that defines tools, other steps and a step that
calls one, with attempts that time out and go on, a review, a cancellation and a
restart, against the registry of the process. Excused: a restart forgets the
collections although recovered and resumed runs still name them, and an attempt
that stores its collection after the release leaves it there.

`ModelRouting` follows one request of a chat or embedding node through the
validation of the compiler, `MODEL_PROVIDER`, the node's own validation and the
form of each client, while key, model list and image file may change. The form
is abstracted to what goes into the system text and what into the messages, in
order. The local pipeline of Hugging Face joins the messages to one prompt and keeps
its last `context_window` tokens: how many messages fit is data, so `HuggingFaceForm`
drops any number of the first ones when a window is set, and `NothingIsLost` excepts
that. A downloaded model is accepted without a key but loaded by its repository id with
an empty token, which a repository that is not public refuses (`around.public`);
`AcceptedIsServed` excepts that.

`HttpTransport` is one call: hops of redirects, reading under a limit, a download
beside its place, retries, cancellation and the overall deadline. `processed`
counts how often a server carried the request out, whether or not the answer came. A
server that redirects may have carried it out too, and the code sends method and body
again after every redirect, also a 301, 302 or 303: `UnsafeOnce` allows one more for each
redirect that the node follows (none by default).

### ChatHistory

Nodes and chat runs over both repositories; a load that shortens what is stored
reads, trims and overwrites, so another caller fits in between (excused by `raced`:
the code does lose an exchange then). A chat run records its turn and completes in
two transactions; a crash in between makes recovery record it again (excused by
`repeated`).

### HubDownloads, HubCatalog

A download request looks at the directory, asks for the manifest, resets,
describes and starts a job; the job writes file after file and completes the
metadata. Requests may share the directory (excused by `overlap`: the code has no
lock), the hub may move to a new revision, the process may end anywhere. The
catalog reads the token twice and stores last; pages are compared with each other
and with what was downloaded.

### NodeRegistry, Migration, ProviderSettings

Imports write, reload and undo file by file; two ids that differ in case share a
file name. Processes with different heads migrate one database under a file lock
that they may not get in time, inside a transaction a crash undoes. Provider
settings go from the form with masked keys over debounced saves, one at a time, to
the rows, and through profiles; requests of a page that was left, or two pages,
may overlap (`excused`).

### FaissStore, VectorBackends, VectorSearch

`FaissStore` is the directory of one index with the temporary and backup
directories of every client, the file lock, reads without the lock, and processes
killed at any step. Builds, renames (the one that puts the backup back included) and
the removal of a collection may fail; `rmtree` may do so half way. `FailureRestores`
names the two failures that leave another state than the committed one (`NotPutBack`,
`HalfRemoved`). `VectorBackends` gives every backend the calls it makes, in
order, each of which may fail, LanceDB's `create_index` after the commit of the table
included; what a service does with a call is external. It has one write at a time: what
writers of one LanceDB table or one collection do to each other is not modelled (the
names of the LanceDB tables are read before the lock is taken, `lancedb.py:132`).
`VectorSearch` evaluates one filter three times, as the shared definition says, as
the backend's language says and as the program checks again, before and after the
cut to `top_k`. Vectors are ranks, embedding contracts are values. A collection of a service is the
set of its records, and an answer a set of positions, nearest first being the order of
the positions themselves; the points of a caller come in any order (a listing of the
set). The search of LanceDB names no metric: without a vector index a store of another
metric than L2 is ranked by L2, which is `place`, any order of the records. That the
hits are the nearest (`NearestMatches`) is said of searches by the metric of the store
(`RanksByMetric`). An approximate index counts as exact.

What the comments of these modules except from a property is what the code does,
not what the model leaves out: Chroma drops the collection of an overwrite before
it checks the points, Weaviate meets a conflict half way and does not cut its hits
to the limit, Milvus inserts and keeps both records of an id, Pinecone names
fields in a way its service stores differently, a killed FAISS writer leaves
the store in a backup that nothing reads, and LanceDB keeps the rows of a write whose
index could not be built. The conflict policy and the embedding contract are those of
FAISS, LanceDB and Chroma: the other backends look at neither, although the
documentation says so of all (`RejectKeepsAll`).

## 3. Runs

The instances are the smallest ones in which every actor that a property is about
takes part, with room for one more round of what it does.

| Run | What it asks | Instance and why it is enough |
|---|---|---|
| LifecycleReview | one executor, nothing replayed, completed steps final, completion whole, pauses resumable, comes to rest | four steps, two gates in a row (a resumed run pauses again), a resuming client, one exit at any point, a nullable step (skips) and a fallible last step. Four jobs: the first, one for each review, one for the recovery |
| LifecycleCancel | a recorded request stops the steps, the end is announced, nothing replayed, completed steps final, comes to rest | three steps, two cancel requests that race with each other, with the job, with a failure, with shutdown and with one exit. Without gates, see below |
| StreamFeed | serial numbers, no gap, implements EventFeed with its liveness | two publishers; two connections, so that one overflow can disturb the other; queues of one (overflow with the second event); pages of two and three events (a full and a short page, and an empty one) |
| FenceSafe | sessions, operations and jobs keep their database | two starters with a job each, the second of its own or a resume under the first one's id, another request, cancel calls one after the other, two switches by two callers |
| AttemptPolicy | one live attempt, no repeated effect, late results dropped, the step ends | every policy with up to two retries: two zombies beside the current attempt |
| Retrieval | stores survive, writes are exact, backends hold their policies, hits are right | two writers of one index with two ids and two calls, one of them killed; two writes to each of seven backends with calls that fail; every filter of up to one must, two should and one must-not clause over collections of up to two records, one hit asked for, so that a nearer record can push out the match |
| Nodes | plans, tracking, tools, requests, calls; every HTTP call ends | every workflow of four nodes and ten possible connections, one of which may be listed twice as may one node; two runs, two openings of the page, one review, one lost answer; four attempts, two per step, one restart; every provider with one change of its surroundings; two attempts and two redirects |
| Services | jobs, downloads, catalog, chat, registry, schema, settings | three starts under two ids with one ended job kept; two downloads of two files over two revisions and one crash; two pages; two callers of a history of one or three messages; two imports of three ids, two of which share a file; two processes with heads 1 and 2; two providers, two requests, two edits, one fault |

In Nodes and Services the components have no state in common, so their bounds are
chosen one by one; `TypesOK` is their types together, and every other property
names the component it is about.

The other runs each show that a sentence of the documentation or of a comment is
not what the code does (the sentence and the run are in `PROJECT.json` under
`findings`): ConsumeRace (two resumes of one pause, or a resume of a run that was
cancelled meanwhile), CancelPauseRace (a cancelled run that holds a token),
OutputsAfterReview (terminal outputs lost by a pause) and FenceDeadlock (an
operation and a switch that wait for each other).

Some modules end with definitions under the heading "What the documentation says
and the code does not do" that have no run: `ChatOnce` (ExecutionLifecycle: a crash
between the chat exchange and the completion repeats the exchange), `NoLatePublication`
(StepAttempt: a worker between its check and its publication), `ProfileIsSnapshot`
(ProviderSettings: a profile is made from the masked form and holds no keys),
`SupportedMetricBuilds` (VectorBackends: FAISS lists "dot" and cannot build it),
`RejectKeepsAll` (VectorBackends: Qdrant and Pinecone upsert whatever the policy, though
"Insert-style writes reject conflicts", `docs/nodes/processing_and_retrieval.md`) and
`SearchKeepsMetric` (VectorSearch: LanceDB ranks a cosine store without a vector index by
L2 and scores the distance as a cosine one, though unsupported requests are to "fail
closed instead of [...] silently changing search semantics", same page). TLC refutes each
of them on the instance of the run that covers its module. So it does
`NoSwitchUnderWork` (DatabaseFence): a cancellation that read "pending" before
`start_job` wrote "running" marks a job at work cancelled, and `activate` switches the
database under it, although "A switch returns HTTP 409 while a workflow job is active"
(`docs/architecture/persistence.md:43`).

Why cancellation and review are checked apart: together the code reaches the
states of ConsumeRace and CancelPauseRace, from which an
unreadable record or two executors follow; the properties of LifecycleReview and
`RestIsAnnounced` do not hold there. `DoneStaysDone` (`NoReplay` and
`CompletedIsFinal`) holds with either and not with both: a cancellation that commits
between the two halves of `consume_pause_checkpoint` leaves the reviewed step completed
under the job that paused it, which marks it failed, and the resumed job executes it
again.
Each of the two instances has everything else.

`CHECK_DEADLOCK FALSE` is used where the system stops: publishers at their bound
and closed connections (StreamFeed), and the deadlock that FenceDeadlock reports
as a violation of `SwitchEnds` (FenceSafe, FenceDeadlock). In the bundles a
component whose behaviours end (all writes made, all pages opened) has the step
`Stopped`. In the lifecycle and in the attempt a `Rest` step is enabled only when nothing is left to do, so that
TLC's deadlock check means something.

Bounds, all named constants, explained at their declarations: `MaxJobs` and `MaxCrash` (a process that has used up
its exits keeps running), `MaxEvents`, `MaxSwitch`, `MaxRetries`. `late` counts to
two, which is enough for a property that says "at most one". Symmetry is used for
the ids of jobs and the clients of a store, in runs without liveness properties.

Each property of a passing run has a mutant: an operator whose comment starts
with "Mutant:", a plausible slip in the operator after it, under which TLC finds
the property violated. The mutants stand before what they mutate and are used
by nothing else.

### Fairness

* Lifecycle: weak fairness of every thread's own steps and of startup; strong
  fairness of the return of a handler (it may poll again and again in between);
  a process that shuts down exits. Nobody is obliged to cancel, to resume, or to
  crash. Threads are operating system threads and nothing in the code waits for
  another one inside a step, so this is what the scheduler gives.
* Stream: a publication that began is finished, the handlers of open connections
  run; no client has to connect.
* Fence: sessions are closed, operations and switches that began go on; no job
  has to end.
* Attempt: the job thread runs and time passes; nothing is assumed of handlers.
* HTTP: the call's own steps (`WF_all(HttpNext /\ Http!Step)`): every wait for the
  network has a timeout of the client. Servers, clock and cancellation owe nothing.

## 4. Proofs

`tlapm <module>` checks every proof to its leaves. The theorems hold for every
value of the constants that satisfies the named assumption of the module.

**ExecutionLifecycleProofs** (`TypeCorrect`). Types are correct whatever is
cancelled, resumed, stopped or restarted. `TypeOK` is not inductive: `Placed`
says that a job's position is a step of the plan at every label that uses it
(one past the plan only after the loop), `Named` that whoever holds a token
holds the gate it belongs to, `Spawned` that a job is off and at the first step
until it is started. One lemma per action; `MoveTyped` reduces each to the place
where the thread arrives.

**ExecutionLifecycleProofs**, second part (`CancelledRunStops`,
`CancelledRunIsAnnounced`): the properties of `LifecycleCancel` for every plan without
review gates (`NoGates`; with gates `RestIsAnnounced` does not hold), any number of cancel calls
that race with each other, with the job, with failures, shutdown, exits and
recoveries. `LastAlone`: only the job started last is alive, and none while the process
is down. `Halts`: once a handler has begun although a request was on record, no job
stands between a read of the flag and the start of a handler, and the flag stays; so
none begins again. `Heard`: the terminal status is in the history, or the thread that
wrote it is at the publication of its event. `Heard` is not "whoever writes publishes":
a cancel call may overwrite a status another thread is about to announce, and the
announcement owed is then that of the new status.

**ReviewedRunProofs** (`ReviewedOneExecutor`, `ReviewedPausedIsResumable`,
`ReviewedCompletedIsWhole`, `ReviewedDoneStaysDone`). The
safety properties of `LifecycleReview`, for every plan, set of gates, number of
jobs and number of exits, under the assumption `Review`: no cancel calls and at
most one resuming client. The assumption is needed: `ConsumeRace` and
`CancelPauseRace` show the races that the code has
without it. `Safe` is the inductive part. `Sound`: what a busy job relies on at
its label (the steps before its position are done, its step is running while a
handler executes, a step about to start has not succeeded, the run's status fits
the label). `Exclusive`: while a job is busy there is no other, no resume call
and no recovery. `Agrees`: status, token, gate and paused step agree.
`Accounted`: a running step belongs to a busy job, or the run has ended, or the
process is down and recovery will find it. `Kept`: a step whose handler returned
is completed, paused or running. `NoReplay` needs `Accounted` beside `Kept`: a
result lost between the handler's return and its commit leaves the step running,
and only `Accounted` says that a job cannot then find it so. A step of a busy job
is proved by looking at that job alone (`BusyStep`).

**EventStreamProofs** (`TypeCorrect`, `NumbersAreSerial`, `ClientSeesNoGap`,
`StreamRefinesFeed`). The invariant `IInv` follows the next event each queue
will hold. `Locked` and `Numbered`: only the holder of the lock is inside
`publish`, with a free number before and the last number after the insertion.
`Handed(c)` is the last event put on the queue of `c`: `last`, or `last - 1` while
the publisher still has to serve it. `Consecutive`: the queue of an open
connection holds consecutive events, the last one `Handed(c)` unless it
overflowed. `Joined`: the first event of the queue, or the next one it will get,
is at most one past what the client has when the replay has ended, or one past
the page when the page is short. `Joined` alone is not inductive: when the last
event of a queue is taken, only `Consecutive` says that it was the last one
handed over; and `Unserved` and `Fresh` say that an overflowed or unopened queue
is not served. The refinement proof maps every step to a step of `EventFeed`
or a stutter; its liveness is model-checked.

**DatabaseFenceProofs** (`CountIsExact`, `NoRetiredEngineInUse`,
`OperationIsFenced`, `JobsKeepTheirDatabase`). `Counted`: the counter is the
number of operations plus sessions, by cardinality of finite sets. `Inside` ties
program counters to membership, `OneSwitch` says one caller switches and exactly
while `switching`, `Alone` that from the moment it has drained there is no
session, no operation and no job at work but unseen ones. For that `AtWork` ties the
status of a job to its thread: a job at work has been started, and is running or was
cancelled late.

**StepAttemptProofs** (`TypeCorrect`, `OnlyCurrentAttemptLives`,
`EffectsHappenOnce`, `ExpiredResultsAreDropped`). `Begun`: attempts past the
current one have not begun. `Live`: the live attempts are the current one at the
labels where it can be. `Single`: a side-effecting step without a contract has
one attempt.

**NodesProofs** (`EveryCallIsSafe`, `ToolsAlwaysFollowTheRun`, `EditorIsAlwaysTrue`,
`PlansAreAlwaysSound`, `RequestsAreAlwaysServed`, `NodesAreTyped`). Each component has an
invariant with the types and:

* HTTP calls (`HttpInv`), for any number of attempts, redirects and bytes: before the
  answer of an attempt no partial download is there and every request carried out belongs
  to an earlier attempt or to a redirect (`HttpFresh`), and a wait between attempts is of a request that
  may be repeated, with attempts left (`HttpMayRetry`): without it one more request would
  break the promise about unsafe ones.
* Tools (`ToolInv`), for any number of attempts, repeated calls and restarts: where the
  executor is in its plan (`ToolPlaced`), that only a cancellation ends a run that has an
  executor (`ToolEnded`), and that what a step stored stays, and whoever calls a tool has
  a handle to it, unless the run was cancelled or has ended or a restart emptied the
  registry (`ToolKept`).
* Editor (`EditorInv`), for any number of runs, reviews, pages and lost answers: the page
  is running exactly while one flow of it is under way, and holds what that flow needs
  (`Following`); a flow knows its run once the server has started it, and an end that it
  has read is one (`FlowAt`); a page that is to follow its run again, or shows a review,
  is at rest (`PageAt`); a page waits for its own request, and one that was at rest stays
  so, with the run that the request is about (`AskAt`); a review that is shown waits on
  the server, or the page's own request has settled it (`ReviewAt`). `OneRunAtATime`
  follows from `NoRunForgotten`: whatever is live is the one run that is tracked.
* Compiler (`PlanInv`), for any finite set of nodes, manifests and connections. `OrderAt`
  is the invariant of Kahn's loop: the indegree of a node counts its sources outside the
  order, and the nodes without any are in the order or in the queue, each once. When the
  queue is empty and nodes are left, each of them has a source that is left
  (`LeftoverHasCycle`: of those nodes, one that reaches the fewest others lies on a
  cycle); the other way round, in an order of all nodes no node comes before its source. An
  order has an id once, so that an id listed twice alone makes it too short.
  `Closure`, the reference, is shown to be closed under the connections and the least
  such set (`ClosureIsClosed`, `ClosureIsLeast`). `WalkAt` says of the search for the
  terminal of a chat that the targets of what was reached are reached or in the frontier,
  `AnswersAt` that the chats searched so far have their one output, `StepsAt` that the
  plan follows the order, and `ErrorsAt` that what is wrong with the definition is among
  the errors.
* Requests to models (`ModelInv`), for any number of changes around them: what stands
  between validation and call is accepted as long as nothing changed. That Gemini's and
  Claude's pass over the messages takes the system messages apart and keeps every other
  one in its order (`ApartIsWhole`) is an induction over the message.

That node ids are finitely many numbers, in the order of the definition, is
`NodeAssumption` of PlanCompiler; that the bounds of the editor and of the requests are
numbers is `EditorAssumption` and `ChangesAssumption` of MCNodes. The library's induction
theorems take an operator as parameter, which the provers cannot instantiate. Where an
induction over numbers is needed, `NumbersFollow` serves: a set of numbers that has zero
and every successor of its members is the set of all numbers. A recursive function is
shown to exist by a witness and to have its values by that lemma.

**ServicesProofs** (`JobsAlwaysReachable`, `HistoryIsAlwaysKept`,
`StoredIsAlwaysServed`, `HubIsAlwaysTrue`, `EndsAlwaysStay`, `ServicesAreTyped`). Each
component has an invariant with the types its steps rely on, and:

* Jobs (`JobInv`), for any number of ids, starts and retained entries: one working job
  per id (`JobAlone`), whose entry is there from its registration until its runner
  leaves (`JobFound`, which pruning must keep: it drops ended entries only); a job that was
  told to stop is not on its way to another end (`JobTold`); a runner at work has not
  ended, and a shutdown finds every caller back (`JobLate`). For the ends (`OverInv`):
  the ended jobs are in an order (`EndsOrdered`), so that no two of those that pruning
  keeps have equally many later ends, which bounds their number (`RetainedAreFew`); and
  a job that is over before its thread says so was cancelled while it was pending
  (`JobsOver`), the one case in which a thread still has to find out.
* Downloads (`DownloadInv`), for any files, revisions and ends of the process: a
  download that was told to stop before its last look at the request is not on its way
  to completion (`Heeds`); and while no two downloads share the directory, one is active
  at most, the files before the one it is at are of its revision (`Progress`), and what
  counts as complete is of one revision (`Whole`). That a repository has a file and a
  revision (`HubAssumption`) is what the code checks before it starts
  (`huggingface_downloads.py:234`).
* Catalog (`CatalogInv`), for any queries, tokens and filters: where a query stands
  between its reads of the token and of the cache, what it fetched is of the token it
  read (`QueryAt`), and as long as no token changed between the two reads of a query
  every page of the cache is of the token of its key. `PagesInv`, for any rows and page
  sizes: every answer, in the cache or on its way there, is the page of its request and
  its token. The rows that are listed have the places 1 to n, each one row
  (`PlacesCount`: the place of a row is the number of listed rows up to it), so that the
  pages of one listing are disjoint and a page that promises another leaves a row for it.
  That the numbers are numbers and a page has a row is `CatalogAssumption`
  (`huggingface_catalog.py:68` makes the size one at least).
* Chat history (`ChatInv`), for any limits and number of callers: what is stored is the
  newest end of everything recorded (`ChatKept`, with lemmas about `SubSeq` and `\o`);
  what a load has read is still stored when it shortens it, unless another caller came
  in between (`ChatFresh`); a turn is completed, recorded or not there, and once only
  when recovery did not repeat it (`ChatEntries`).
* Migration (`SchemaInv`), for any number of processes and revisions: the file was
  never of one revision with the tables of a later one (`FileIsOld`), and whoever
  migrates holds the lock and is between the revision of the file and its own head
  (`SchemaAt`); what it has built beside the file is the file or a newer whole revision
  (`Grown`), so that only such a schema replaces it.
* Node registry (`RegistryInv`), for any manifests and file names: an import whose file
  is its own finds it as it left it, from its write to its undo (`ImporterAt`); as long
  as imports do not overlap, what one has read is what is on the disk, and memory and
  disk agree while none is at work (`OneByOne`).
* Provider settings (`SettingsInv`), for any number of edits, profiles and requests,
  while requests do not overlap: a field that was touched holds what the user wants and
  another what is stored (`FormAt`), the newest save of a page carries its last form
  (`Awaited`), a save that nobody waits for stores what the user wanted by itself or by
  the one after it (`Loose`, `LastOf`), and what the server has resolved of the masked
  keys is resolved against the rows still there (`Served`).

**RetrievalProofs** (`StoreAlwaysSurvives`, `WritesAreAlwaysExact`,
`BackendsAlwaysHold`, `RetrievalIsTyped`), for any clients, record ids, contracts,
calls and killed processes. `FilesInv` says where the committed store of a FAISS
directory stands at each step of a replacement (`StandsIn`, `PlacedAt`), and what the
directory that a writer is about to install has to do with it (`AppendsAt`,
`DeletesAt`): the promises speak of the moment of the installation, but what is
installed was computed steps earlier, under the lock. `Moves` is what a step of a
client may do to what another client relies on; `MoveKeeps` shows that this keeps the
invariant, and each action is such a move. `WritesInv` is needed because the policies
of a backend speak of the end of a write: the calls left are the last of those the
write began with (`LastOf`), and `Reached` is what the calls behind it have made of
the collection, for each backend and mode. `SearchInv` says that what is answered was accepted by the backend and is
what its search makes of the request; `FirstAre` and `LanceDbAnswered` treat the ranks of
LanceDB, which are the order of the records only when the search ranks by their metric. What the n nearest of a set of positions are
rests on lemmas about finite sets; that a set of positions has a farthest one is shown
by a least counterexample, for the library's induction is out of reach. The
assumptions are those MCRetrieval names: nobody is not a client, the record ids are
finitely many, no contract is the empty one, and the bounds are numbers.

What these invariants leave open of the types is added for `ServicesAreTyped`: a
directory that is not there holds nothing and nobody has a file of it open
(`DownloadRest`), a load shortens only what is longer than its limit (`ChatRest`), the
lock is of a process (`LockTyped`). The settings need an invariant of their own, for
`SettingsInv` speaks of undisturbed pages only: whatever overlaps, the page waits for one
request at most, which is a save exactly while the page saves and then is of no later
revision than the page, or an operation on a profile of a page with nothing to save
(`SettingsTyped`, `OnPage`); and a save gives its rows ids above all it keeps, so that no
two rows share an id or a provider (`WrittenAreTyped`, `RanksAreApart`). That a bounded
set of numbers has a greatest one, above which the ids begin, is shown by the least of
its bounds (`GreatestIsThere`).

Model-checked only: all liveness (`ComesToRest`, the fairness part of
`ImplementsFeed`, `StepEnds`, `CallEnds`), which the prover cannot do. Every invariant of
the passing runs is a theorem; `DoneStaysDone` is one of runs with reviews, and with
cancellations it is model-checked only.

## 5. Not modelled, and the plan

Modelled first: the run's lifecycle, the stream, the fence and the attempt, which
are the core of the engine and hold most of its hazards. Then the services and the
nodes around it. Next, in this order:

1. Recovery over several runs (one unreadable record must not keep the others from
   being recovered, `app.py:58`), and cancellation beside a database switch
   (`execution.py:329`): a composition of lifecycle and fence.
2. Nested scopes of a definition in the compiler.
3. Several writers of a LanceDB table (`lancedb.py:132`).

Not modelled:

* What plugins and the handlers of files, parsing, transformation and data nodes
  compute: they are the environment of the lifecycle, where each may return,
  return nothing, pause, poll or raise. Their manifests (`src/data/nodes`) are taken as
  examples of what a manifest can say, not one by one: MCNodes has four kinds of node.
* Redaction of stored outputs (`execution.py:372`): a property of data the models
  abstract.
* Rendering and editing in the browser, packaging, the launcher, parsing of
  start-up configuration: no state shared between actors.
* The services behind the adapters (vector databases, model providers, the hub):
  modelled as far as the code uses them, and marked external in `PROJECT.json`.
