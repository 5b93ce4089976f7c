------------------------------ MODULE ToolScope ------------------------------
(***************************************************************************)
(* The callable tools of a run: node_handlers/core/tools.py keeps what a   *)
(* Python tool collection defines in a registry of the process, under the  *)
(* id of the run, and a tool call of a later step looks its function up    *)
(* there.  The engine releases the tools of a run when the run ends, not   *)
(* when it pauses; an attempt that timed out goes on and may store its     *)
(* collection afterwards; a restart forgets every collection and keeps the *)
(* step outputs that name them.                                            *)
(***************************************************************************)
EXTENDS Naturals, Sequences, FiniteSets

CONSTANTS
    MaxAttempts,   \* attempts of the steps of the run, retries and repeats included
    Tries,         \* attempts of one step
    MaxRestarts

VARIABLES
    plan,          \* the steps of the run
    run,           \* its record: status, steps completed, cancellation_requested
    executor,      \* the job thread: where it is and the attempts of its step
    canceller,     \* cancel(): the status it read
    attempt,       \* the worker of every attempt
    collections,   \* _RUNTIME_TOOL_COLLECTIONS of the run, by the attempt that stored it
    handle,        \* the collection the completed collection step names
    restarts,
    late,          \* history: collections stored when the run had ended
    forgotten      \* history: a restart forgot the collection of the handle

vars == <<plan, run, executor, canceller, attempt, collections, handle, restarts, late, forgotten>>

Plan    == {<<"collect", "call">>, <<"collect", "review", "call">>}
Attempt == 1..MaxAttempts
Ended   == {"completed", "failed", "cancelled"}
None    == 0

TypeOK ==
    /\ plan \in Plan
    /\ run \in [status : {"running", "paused"} \cup Ended, done : 0..Len(plan), cancel : BOOLEAN]
    /\ executor \in [pc : {"off", "ready", "go", "wait", "raised", "failing"}, tries : 0..Tries]
    /\ canceller \in {"off", "running", "paused"}
    /\ \A a \in DOMAIN attempt :
         attempt[a] \in [step : {"collect", "review", "call"},
                         pc : {"running", "stored", "done", "error", "unavailable", "dead"}]
    /\ Len(attempt) <= MaxAttempts
    /\ collections \subseteq DOMAIN attempt /\ handle \in {None} \cup DOMAIN attempt
    /\ restarts \in 0..MaxRestarts /\ late \subseteq DOMAIN attempt /\ forgotten \in BOOLEAN

Init ==
    /\ plan \in Plan
    /\ run = [status |-> "running", done |-> 0, cancel |-> FALSE]
    /\ executor = [pc |-> "ready", tries |-> 0]
    /\ canceller = "off" /\ attempt = <<>>
    /\ collections = {} /\ handle = None
    /\ restarts = 0 /\ late = {} /\ forgotten = FALSE

\* release_run_tool_resources
Release == collections' = {}

-----------------------------------------------------------------------------
(* The executor *)

\* _cancelled on behalf of a run: the record says so and the tools go.
MarkCancelled ==
    IF run.status \in Ended THEN UNCHANGED <<run, collections>>
    ELSE run' = [run EXCEPT !.status = "cancelled"] /\ Release

Check(from, to) ==
    /\ executor.pc = from
    /\ IF run.cancel
       THEN executor' = [executor EXCEPT !.pc = "off"] /\ MarkCancelled
       ELSE executor' = [executor EXCEPT !.pc = to] /\ UNCHANGED <<run, collections>>
    /\ UNCHANGED <<plan, canceller, attempt, handle, restarts, late, forgotten>>

CheckStep  == Check("ready", "go")
CheckRaise == Check("raised", "failing")

Current == attempt[Len(attempt)]

StartAttempt ==
    /\ executor.pc = "go" /\ run.done < Len(plan) /\ Len(attempt) < MaxAttempts
    /\ attempt' = Append(attempt, [step |-> plan[run.done + 1], pc |-> "running"])
    /\ executor' = [pc |-> "wait", tries |-> executor.tries + 1]
    /\ UNCHANGED <<plan, run, canceller, collections, handle, restarts, late, forgotten>>

\* Mutant: a pause releases the tools as an end does.
TakePauseReleasing ==
    /\ executor.pc = "wait" /\ Current.pc = "done" /\ Current.step = "review"
    /\ run' = [run EXCEPT !.status = "paused"]
    /\ executor' = [executor EXCEPT !.pc = "off"]
    /\ Release
    /\ UNCHANGED <<plan, canceller, attempt, handle, restarts, late, forgotten>>

\* A review pauses the run; its tools stay.
TakePause ==
    /\ executor.pc = "wait" /\ Current.pc = "done" /\ Current.step = "review"
    /\ run' = [run EXCEPT !.status = "paused"]
    /\ executor' = [executor EXCEPT !.pc = "off"]
    /\ UNCHANGED <<plan, canceller, attempt, collections, handle, restarts, late, forgotten>>

TakeResult ==
    /\ executor.pc = "wait" /\ Current.pc = "done" /\ Current.step # "review"
    /\ run' = [run EXCEPT !.done = @ + 1]
    /\ handle' = IF Current.step = "collect" THEN Len(attempt) ELSE handle
    /\ executor' = [pc |-> "ready", tries |-> 0]
    /\ UNCHANGED <<plan, canceller, attempt, collections, restarts, late, forgotten>>

\* The attempt raised, or its time is up while it goes on.
TakeFailure ==
    /\ executor.pc = "wait" /\ Current.pc # "done"
    /\ executor' = [executor EXCEPT !.pc = IF run.cancel \/ executor.tries = Tries THEN "raised" ELSE "go"]
    /\ UNCHANGED <<plan, run, canceller, attempt, collections, handle, restarts, late, forgotten>>

\* _fail_step, and the end of a run without further steps, which fails when its chat
\* history cannot be written.
End ==
    /\ \/ executor.pc = "failing" /\ run' = [run EXCEPT !.status = "failed"]
       \/ /\ executor.pc = "go" /\ run.done = Len(plan)
          /\ \E status \in {"completed", "failed"} : run' = [run EXCEPT !.status = status]
    /\ Release
    /\ executor' = [executor EXCEPT !.pc = "off"]
    /\ UNCHANGED <<plan, canceller, attempt, handle, restarts, late, forgotten>>

-----------------------------------------------------------------------------
(* The worker of an attempt *)

Become(a, pc) == attempt' = [attempt EXCEPT ![a].pc = pc]
WorkerOnly    == UNCHANGED <<plan, run, executor, canceller, handle, restarts, forgotten>>

\* _tool_collection_executor stores what it parsed, whatever became of the run ...
StoreCollection(a) ==
    /\ attempt[a].pc = "running" /\ attempt[a].step = "collect"
    /\ collections' = collections \cup {a}
    /\ late' = IF run.status \in Ended THEN late \cup {a} ELSE late
    /\ Become(a, "stored") /\ WorkerOnly

\* ... and returns the handle.
ReturnHandle(a) ==
    /\ attempt[a].pc = "stored" /\ Become(a, "done")
    /\ WorkerOnly /\ UNCHANGED <<collections, late>>

\* _execute_selected_tool looks the function up in the registry.
CallTool(a) ==
    /\ attempt[a].pc = "running" /\ attempt[a].step = "call"
    /\ Become(a, IF handle \in collections THEN "done" ELSE "unavailable")
    /\ WorkerOnly /\ UNCHANGED <<collections, late>>

Review(a) ==
    /\ attempt[a].pc = "running" /\ attempt[a].step = "review" /\ Become(a, "done")
    /\ WorkerOnly /\ UNCHANGED <<collections, late>>

Raise(a) ==
    /\ attempt[a].pc = "running" /\ Become(a, "error")
    /\ WorkerOnly /\ UNCHANGED <<collections, late>>

Work(a) == StoreCollection(a) \/ ReturnHandle(a) \/ CallTool(a) \/ Review(a) \/ Raise(a)

-----------------------------------------------------------------------------
(* Requests and restarts *)

Resume ==
    /\ run.status = "paused"
    /\ run' = [run EXCEPT !.status = "running", !.done = @ + 1]
    /\ executor' = [pc |-> "ready", tries |-> 0]
    /\ UNCHANGED <<plan, canceller, attempt, collections, handle, restarts, late, forgotten>>

\* cancel(): the request is recorded ...
RequestCancel ==
    /\ run.status \notin Ended /\ canceller = "off" /\ ~run.cancel
    /\ canceller' = run.status
    /\ run' = [run EXCEPT !.cancel = TRUE]
    /\ UNCHANGED <<plan, executor, attempt, collections, handle, restarts, late, forgotten>>

\* ... and carried out here when the run has no executor: it was paused, or its job
\* has ended by now.
FinishCancel ==
    /\ canceller # "off"
    /\ canceller' = "off"
    /\ \/ (canceller = "paused" \/ executor.pc = "off") /\ MarkCancelled
       \/ canceller = "running" /\ UNCHANGED <<run, collections>>
    /\ UNCHANGED <<plan, executor, attempt, handle, restarts, late, forgotten>>

\* The process ends and recover_interrupted of the next one takes the run over, unless a
\* step was under way.
Restart ==
    /\ restarts < MaxRestarts /\ restarts' = restarts + 1
    /\ attempt' = [a \in DOMAIN attempt |-> [attempt[a] EXCEPT !.pc = "dead"]]
    /\ collections' = {} /\ canceller' = "off"
    /\ forgotten' = (handle # None)
    /\ LET interrupted == \/ executor.pc \in {"wait", "raised", "failing"}
                          \/ executor.pc = "go" /\ executor.tries > 0
       IN  CASE run.status # "running" ->
                  run' = run /\ executor' = [pc |-> "off", tries |-> 0]
             [] run.status = "running" /\ interrupted ->
                  run' = [run EXCEPT !.status = "failed"] /\ executor' = [pc |-> "off", tries |-> 0]
             [] OTHER ->
                  run' = run /\ executor' = [pc |-> "ready", tries |-> 0]
    /\ UNCHANGED <<plan, handle, late>>

Next ==
    \/ CheckStep \/ CheckRaise \/ StartAttempt \/ TakePause \/ TakeResult \/ TakeFailure \/ End
    \/ \E a \in DOMAIN attempt : Work(a)
    \/ Resume \/ RequestCancel \/ FinishCancel \/ Restart

Spec == Init /\ [][Next]_vars

-----------------------------------------------------------------------------
\* A tool call finds the function its collection step defined, across retries and
\* pauses: only the cancellation of the run, its end or a restart takes it away.
CallsFindTheirTools ==
    \A a \in DOMAIN attempt :
        attempt[a].pc = "unavailable" => run.cancel \/ forgotten \/ run.status \in Ended

\* The registry of the process does not grow with the runs: an ended run leaves no
\* collection, except one that an attempt stored when the run had ended already.
NoCollectionLeft == run.status \in Ended => collections \subseteq late

ToolsFollowTheRun == CallsFindTheirTools /\ NoCollectionLeft
=============================================================================
