----------------------------- MODULE RunRecord -----------------------------
(***************************************************************************)
(* The durable record of one workflow run: the execution_runs row and the  *)
(* execution_steps rows that belong to it, with one operator for every     *)
(* write that ExecutionRunRepository makes to them.                        *)
(*                                                                         *)
(* A record d has the fields                                               *)
(*   status     the run's status                                           *)
(*   cancelReq  cancellation_requested                                     *)
(*   token      the one-time resume token, NoToken when there is none      *)
(*   gate       the step named by the pause checkpoint, NoStep when none   *)
(*   outputs    the terminal steps whose result outputs_json holds         *)
(*   step       the status of every step                                   *)
(*   value      the steps whose persisted output carries a value other     *)
(*              than None                                                  *)
(* A step is its position in plan.step_order; a token is the number of the *)
(* job that issued it (a job pauses the run at most once).                 *)
(***************************************************************************)
EXTENDS Naturals

CONSTANT N                \* the number of steps of the plan

ASSUME NAssumption == N \in Nat \ {0}

Step       == 1..N
NoStep     == 0
NoToken    == 0
RunStatus  == {"queued", "running", "completed", "failed", "cancelled", "paused"}
Terminal   == {"completed", "failed", "cancelled"}
StepStatus == {"queued", "running", "completed", "failed", "paused", "skipped"}

RecordType(Token) ==
    [status: RunStatus, cancelReq: BOOLEAN, token: Token \cup {NoToken},
     gate: Step \cup {NoStep}, outputs: SUBSET Step,
     step: [Step -> StepStatus], value: SUBSET Step]

\* What _initialize_run creates.
NewRecord ==
    [status |-> "queued", cancelReq |-> FALSE, token |-> NoToken, gate |-> NoStep,
     outputs |-> {}, step |-> [s \in Step |-> "queued"], value |-> {}]

\* _state_from_records rejects a row whose status and checkpoint disagree:
\* every get_run of such a row raises.
Readable(d) == (d.status = "paused") <=> (d.token # NoToken)

SetStatus(d, status) == [d EXCEPT !.status = status]

SetStep(d, s, status) == [d EXCEPT !.step[s] = status]

CompleteStep(d, s, hasValue) ==
    [d EXCEPT !.step[s] = "completed",
              !.value = IF hasValue THEN @ \cup {s} ELSE @ \ {s}]

Complete(d, outputs) == [d EXCEPT !.status = "completed", !.outputs = outputs]

\* Mutant: the row of the step keeps its status.
PauseAtRunOnly(d, s, token) == [d EXCEPT !.status = "paused", !.token = token, !.gate = s]

PauseAt(d, s, token) ==
    [d EXCEPT !.status = "paused", !.token = token, !.gate = s, !.step[s] = "paused"]

\* Mutant: the checkpoint survives its consumption.
ConsumeReusable(d, s, clearsFlag) ==
    [CompleteStep(d, s, TRUE) EXCEPT !.cancelReq = @ /\ ~clearsFlag]

\* consume_pause_checkpoint, as it is flushed: only attributes whose value
\* differs from the loaded one are written, so the cancellation flag is
\* cleared only when it was loaded as set.
Consume(d, s, clearsFlag) ==
    [d EXCEPT !.status = "queued", !.token = NoToken, !.gate = NoStep,
              !.cancelReq = @ /\ ~clearsFlag,
              !.step[s] = "completed", !.value = @ \cup {s}]

\* What update_run(status="cancelled") decides from the row it loads: whether
\* the status changes, and whether there is a checkpoint to clear.
CancelPlan(d) == [writes |-> d.status # "cancelled", clears |-> d.token # NoToken]

\* ... and what it then writes.  The UPDATE of the steps selects the paused ones
\* when it executes.
DropCheckpoint(d) ==
    [d EXCEPT !.token = NoToken, !.gate = NoStep,
              !.step = [s \in Step |-> IF @[s] = "paused" THEN "skipped" ELSE @[s]]]

Cancel(d, plan) ==
    LET e == IF plan.writes THEN SetStatus(d, "cancelled") ELSE d
    IN  IF plan.clears THEN DropCheckpoint(e) ELSE e

\* update_run(cancellation_requested=True); on a cancelled row that still
\* carries a token the same call drops the checkpoint.
RequestCancel(d) ==
    LET e == [d EXCEPT !.cancelReq = TRUE]
    IN  IF d.status = "cancelled" /\ d.token # NoToken THEN DropCheckpoint(e) ELSE e
=============================================================================
