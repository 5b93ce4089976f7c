------------------------- MODULE ReviewedRunProofs -------------------------
(***************************************************************************)
(* Safety of ExecutionLifecycle for a run that one client reviews and      *)
(* nobody cancels, whatever its plan, its gates, its failures and the      *)
(* exits of the process.  With concurrent reviewers or with cancel calls   *)
(* the code has the races that the runs ConsumeRace and CancelPauseRace    *)
(* show, so the assumption Review is needed.                               *)
(*                                                                         *)
(* While a job is busy nothing else acts on the run: no other job is busy, *)
(* no resume call is under way and the record holds no checkpoint.  The    *)
(* proof of a step of a busy job is therefore about that job only          *)
(* (BusyStep), and the steps of resume calls and of the process are taken  *)
(* when no job is busy.                                                    *)
(***************************************************************************)
EXTENDS ExecutionLifecycleProofs

\* One client reviews the run, and nobody cancels it.
Review == Canceller = {} /\ \A q, r \in Resumer : q = r

Quiet == \A j \in Job : pc[j] \notin Busy

\* A job at label l in context c is between _start_step of its step and the
\* commit of what came of it.
Executing(l, c) ==
    \/ l \in {"exec", "complete", "pause", "failStep"}
    \/ l \in CheckLabel /\ c \in {"poll", "except"}

\* The run's status while a job is at l in c; a handler that polled may have
\* cancelled the run before its exception is handled.
StatusFits(status, l, c) ==
    /\ l = "pubCompleted" => status = "completed"
    /\ l = "pubFailed" => status = "failed"
    /\ l = "cancelPub" => status = "cancelled"
    /\ l \notin {"pubCompleted", "pubFailed", "cancelPub"} =>
          \/ status \in {"queued", "running"}
          \/ /\ status = "cancelled"
             /\ l \in {"failStep", "failRun"} \/ (l \in CheckLabel /\ c = "except")

\* What holds of a busy job at l in c with the local variables m, when the record
\* is d and the handlers of the steps in done have returned.
SoundAt(d, done, l, c, m) ==
    /\ \A s \in Step : s < m.pos => d.step[s] \in {"completed", "skipped"}
    /\ l \in {"chat", "finish"} \/ (l \in CheckLabel /\ c = "end") => m.pos = N + 1
    /\ StatusFits(d.status, l, c)
    /\ l = "checkStop" => m.snap = d.status
    /\ l = "cancelCommit" => ~m.plan.clears /\ (m.plan.writes \/ d.status = "cancelled")
    /\ Executing(l, c) => d.step[m.pos] = "running"
    /\ l \in {"skip", "start"} => d.step[m.pos] # "completed"
    /\ l \in {"skip", "start"} \/ (Executing(l, c) /\ l \notin {"complete", "pause"})
          => m.pos \notin done

Sound == \A j \in Job : pc[j] \in Busy => SoundAt(db, succeeded, pc[j], ctx[j], me[j])

\* The checkpoint and the paused step agree, and the status with both.
Agrees(d) ==
    /\ Readable(d)
    /\ \A s \in Step : d.step[s] = "paused" <=> d.token # NoToken /\ s = d.gate

\* When no job may be busy.
Exclusive ==
    /\ OneExecutor
    /\ server \in {"down", "recovering"} => Quiet
    /\ server = "recovering" => db.status = "queued"
    /\ \A r \in Resumer :
          /\ pc[r] # "idle" => server = "up"
          /\ pc[r] \in {"consumeLoad", "consumeCommit"} => db.status = "paused"
          /\ pc[r] = "consumeCommit" => me[r].seen.gate = db.gate
          /\ pc[r] \in {"pubResumed", "startJob"} => db.status = "queued" /\ Quiet

\* A running step is the one a job is in, or the ambiguous one that an exit or a
\* cancellation left behind.
Accounted ==
    \A s \in Step : db.step[s] = "running" =>
        \/ \E j \in Job : Executing(pc[j], ctx[j]) /\ me[j].pos = s
        \/ /\ Quiet
           /\ db.status \in Terminal \/ (server = "down" /\ Recoverable)

\* A step whose handler returned is not to be executed again.
Kept(d, done) == \A s \in done : d.step[s] \in {"completed", "paused", "running"}

Whole(d) ==
    d.status = "completed" => \A s \in Step : d.step[s] \in {"completed", "skipped"}

Safe ==
    /\ Agrees(db) /\ Exclusive /\ Accounted /\ Kept(db, succeeded) /\ Whole(db) /\ Sound

IInv == Typed /\ Spawned /\ Safe

\* What every step keeps.
Keeps == \A s \in Step : db.step[s] = "completed" => db'.step[s] = "completed"

-----------------------------------------------------------------------------
(* What a busy job may rely on, and what its step must keep *)

LEMMA ExecutingIsBusy == \A l, c : Executing(l, c) => l \in Busy
    BY DEF Executing, Busy, CheckLabel, JobLabel

LEMMA BusyFacts ==
    ASSUME IInv, NEW j \in Job, pc[j] \in Busy
    PROVE  /\ SoundAt(db, succeeded, pc[j], ctx[j], me[j])
           /\ db.token = NoToken /\ db.status # "paused"
           /\ \A s \in Step : db.step[s] # "paused"
           /\ \A s \in Step : db.step[s] = "running" =>
                 Executing(pc[j], ctx[j]) /\ me[j].pos = s
           /\ \A i \in Job \ {j} : pc[i] \notin Busy
           /\ \A r \in Resumer : pc[r] = "idle"
           /\ server \notin {"down", "recovering"}
           /\ db \in RecordType(Job) /\ succeeded \subseteq Step /\ Readable(db)
           /\ \A s \in Step : db.step[s] \in StepStatus
<1>1. SoundAt(db, succeeded, pc[j], ctx[j], me[j])
    BY DEF IInv, Safe, Sound
<1>2. db.status # "paused"
    BY <1>1 DEF SoundAt, StatusFits
<1>3. db.token = NoToken /\ Readable(db)
    BY <1>2 DEF IInv, Safe, Agrees, Readable
<1>4. \A s \in Step : db.step[s] # "paused"
    BY <1>3 DEF IInv, Safe, Agrees
<1>5. \A i \in Job \ {j} : pc[i] \notin Busy
    BY DEF IInv, Safe, Exclusive, OneExecutor
<1>6. ~Quiet
    BY DEF Quiet
<1>7. \A s \in Step : db.step[s] = "running" => Executing(pc[j], ctx[j]) /\ me[j].pos = s
    BY <1>5, <1>6, ExecutingIsBusy DEF IInv, Safe, Accounted
<1>8. server \notin {"down", "recovering"}
    BY <1>6 DEF IInv, Safe, Exclusive
<1>9. \A r \in Resumer : pc[r] = "idle"
  <2>1. \A r \in Resumer : pc[r] \in ResumeLabel
      BY ResumerFacts DEF IInv, ThreadsOK
  <2>2. \A r \in Resumer :
          pc[r] \notin {"consumeLoad", "consumeCommit", "pubResumed", "startJob"}
      BY <1>2, <1>6 DEF IInv, Safe, Exclusive
  <2> QED BY <2>1, <2>2 DEF ResumeLabel
<1>10. db \in RecordType(Job) /\ succeeded \subseteq Step
    BY JobFacts DEF IInv, DataOK
<1>11. \A s \in Step : db.step[s] \in StepStatus
    BY <1>10 DEF RecordType
<1> QED BY <1>1, <1>2, <1>3, <1>4, <1>5, <1>7, <1>8, <1>9, <1>10, <1>11

\* A step of the busy job j, to l in c with the local variables m.
LEMMA BusyStep ==
    ASSUME IInv, NEW j \in Job, pc[j] \in Busy, server' = server,
           NEW l, NEW c, NEW m, Moves(j, l, c, m),
           Agrees(db'), Whole(db'), Kept(db', succeeded'),
           l \in Busy => SoundAt(db', succeeded', l, c, m),
           \A s \in Step : db'.step[s] = "running" =>
               IF l \in Busy THEN Executing(l, c) /\ m.pos = s ELSE db'.status \in Terminal
    PROVE  Safe'
<1>1. /\ pc'[j] = l /\ ctx'[j] = c /\ me'[j] = m /\ j \in Thread
      /\ \A i \in Job \ {j} : pc'[i] = pc[i]
      /\ \A r \in Resumer : pc'[r] = pc[r]
    BY ThreadKinds DEF Moves
<1>2. /\ \A i \in Job \ {j} : pc'[i] \notin Busy
      /\ \A r \in Resumer : pc'[r] = "idle"
      /\ server' \notin {"down", "recovering"}
    BY <1>1, BusyFacts
<1>3. Exclusive'
    BY <1>1, <1>2 DEF Exclusive, OneExecutor
<1>4. Sound'
    BY <1>1, <1>2 DEF Sound
<1>5. Accounted'
  <2>1. CASE l \in Busy
      BY <1>1, <2>1 DEF Accounted
  <2>2. CASE l \notin Busy
    <3>1. Quiet'
        BY <1>1, <1>2, <2>2 DEF Quiet
    <3> QED BY <2>2, <3>1 DEF Accounted
  <2> QED BY <2>1, <2>2
<1> QED BY <1>3, <1>4, <1>5 DEF Safe

\* ... that leaves the record alone.
LEMMA BusyMove ==
    ASSUME IInv, NEW j \in Job, pc[j] \in Busy, UNCHANGED <<db, server, succeeded>>,
           NEW l, NEW c, NEW m, Moves(j, l, c, m), m.pos = me[j].pos,
           l \in Busy => SoundAt(db, succeeded, l, c, m),
           Executing(pc[j], ctx[j]) =>
               IF l \in Busy THEN Executing(l, c) ELSE db.status \in Terminal
    PROVE  Safe' /\ Keeps
<1>1. Agrees(db') /\ Whole(db') /\ Kept(db', succeeded')
    BY DEF IInv, Safe
<1>2. \A s \in Step : db'.step[s] = "running" =>
          IF l \in Busy THEN Executing(l, c) /\ m.pos = s ELSE db'.status \in Terminal
    BY BusyFacts
<1>3. l \in Busy => SoundAt(db', succeeded', l, c, m)
    OBVIOUS
<1>4. Safe'
    BY <1>1, <1>2, <1>3, BusyStep
<1> QED BY <1>4 DEF Keeps

\* A busy job writes the run's status, to one that carries no checkpoint.
LEMMA BusyStatus ==
    ASSUME IInv, NEW j \in Job, pc[j] \in Busy, UNCHANGED <<server, succeeded>>,
           db'.status # "paused", db'.token = db.token, db'.step = db.step,
           NEW l, Moves(j, l, ctx[j], me[j]),
           l \in Busy, SoundAt(db', succeeded, l, ctx[j], me[j]),
           Executing(pc[j], ctx[j]) => Executing(l, ctx[j]), Whole(db')
    PROVE  Safe' /\ Keeps
<1>1. Agrees(db')
    BY BusyFacts DEF Agrees, Readable
<1>2. Kept(db', succeeded')
    BY DEF IInv, Safe, Kept
<1>3. \A s \in Step : db'.step[s] = "running" =>
          IF l \in Busy THEN Executing(l, ctx[j]) /\ me[j].pos = s ELSE db'.status \in Terminal
    BY BusyFacts
<1>4. SoundAt(db', succeeded', l, ctx[j], me[j])
    OBVIOUS
<1>5. Safe'
    BY <1>1, <1>2, <1>3, <1>4, BusyStep
<1> QED BY <1>5 DEF Keeps

\* A busy job writes the status of its step.
LEMMA BusyStepWrite ==
    ASSUME IInv, NEW j \in Job, pc[j] \in Busy, UNCHANGED <<server, succeeded>>,
           me[j].pos \in Step, NEW st, st # "paused",
           db'.status = db.status, db'.token = db.token,
           db'.step = [db.step EXCEPT ![me[j].pos] = st],
           NEW l, NEW c, NEW m, Moves(j, l, c, m), l \in Busy,
           SoundAt(db', succeeded, l, c, m),
           st = "running" => Executing(l, c) /\ m.pos = me[j].pos,
           me[j].pos \in succeeded => st \in {"completed", "running"},
           db.step[me[j].pos] = "completed" => st = "completed",
           db.status # "completed"
    PROVE  Safe' /\ Keeps
<1>1. \A s \in Step : db'.step[s] = IF s = me[j].pos THEN st ELSE db.step[s]
    BY BusyFacts DEF RecordType
<1>2. Agrees(db')
    BY <1>1, BusyFacts DEF Agrees, Readable
<1>3. Kept(db', succeeded')
    BY <1>1, BusyFacts DEF IInv, Safe, Kept
<1>4. Whole(db')
    BY DEF Whole
<1>5. \A s \in Step : db'.step[s] = "running" =>
          IF l \in Busy THEN Executing(l, c) /\ m.pos = s ELSE db'.status \in Terminal
    BY <1>1, BusyFacts
<1>6. SoundAt(db', succeeded', l, c, m)
    OBVIOUS
<1>7. Safe'
    BY <1>2, <1>3, <1>4, <1>5, <1>6, BusyStep
<1> QED BY <1>1, <1>7 DEF Keeps

-----------------------------------------------------------------------------
(* The steps of a busy job: _cancelled *)

LEMMA CheckRecordSafe ==
    ASSUME IInv, NEW j \in Job, CheckRecord(j) PROVE Safe' /\ Keeps
<1> DEFINE m == [me[j] EXCEPT !.snap = db.status]
<1>1. /\ pc[j] = "check" /\ pc[j] \in Busy /\ UNCHANGED <<db, server, succeeded>>
      /\ Typed /\ ThreadsOK /\ DataOK /\ j \in Thread /\ j \notin Resumer
      /\ Labels(j) = JobLabel /\ ctx[j] \in {"loop", "poll", "except", "end"}
    BY JobFacts DEF CheckRecord, Busy, JobLabel, durable, control, history, IInv
<1>2. /\ me' = [me EXCEPT ![j] = m]
      /\ \/ Answer(j, TRUE) /\ db.status \in Terminal
         \/ Goto(j, "cancelLoad") /\ db.status \notin Terminal
         \/ Goto(j, "checkStop")
    BY <1>1, BusyFacts DEF CheckRecord, Cancelling
<1>3. me[j] \in LocalType /\ db.status \in RunStatus
    BY <1>1, JobFacts DEF DataOK, RecordType
<1>4. m \in LocalType /\ m.pos = me[j].pos /\ m.snap = db.status
    BY <1>3 DEF LocalType
<1> HIDE DEF m
<1>5. SoundAt(db, succeeded, "check", ctx[j], me[j])
    BY <1>1, BusyFacts
<1>6. CASE Answer(j, TRUE) /\ db.status \in Terminal
  <2>1. ctx[j] = "except" /\ "returned" \notin Busy
      BY <1>5, <1>6 DEF SoundAt, StatusFits, Terminal, Busy
  <2>2. Moves(j, "returned", ctx[j], m)
      BY <1>1, <1>2, <1>4, <1>6, <2>1, AnswerMoves, ThreadKinds
  <2> QED BY <1>1, <1>4, <1>6, <2>1, <2>2, BusyMove
<1>7. CASE Goto(j, "cancelLoad") /\ db.status \notin Terminal
  <2>1. "cancelLoad" \in JobLabel
      BY DEF JobLabel
  <2>2. Moves(j, "cancelLoad", ctx[j], m)
      BY <1>1, <1>2, <1>4, <1>7, <2>1, GotoMoves
  <2>3. SoundAt(db, succeeded, "cancelLoad", ctx[j], m)
      BY <1>4, <1>5, <1>7 DEF SoundAt, StatusFits, Executing, CheckLabel, Terminal
  <2>4. Executing("check", ctx[j]) => Executing("cancelLoad", ctx[j])
      BY DEF Executing, CheckLabel
  <2>5. "cancelLoad" \in Busy
      BY DEF Busy, JobLabel
  <2> QED BY <1>1, <1>4, <2>2, <2>3, <2>4, <2>5, BusyMove
<1>8. CASE Goto(j, "checkStop")
  <2>1. "checkStop" \in JobLabel
      BY DEF JobLabel
  <2>2. Moves(j, "checkStop", ctx[j], m)
      BY <1>1, <1>2, <1>4, <1>8, <2>1, GotoMoves
  <2>3. SoundAt(db, succeeded, "checkStop", ctx[j], m)
      BY <1>4, <1>5 DEF SoundAt, StatusFits, Executing, CheckLabel
  <2>4. Executing("check", ctx[j]) => Executing("checkStop", ctx[j])
      BY DEF Executing, CheckLabel
  <2>5. "checkStop" \in Busy
      BY DEF Busy, JobLabel
  <2> QED BY <1>1, <1>4, <2>2, <2>3, <2>4, <2>5, BusyMove
<1> QED BY <1>2, <1>6, <1>7, <1>8

\* The labels that a busy job reaches.
LEMMA BusyLabels ==
    /\ CheckLabel \subseteq Busy
    /\ {"begin", "mark", "pubStarted", "load", "read", "skip", "start", "exec", "complete",
        "pause", "failStep", "failRun", "pubFailed", "chat", "finish", "pubCompleted"}
           \subseteq Busy
    /\ Busy \subseteq JobLabel
    /\ \A l \in {"off", "pubPaused", "returned", "raised", "done"} : l \notin Busy
    BY DEF Busy, JobLabel, CheckLabel

LEMMA ReviewedJobFacts ==
    ASSUME IInv, NEW j \in Job
    PROVE  /\ j \in Thread /\ j \notin Resumer /\ j \notin Canceller /\ Labels(j) = JobLabel
           /\ ThreadsOK /\ ctx[j] \in {"loop", "poll", "except", "end"} /\ me[j] \in LocalType
           /\ UNCHANGED me => me' = [me EXCEPT ![j] = me[j]]
           /\ pc[j] \notin AfterLoop => me[j].pos \in Step
    BY JobFacts, ThreadKinds, MeSame DEF IInv

\* _cancelled answers TRUE when the run has become cancelled.
LEMMA AnswerTrueSafe ==
    ASSUME IInv, NEW j \in Job, pc[j] \in CheckLabel, UNCHANGED <<db, server, succeeded, me>>,
           Answer(j, TRUE), db.status = "cancelled"
    PROVE  Safe' /\ Keeps
<1>1. SoundAt(db, succeeded, pc[j], ctx[j], me[j]) /\ pc[j] \in Busy
    BY BusyFacts, BusyLabels
<1>2. CASE ctx[j] = "poll"
  <2>1. Moves(j, "check", "except", me[j])
      BY <1>2, ReviewedJobFacts, AnswerMoves
  <2>2. SoundAt(db, succeeded, "check", "except", me[j])
      BY <1>1, <1>2 DEF SoundAt, StatusFits, Executing, CheckLabel
  <2>3. Executing("check", "except") /\ "check" \in Busy
      BY BusyLabels DEF Executing, CheckLabel
  <2> QED BY <1>1, <2>1, <2>2, <2>3, BusyMove
<1>3. CASE ctx[j] # "poll"
  <2>1. Moves(j, "returned", ctx[j], me[j])
      BY <1>3, ReviewedJobFacts, AnswerMoves
  <2>2. "returned" \notin Busy /\ db.status \in Terminal
      BY BusyLabels DEF Terminal
  <2> QED BY <1>1, <2>1, <2>2, BusyMove
<1> QED BY <1>2, <1>3

\* ... and FALSE when it lets the job go on.
LEMMA AnswerFalseSafe ==
    ASSUME IInv, NEW j \in Job, pc[j] = "checkStop", UNCHANGED <<db, server, succeeded, me>>,
           Answer(j, FALSE)
    PROVE  Safe' /\ Keeps
<1>1. SoundAt(db, succeeded, "checkStop", ctx[j], me[j]) /\ pc[j] \in Busy
    BY BusyFacts, BusyLabels DEF CheckLabel
<1>2. CASE ctx[j] = "poll"
  <2>1. Moves(j, "exec", ctx[j], me[j])
      BY <1>2, ReviewedJobFacts, AnswerMoves
  <2>2. SoundAt(db, succeeded, "exec", ctx[j], me[j])
      BY <1>1, <1>2 DEF SoundAt, StatusFits, Executing, CheckLabel
  <2>3. Executing("exec", ctx[j]) /\ "exec" \in Busy
      BY BusyLabels DEF Executing
  <2> QED BY <1>1, <2>1, <2>2, <2>3, BusyMove
<1>3. CASE ctx[j] = "loop"
  <2>1. Moves(j, "read", ctx[j], me[j])
      BY <1>3, ReviewedJobFacts, AnswerMoves
  <2>2. SoundAt(db, succeeded, "read", ctx[j], me[j])
      BY <1>1, <1>3 DEF SoundAt, StatusFits, Executing, CheckLabel
  <2>3. ~Executing(pc[j], ctx[j]) /\ "read" \in Busy
      BY <1>3, BusyLabels DEF Executing
  <2> QED BY <1>1, <2>1, <2>2, <2>3, BusyMove
<1>4. CASE ctx[j] = "except"
  <2>1. Moves(j, "failStep", ctx[j], me[j])
      BY <1>4, ReviewedJobFacts, AnswerMoves
  <2>2. SoundAt(db, succeeded, "failStep", ctx[j], me[j])
      BY <1>1, <1>4 DEF SoundAt, StatusFits, Executing, CheckLabel
  <2>3. Executing("failStep", ctx[j]) /\ "failStep" \in Busy
      BY BusyLabels DEF Executing
  <2> QED BY <1>1, <2>1, <2>2, <2>3, BusyMove
<1>5. CASE ctx[j] = "end"
  <2>1. PICK l \in {"chat", "finish"} : Moves(j, l, ctx[j], me[j])
      BY <1>5, ReviewedJobFacts, AnswerMoves
  <2>2. SoundAt(db, succeeded, l, ctx[j], me[j])
      BY <1>1, <1>5 DEF SoundAt, StatusFits, Executing, CheckLabel
  <2>3. ~Executing(pc[j], ctx[j]) /\ l \in Busy
      BY <1>5, BusyLabels DEF Executing
  <2> QED BY <1>1, <2>1, <2>2, <2>3, BusyMove
<1> QED BY <1>2, <1>3, <1>4, <1>5, ReviewedJobFacts

LEMMA CheckStopSafe ==
    ASSUME IInv, NEW j \in Job, CheckStop(j) PROVE Safe' /\ Keeps
<1>1. /\ pc[j] = "checkStop" /\ UNCHANGED <<db, server, succeeded, me>>
      /\ \/ Answer(j, FALSE)
         \/ Answer(j, TRUE) /\ me[j].snap \in Terminal
         \/ Goto(j, "cancelLoad") /\ me[j].snap \notin Terminal
    BY DEF CheckStop, Cancelling, durable, control, history
<1>2. SoundAt(db, succeeded, "checkStop", ctx[j], me[j]) /\ pc[j] \in Busy /\ pc[j] \in CheckLabel
    BY <1>1, BusyFacts, BusyLabels DEF CheckLabel
<1>3. me[j].snap = db.status
    BY <1>2 DEF SoundAt
<1>4. CASE Answer(j, TRUE) /\ db.status \in Terminal
  <2>1. db.status = "cancelled"
      BY <1>2, <1>4 DEF SoundAt, StatusFits, Terminal
  <2> QED BY <1>1, <1>2, <1>4, <2>1, AnswerTrueSafe
<1>5. CASE Goto(j, "cancelLoad") /\ db.status \notin Terminal
  <2>1. "cancelLoad" \in JobLabel /\ "cancelLoad" \in Busy
      BY BusyLabels DEF CheckLabel
  <2>2. Moves(j, "cancelLoad", ctx[j], me[j])
      BY <1>1, <1>5, <2>1, ReviewedJobFacts, GotoMoves
  <2>3. SoundAt(db, succeeded, "cancelLoad", ctx[j], me[j])
      BY <1>2, <1>5 DEF SoundAt, StatusFits, Executing, CheckLabel, Terminal
  <2>4. Executing("checkStop", ctx[j]) => Executing("cancelLoad", ctx[j])
      BY DEF Executing, CheckLabel
  <2> QED BY <1>1, <1>2, <2>1, <2>2, <2>3, <2>4, BusyMove
<1> QED BY <1>1, <1>3, <1>4, <1>5, AnswerFalseSafe

LEMMA CancelLoadSafe ==
    ASSUME IInv, NEW j \in Job, CancelLoad(j) PROVE Safe' /\ Keeps
<1> DEFINE m == [me[j] EXCEPT !.plan = CancelPlan(db)]
<1>1. /\ pc[j] = "cancelLoad" /\ UNCHANGED <<db, server, succeeded>>
      /\ me' = [me EXCEPT ![j] = m] /\ Goto(j, "cancelCommit")
    BY DEF CancelLoad, durable, control, history
<1>2. SoundAt(db, succeeded, "cancelLoad", ctx[j], me[j]) /\ pc[j] \in Busy /\ db.token = NoToken
    BY <1>1, BusyFacts, BusyLabels DEF CheckLabel
<1>3. m \in LocalType /\ m.pos = me[j].pos /\ m.plan = CancelPlan(db)
  <2>1. me[j] \in LocalType /\ db \in RecordType(Job)
      BY <1>2, ReviewedJobFacts, BusyFacts
  <2>2. CancelPlan(db) \in [writes: BOOLEAN, clears: BOOLEAN]
      BY <2>1, CancelsTyped
  <2> QED BY <2>1, <2>2 DEF LocalType
<1> HIDE DEF m
<1>4. ~m.plan.clears /\ (m.plan.writes \/ db.status = "cancelled")
  <2>1. CancelPlan(db).clears = (db.token # NoToken)
      BY DEF CancelPlan
  <2>2. CancelPlan(db).writes = (db.status # "cancelled")
      BY DEF CancelPlan
  <2>3. ~CancelPlan(db).clears
      BY <1>2, <2>1, Zenon
  <2>4. CancelPlan(db).writes \/ db.status = "cancelled"
      BY <2>2, Zenon
  <2> QED BY <1>3, <2>3, <2>4, Zenon
<1>5. "cancelCommit" \in JobLabel /\ "cancelCommit" \in Busy
    BY BusyLabels DEF CheckLabel
<1>6. Moves(j, "cancelCommit", ctx[j], m)
    BY <1>1, <1>3, <1>5, ReviewedJobFacts, GotoMoves
<1>7. SoundAt(db, succeeded, "cancelCommit", ctx[j], m)
    BY <1>2, <1>3, <1>4 DEF SoundAt, StatusFits, Executing, CheckLabel
<1>8. Executing("cancelLoad", ctx[j]) => Executing("cancelCommit", ctx[j])
    BY DEF Executing, CheckLabel
<1> QED BY <1>1, <1>2, <1>3, <1>5, <1>6, <1>7, <1>8, BusyMove

LEMMA CancelCommitSafe ==
    ASSUME IInv, NEW j \in Job, CancelCommit(j) PROVE Safe' /\ Keeps
<1>1. /\ pc[j] = "cancelCommit" /\ UNCHANGED <<server, succeeded, me>>
      /\ CommitGoto(j, Cancel(db, me[j].plan), "cancelPub")
    BY DEF CancelCommit, control, history
<1>2. SoundAt(db, succeeded, "cancelCommit", ctx[j], me[j]) /\ pc[j] \in Busy
    BY <1>1, BusyFacts, BusyLabels DEF CheckLabel
<1>3. ~me[j].plan.clears /\ (me[j].plan.writes \/ db.status = "cancelled")
    BY <1>2 DEF SoundAt
<1>4. db' = Cancel(db, me[j].plan)
    BY <1>1 DEF CommitGoto
<1>5. db'.status = "cancelled" /\ db'.token = db.token /\ db'.step = db.step
    BY <1>2, <1>3, <1>4, BusyFacts DEF Cancel, SetStatus, RecordType
<1>6. Goto(j, "cancelPub")
  <2>1. Readable(db')
      BY <1>2, <1>5, BusyFacts DEF Readable
  <2> QED BY <1>1, <1>4, <2>1 DEF CommitGoto
<1>7. "cancelPub" \in JobLabel /\ "cancelPub" \in Busy
    BY BusyLabels DEF CheckLabel
<1>8. Moves(j, "cancelPub", ctx[j], me[j])
    BY <1>1, <1>6, <1>7, ReviewedJobFacts, GotoMoves
<1>9. SoundAt(db', succeeded, "cancelPub", ctx[j], me[j])
    BY <1>2, <1>5 DEF SoundAt, StatusFits, Executing, CheckLabel
<1>10. Executing("cancelCommit", ctx[j]) => Executing("cancelPub", ctx[j])
    BY DEF Executing, CheckLabel
<1>11. Whole(db')
    BY <1>5 DEF Whole
<1> QED BY <1>1, <1>2, <1>5, <1>7, <1>8, <1>9, <1>10, <1>11, BusyStatus

LEMMA CancelPublishSafe ==
    ASSUME IInv, NEW j \in Job, CancelPublish(j) PROVE Safe' /\ Keeps
<1>1. /\ pc[j] = "cancelPub" /\ UNCHANGED <<db, server, succeeded, me>> /\ Answer(j, TRUE)
    BY DEF CancelPublish, control, history
<1>2. pc[j] \in CheckLabel /\ pc[j] \in Busy
    BY <1>1, BusyLabels DEF CheckLabel
<1>3. db.status = "cancelled"
    BY <1>1, <1>2, BusyFacts DEF SoundAt, StatusFits
<1> QED BY <1>1, <1>2, <1>3, AnswerTrueSafe

LEMMA CancelledSafe == ASSUME IInv, NEW j \in Job, Cancelled(j) PROVE Safe' /\ Keeps
    BY CheckRecordSafe, CheckStopSafe, CancelLoadSafe, CancelCommitSafe, CancelPublishSafe
    DEF Cancelled

-----------------------------------------------------------------------------
(* The steps of a busy job: execute_plan_job *)

LEMMA BeginSafe == ASSUME IInv, NEW j \in Job, Begin(j) PROVE Safe' /\ Keeps
<1>1. /\ pc[j] = "begin" /\ pc[j] \in Busy /\ UNCHANGED <<db, server, succeeded, me>>
      /\ IF ~Readable(db) THEN Raise(j)
         ELSE Goto(j, IF db.status = "queued" THEN "mark" ELSE "load")
    BY BusyLabels DEF Begin, durable, control, history
<1>2. PICK l \in {"mark", "load"} : Goto(j, l)
    BY <1>1, BusyFacts
<1>3. l \in JobLabel /\ l \in Busy
    BY BusyLabels
<1>4. Moves(j, l, ctx[j], me[j])
    BY <1>1, <1>2, <1>3, ReviewedJobFacts, GotoMoves
<1>5. SoundAt(db, succeeded, "begin", ctx[j], me[j])
    BY <1>1, BusyFacts
<1>6. SoundAt(db, succeeded, l, ctx[j], me[j]) /\ ~Executing(pc[j], ctx[j])
    BY <1>1, <1>5 DEF SoundAt, StatusFits, Executing, CheckLabel
<1> QED BY <1>1, <1>3, <1>4, <1>6, BusyMove

LEMMA MarkRunningSafe == ASSUME IInv, NEW j \in Job, MarkRunning(j) PROVE Safe' /\ Keeps
<1>1. /\ pc[j] = "mark" /\ pc[j] \in Busy /\ UNCHANGED <<server, succeeded, me>>
      /\ CommitGoto(j, SetStatus(db, "running"), "pubStarted")
    BY BusyLabels DEF MarkRunning, control, history
<1>2. db'.status = "running" /\ db'.token = db.token /\ db'.step = db.step
    BY <1>1, BusyFacts DEF CommitGoto, SetStatus, RecordType
<1>3. Goto(j, "pubStarted")
  <2>1. Readable(db')
      BY <1>1, <1>2, BusyFacts DEF Readable
  <2> QED BY <1>1, <2>1 DEF CommitGoto
<1>4. "pubStarted" \in JobLabel /\ "pubStarted" \in Busy
    BY BusyLabels
<1>5. Moves(j, "pubStarted", ctx[j], me[j])
    BY <1>1, <1>3, <1>4, ReviewedJobFacts, GotoMoves
<1>6. SoundAt(db, succeeded, "mark", ctx[j], me[j])
    BY <1>1, BusyFacts
<1>7. SoundAt(db', succeeded, "pubStarted", ctx[j], me[j]) /\ ~Executing(pc[j], ctx[j])
    BY <1>1, <1>2, <1>6 DEF SoundAt, StatusFits, Executing, CheckLabel
<1>8. Whole(db')
    BY <1>2 DEF Whole
<1> QED BY <1>1, <1>2, <1>4, <1>5, <1>7, <1>8, BusyStatus

LEMMA PublishStartedSafe == ASSUME IInv, NEW j \in Job, PublishStarted(j) PROVE Safe' /\ Keeps
<1>1. /\ pc[j] = "pubStarted" /\ pc[j] \in Busy /\ UNCHANGED <<db, server, succeeded, me>>
      /\ Goto(j, "load")
    BY BusyLabels DEF PublishStarted, control, history
<1>2. "load" \in JobLabel /\ "load" \in Busy
    BY BusyLabels
<1>3. Moves(j, "load", ctx[j], me[j])
    BY <1>1, <1>2, ReviewedJobFacts, GotoMoves
<1>4. SoundAt(db, succeeded, "pubStarted", ctx[j], me[j])
    BY <1>1, BusyFacts
<1>5. SoundAt(db, succeeded, "load", ctx[j], me[j]) /\ ~Executing(pc[j], ctx[j])
    BY <1>1, <1>4 DEF SoundAt, StatusFits, Executing, CheckLabel
<1> QED BY <1>1, <1>2, <1>3, <1>5, BusyMove

LEMMA LoadOutputsSafe == ASSUME IInv, NEW j \in Job, LoadOutputs(j) PROVE Safe' /\ Keeps
<1> DEFINE m == [me[j] EXCEPT !.have = {s \in db.value : db.step[s] = "completed"},
                              !.pay = db.outputs]
<1>1. pc[j] = "load" /\ pc[j] \in Busy /\ UNCHANGED <<db, server, succeeded>>
    BY BusyLabels DEF LoadOutputs, durable, control, history
<1>2. me' = [me EXCEPT ![j] = m] /\ Evaluate(j, "loop")
    BY <1>1, BusyFacts DEF LoadOutputs
<1>3. db.value \subseteq Step /\ db.outputs \subseteq Step /\ me[j] \in LocalType
    BY <1>1, BusyFacts, ReviewedJobFacts DEF RecordType
<1>4. m \in LocalType /\ m.pos = me[j].pos
    BY <1>3 DEF LocalType
<1> HIDE DEF m
<1>5. Moves(j, "check", "loop", m)
    BY <1>2, <1>4, ReviewedJobFacts, EvaluateMoves DEF Context
<1>6. SoundAt(db, succeeded, "load", ctx[j], me[j])
    BY <1>1, BusyFacts
<1>7. SoundAt(db, succeeded, "check", "loop", m) /\ ~Executing(pc[j], ctx[j])
    BY <1>1, <1>4, <1>6 DEF SoundAt, StatusFits, Executing, CheckLabel
<1> QED BY <1>1, <1>4, <1>5, <1>7, BusyMove

\* Advance moves the job one position further in the plan.
LEMMA AdvanceMoves ==
    ASSUME IInv, NEW j \in Job, me[j].pos \in Step, Advance(j)
    PROVE  \E c \in {"loop", "end"}, m \in LocalType :
              /\ Moves(j, "check", c, m) /\ m.pos = me[j].pos + 1
              /\ c = "end" => m.pos = N + 1
<1> DEFINE c == IF me[j].pos = N THEN "end" ELSE "loop"
<1> DEFINE m == [me[j] EXCEPT !.pos = @ + 1]
<1>1. me' = [me EXCEPT ![j] = m] /\ Evaluate(j, c)
    BY DEF Advance
<1>2. me[j] \in LocalType /\ me[j].pos \in Nat
    BY ReviewedJobFacts DEF Step
<1>3. m \in LocalType /\ m.pos = me[j].pos + 1
    BY <1>2 DEF LocalType
<1>4. c \in {"loop", "end"} /\ (c = "end" => me[j].pos = N)
    OBVIOUS
<1> HIDE DEF m, c
<1>5. Moves(j, "check", c, m)
  <2>1. c \in Context /\ ThreadsOK /\ j \in Thread /\ j \notin Resumer
      BY <1>4, ReviewedJobFacts DEF Context
  <2> QED BY <1>1, <1>3, <2>1, EvaluateMoves
<1> QED BY <1>3, <1>4, <1>5

\* What the job relies on after Advance, when its step is completed or skipped.
LEMMA AdvanceSound ==
    ASSUME NEW d, NEW done, NEW l, NEW c0, NEW p, SoundAt(d, done, l, c0, p), p.pos \in Step,
           l \notin CheckLabel, l \notin {"failStep", "failRun", "pubFailed", "pubCompleted"},
           NEW c \in {"loop", "end"}, NEW m, m.pos = p.pos + 1, c = "end" => m.pos = N + 1,
           NEW e, e.status = d.status, e.step[p.pos] \in {"completed", "skipped"},
           \A s \in Step \ {p.pos} : e.step[s] = d.step[s]
    PROVE  SoundAt(e, done, "check", c, m)
<1>1. \A s \in Step : s < m.pos => e.step[s] \in {"completed", "skipped"}
  <2> TAKE s \in Step
  <2>1. s < m.pos => s < p.pos \/ s = p.pos
      BY NAssumption DEF Step
  <2> QED BY <2>1 DEF SoundAt
<1>2. StatusFits(e.status, "check", c)
    BY DEF SoundAt, StatusFits, CheckLabel
<1> QED BY <1>1, <1>2 DEF SoundAt, Executing, CheckLabel

LEMMA ReadStepSafe == ASSUME IInv, NEW j \in Job, ReadStep(j) PROVE Safe' /\ Keeps
<1>1. /\ pc[j] = "read" /\ pc[j] \in Busy /\ UNCHANGED <<db, server, succeeded>>
      /\ me[j].pos \in Step
    BY BusyLabels, ReviewedJobFacts
    DEF ReadStep, durable, control, history, AfterLoop, CheckLabel
<1>2. SoundAt(db, succeeded, "read", ctx[j], me[j]) /\ ~Executing("read", ctx[j])
    BY <1>1, BusyFacts DEF Executing, CheckLabel
<1>3. CASE db.step[me[j].pos] = "completed" /\ Advance(j)
  <2>1. PICK c \in {"loop", "end"}, m \in LocalType :
          /\ Moves(j, "check", c, m) /\ m.pos = me[j].pos + 1
          /\ c = "end" => m.pos = N + 1
      BY <1>1, <1>3, AdvanceMoves
  <2>2. SoundAt(db, succeeded, "check", c, m)
      BY <1>1, <1>2, <1>3, <2>1, AdvanceSound DEF CheckLabel
  <2>3. \A s \in Step : db'.step[s] # "running"
      BY <1>1, <1>2, BusyFacts
  <2>4. Agrees(db') /\ Whole(db') /\ Kept(db', succeeded')
      BY <1>1 DEF IInv, Safe
  <2>5. SoundAt(db', succeeded', "check", c, m)
      BY <1>1, <2>2
  <2>6. Safe'
      BY <1>1, <2>1, <2>3, <2>4, <2>5, BusyStep
  <2> QED BY <1>1, <2>6 DEF Keeps
<1>4. CASE db.step[me[j].pos] # "completed" /\ UNCHANGED me /\ (Goto(j, "skip") \/ Goto(j, "start"))
  <2>1. PICK l \in {"skip", "start"} : Goto(j, l)
      BY <1>4
  <2>2. l \in JobLabel /\ l \in Busy
      BY BusyLabels
  <2>3. Moves(j, l, ctx[j], me[j])
      BY <1>4, <2>1, <2>2, ReviewedJobFacts, GotoMoves
  <2>4. me[j].pos \notin succeeded
    <3>1. me[j].pos \in succeeded => db.step[me[j].pos] \in {"completed", "paused", "running"}
        BY DEF IInv, Safe, Kept
    <3>2. db.step[me[j].pos] \notin {"paused", "running"}
        BY <1>1, <1>2, BusyFacts
    <3> QED BY <1>4, <3>1, <3>2
  <2>5. SoundAt(db, succeeded, l, ctx[j], me[j])
      BY <1>2, <1>4, <2>4 DEF SoundAt, StatusFits, Executing, CheckLabel
  <2> QED BY <1>1, <1>2, <2>2, <2>3, <2>5, BusyMove
<1>5. Readable(db)
    BY <1>1, BusyFacts
<1> QED BY <1>3, <1>4, <1>5 DEF ReadStep, Step_

LEMMA SkipStepSafe == ASSUME IInv, NEW j \in Job, SkipStep(j) PROVE Safe' /\ Keeps
<1>1. /\ pc[j] = "skip" /\ pc[j] \in Busy /\ UNCHANGED <<server, succeeded>>
      /\ me[j].pos \in Step /\ db' = SetStep(db, me[j].pos, "skipped")
    BY BusyLabels, ReviewedJobFacts
    DEF SkipStep, control, history, AfterLoop, CheckLabel, Step_
<1>2. SoundAt(db, succeeded, "skip", ctx[j], me[j])
    BY <1>1, BusyFacts
<1>3. /\ db'.step = [db.step EXCEPT ![me[j].pos] = "skipped"]
      /\ db'.status = db.status /\ db'.token = db.token
  <2>1. db \in RecordType(Job)
      BY <1>1, BusyFacts
  <2> QED BY <1>1, <2>1 DEF RecordType, SetStep
<1>4. Advance(j)
  <2>1. Readable(db')
      BY <1>1, <1>3, BusyFacts DEF Readable
  <2> QED BY <2>1 DEF SkipStep
<1>5. PICK c \in {"loop", "end"}, m \in LocalType :
        /\ Moves(j, "check", c, m) /\ m.pos = me[j].pos + 1
        /\ c = "end" => m.pos = N + 1
    BY <1>1, <1>4, AdvanceMoves
<1>6. /\ db'.step[me[j].pos] = "skipped"
      /\ \A s \in Step \ {me[j].pos} : db'.step[s] = db.step[s]
    BY <1>1, <1>3, BusyFacts DEF RecordType
<1>7. SoundAt(db', succeeded, "check", c, m)
    BY <1>1, <1>2, <1>3, <1>5, <1>6, AdvanceSound DEF CheckLabel
<1>8. /\ me[j].pos \notin succeeded /\ db.step[me[j].pos] # "completed"
      /\ db.status # "completed"
    BY <1>2 DEF SoundAt, StatusFits
<1>9. "check" \in Busy
    BY BusyLabels DEF CheckLabel
<1> QED BY <1>1, <1>3, <1>5, <1>7, <1>8, <1>9, BusyStepWrite, ZenonT(60)

LEMMA StartStepSafe == ASSUME IInv, NEW j \in Job, StartStep(j) PROVE Safe' /\ Keeps
<1>1. /\ pc[j] = "start" /\ pc[j] \in Busy /\ UNCHANGED <<server, succeeded, me>>
      /\ me[j].pos \in Step /\ CommitGoto(j, SetStep(db, me[j].pos, "running"), "exec")
    BY BusyLabels, ReviewedJobFacts
    DEF StartStep, control, history, AfterLoop, CheckLabel, Step_
<1>2. SoundAt(db, succeeded, "start", ctx[j], me[j])
    BY <1>1, BusyFacts
<1>3. /\ db'.step = [db.step EXCEPT ![me[j].pos] = "running"]
      /\ db'.status = db.status /\ db'.token = db.token
  <2>1. db \in RecordType(Job) /\ db' = SetStep(db, me[j].pos, "running")
      BY <1>1, BusyFacts DEF CommitGoto
  <2> QED BY <1>1, <2>1 DEF RecordType, SetStep
<1>4. Goto(j, "exec")
  <2>1. Readable(db')
      BY <1>1, <1>3, BusyFacts DEF Readable
  <2> QED BY <1>1, <2>1 DEF CommitGoto
<1>5. "exec" \in JobLabel /\ "exec" \in Busy /\ Executing("exec", ctx[j])
    BY BusyLabels DEF Executing
<1>6. Moves(j, "exec", ctx[j], me[j])
    BY <1>1, <1>4, <1>5, ReviewedJobFacts, GotoMoves
<1>7. /\ db'.step[me[j].pos] = "running"
      /\ \A s \in Step \ {me[j].pos} : db'.step[s] = db.step[s]
    BY <1>1, <1>3, BusyFacts DEF RecordType
<1>8. SoundAt(db', succeeded, "exec", ctx[j], me[j])
  <2>1. \A s \in Step : s < me[j].pos => s # me[j].pos
      BY <1>1 DEF Step
  <2> QED BY <1>2, <1>3, <1>7, <2>1 DEF SoundAt, StatusFits, CheckLabel
<1>9. /\ me[j].pos \notin succeeded /\ db.step[me[j].pos] # "completed"
      /\ db.status # "completed"
    BY <1>2 DEF SoundAt, StatusFits
<1> QED BY <1>1, <1>3, <1>5, <1>6, <1>8, <1>9, BusyStepWrite

LEMMA HandlerPollsSafe == ASSUME IInv, NEW j \in Job, HandlerPolls(j) PROVE Safe' /\ Keeps
<1>1. /\ pc[j] = "exec" /\ pc[j] \in Busy /\ UNCHANGED <<db, server, succeeded, me>>
      /\ Evaluate(j, "poll") /\ "poll" \in Context
    BY BusyLabels DEF HandlerPolls, durable, control, history, Context
<1>2. Moves(j, "check", "poll", me[j])
    BY <1>1, ReviewedJobFacts, EvaluateMoves
<1>3. SoundAt(db, succeeded, "exec", ctx[j], me[j])
    BY <1>1, BusyFacts
<1>4. SoundAt(db, succeeded, "check", "poll", me[j])
    BY <1>3 DEF SoundAt, StatusFits, Executing, CheckLabel
<1>5. Executing("check", "poll") /\ "check" \in Busy
    BY BusyLabels DEF Executing, CheckLabel
<1> QED BY <1>1, <1>2, <1>4, <1>5, BusyMove

LEMMA HandlerRaisesSafe == ASSUME IInv, NEW j \in Job, HandlerRaises(j) PROVE Safe' /\ Keeps
<1>1. /\ pc[j] = "exec" /\ pc[j] \in Busy /\ UNCHANGED <<db, server, succeeded, me>>
      /\ Evaluate(j, "except") /\ "except" \in Context
    BY BusyLabels DEF HandlerRaises, durable, control, history, Context
<1>2. Moves(j, "check", "except", me[j])
    BY <1>1, ReviewedJobFacts, EvaluateMoves
<1>3. SoundAt(db, succeeded, "exec", ctx[j], me[j])
    BY <1>1, BusyFacts
<1>4. SoundAt(db, succeeded, "check", "except", me[j])
    BY <1>3 DEF SoundAt, StatusFits, Executing, CheckLabel
<1>5. Executing("check", "except") /\ "check" \in Busy
    BY BusyLabels DEF Executing, CheckLabel
<1> QED BY <1>1, <1>2, <1>4, <1>5, BusyMove

\* The handler returned: what it did is not to be done again.
LEMMA HandlerDoneSafe ==
    ASSUME IInv, NEW j \in Job, pc[j] = "exec", UNCHANGED <<db, server>>,
           succeeded' = succeeded \cup {me[j].pos},
           NEW l \in {"complete", "pause"}, NEW m, m.pos = me[j].pos, Moves(j, l, ctx[j], m)
    PROVE  Safe' /\ Keeps
<1>1. /\ pc[j] \in Busy /\ l \in Busy /\ me[j].pos \in Step
      /\ Executing("exec", ctx[j]) /\ Executing(l, ctx[j])
    BY BusyLabels, ReviewedJobFacts DEF Executing, AfterLoop, CheckLabel
<1>2. SoundAt(db, succeeded, "exec", ctx[j], me[j])
    BY <1>1, BusyFacts
<1>3. db.step[me[j].pos] = "running"
    BY <1>1, <1>2 DEF SoundAt
<1>4. SoundAt(db', succeeded', l, ctx[j], m)
    BY <1>1, <1>2 DEF SoundAt, StatusFits, CheckLabel
<1>5. Kept(db', succeeded')
    BY <1>3 DEF IInv, Safe, Kept
<1>6. Agrees(db') /\ Whole(db')
    BY DEF IInv, Safe
<1>7. \A s \in Step : db'.step[s] = "running" =>
          IF l \in Busy THEN Executing(l, ctx[j]) /\ m.pos = s ELSE db'.status \in Terminal
    BY <1>1, BusyFacts
<1>8. Safe'
    BY <1>1, <1>4, <1>5, <1>6, <1>7, BusyStep
<1> QED BY <1>8 DEF Keeps

LEMMA HandlerReturnsSafe == ASSUME IInv, NEW j \in Job, HandlerReturns(j) PROVE Safe' /\ Keeps
<1>1. CASE HandlerSucceeds(j)
  <2>1. /\ pc[j] = "exec" /\ UNCHANGED <<db, server>> /\ Goto(j, "complete")
        /\ succeeded' = succeeded \cup {me[j].pos} /\ me[j].pos \in Step
      BY <1>1, ReviewedJobFacts
      DEF HandlerSucceeds, durable, control, Step_, AfterLoop, CheckLabel
  <2>2. PICK v \in BOOLEAN :
          me' = [me EXCEPT ![j].have = IF v THEN @ \cup {me[j].pos} ELSE @ \ {me[j].pos},
                           ![j].pay = @ \cup ({me[j].pos} \cap Terminals)]
      BY <1>1 DEF HandlerSucceeds, Step_
  <2> DEFINE h == IF v THEN me[j].have \cup {me[j].pos} ELSE me[j].have \ {me[j].pos}
  <2> DEFINE p == me[j].pay \cup ({me[j].pos} \cap Terminals)
  <2> DEFINE m == [me[j] EXCEPT !.have = h, !.pay = p]
  <2>3. me[j] \in LocalType /\ j \in Thread /\ me \in [Thread -> LocalType]
      BY ReviewedJobFacts DEF ThreadsOK
  <2>4. h \subseteq Step /\ p \subseteq Step
      BY <2>1, <2>3 DEF LocalType
  <2>5. me' = [me EXCEPT ![j] = m]
      BY <2>2, <2>3 DEF LocalType
  <2> HIDE DEF h, p
  <2>6. m \in LocalType /\ m.pos = me[j].pos
      BY <2>3, <2>4 DEF LocalType
  <2> HIDE DEF m
  <2>7. Moves(j, "complete", ctx[j], m)
      BY <2>1, <2>5, <2>6, ReviewedJobFacts, GotoMoves DEF JobLabel
  <2> QED BY <2>1, <2>6, <2>7, HandlerDoneSafe
<1>2. CASE HandlerPauses(j)
  <2>1. /\ pc[j] = "exec" /\ UNCHANGED <<db, server, me>> /\ Goto(j, "pause")
        /\ succeeded' = succeeded \cup {me[j].pos}
      BY <1>2 DEF HandlerPauses, durable, control, Step_
  <2>2. Moves(j, "pause", ctx[j], me[j])
      BY <2>1, ReviewedJobFacts, GotoMoves DEF JobLabel
  <2> QED BY <2>1, <2>2, HandlerDoneSafe
<1> QED BY <1>1, <1>2, HandlerRaisesSafe DEF HandlerReturns

LEMMA FinishStepSafe == ASSUME IInv, NEW j \in Job, FinishStep(j) PROVE Safe' /\ Keeps
<1>1. /\ pc[j] = "complete" /\ pc[j] \in Busy /\ UNCHANGED <<server, succeeded>>
      /\ me[j].pos \in Step
      /\ db' = CompleteStep(db, me[j].pos, me[j].pos \in me[j].have)
    BY BusyLabels, ReviewedJobFacts
    DEF FinishStep, control, history, AfterLoop, CheckLabel, Step_
<1>2. SoundAt(db, succeeded, "complete", ctx[j], me[j])
    BY <1>1, BusyFacts
<1>3. /\ db'.step = [db.step EXCEPT ![me[j].pos] = "completed"]
      /\ db'.status = db.status /\ db'.token = db.token
  <2>1. db \in RecordType(Job)
      BY <1>1, BusyFacts
  <2> QED BY <1>1, <2>1 DEF RecordType, CompleteStep
<1>4. Advance(j)
  <2>1. Readable(db')
      BY <1>1, <1>3, BusyFacts DEF Readable
  <2> QED BY <2>1 DEF FinishStep
<1>5. PICK c \in {"loop", "end"}, m \in LocalType :
        /\ Moves(j, "check", c, m) /\ m.pos = me[j].pos + 1
        /\ c = "end" => m.pos = N + 1
    BY <1>1, <1>4, AdvanceMoves
<1>6. /\ db'.step[me[j].pos] = "completed"
      /\ \A s \in Step \ {me[j].pos} : db'.step[s] = db.step[s]
    BY <1>1, <1>3, BusyFacts DEF RecordType
<1>7. SoundAt(db', succeeded, "check", c, m)
    BY <1>1, <1>2, <1>3, <1>5, <1>6, AdvanceSound DEF CheckLabel
<1>8. db.status # "completed"
    BY <1>2 DEF SoundAt, StatusFits
<1>9. "check" \in Busy
    BY BusyLabels DEF CheckLabel
<1> QED BY <1>1, <1>3, <1>5, <1>7, <1>8, <1>9, BusyStepWrite

LEMMA PauseRunSafe == ASSUME IInv, NEW j \in Job, PauseRun(j) PROVE Safe' /\ Keeps
<1>1. /\ pc[j] = "pause" /\ pc[j] \in Busy /\ UNCHANGED <<server, succeeded, me>>
      /\ me[j].pos \in Step /\ CommitGoto(j, PauseAt(db, me[j].pos, j), "pubPaused")
    BY BusyLabels, ReviewedJobFacts
    DEF PauseRun, control, history, AfterLoop, CheckLabel, Step_
<1>2. SoundAt(db, succeeded, "pause", ctx[j], me[j]) /\ Executing("pause", ctx[j])
    BY <1>1, BusyFacts DEF Executing
<1>3. /\ db'.step = [db.step EXCEPT ![me[j].pos] = "paused"]
      /\ db'.status = "paused" /\ db'.token = j /\ db'.gate = me[j].pos
  <2>1. db \in RecordType(Job) /\ db' = PauseAt(db, me[j].pos, j)
      BY <1>1, BusyFacts DEF CommitGoto
  <2> QED BY <1>1, <2>1 DEF RecordType, PauseAt
<1>4. j # NoToken
    BY DEF Job, NoToken
<1>5. Goto(j, "pubPaused")
  <2>1. Readable(db')
      BY <1>3, <1>4 DEF Readable
  <2> QED BY <1>1, <2>1 DEF CommitGoto
<1>6. "pubPaused" \in JobLabel /\ "pubPaused" \notin Busy
    BY BusyLabels DEF JobLabel
<1>7. Moves(j, "pubPaused", ctx[j], me[j])
    BY <1>1, <1>5, <1>6, ReviewedJobFacts, GotoMoves
<1>8. \A s \in Step : db'.step[s] = IF s = me[j].pos THEN "paused" ELSE db.step[s]
    BY <1>1, <1>3, BusyFacts DEF RecordType
<1>9. Agrees(db')
    BY <1>1, <1>3, <1>4, <1>8, BusyFacts DEF Agrees, Readable
<1>10. Whole(db')
    BY <1>3 DEF Whole
<1>11. Kept(db', succeeded')
    BY <1>1, <1>8, BusyFacts DEF IInv, Safe, Kept
<1>12. \A s \in Step : db'.step[s] # "running"
    BY <1>1, <1>8, BusyFacts
<1>13. Safe'
    BY <1>1, <1>6, <1>7, <1>9, <1>10, <1>11, <1>12, BusyStep
<1>14. db.step[me[j].pos] = "running"
    BY <1>2 DEF SoundAt
<1> QED BY <1>8, <1>13, <1>14 DEF Keeps

LEMMA FailStepSafe == ASSUME IInv, NEW j \in Job, FailStep(j) PROVE Safe' /\ Keeps
<1>1. /\ pc[j] = "failStep" /\ pc[j] \in Busy /\ UNCHANGED <<server, succeeded, me>>
      /\ me[j].pos \in Step /\ CommitGoto(j, SetStep(db, me[j].pos, "failed"), "failRun")
    BY BusyLabels, ReviewedJobFacts
    DEF FailStep, control, history, AfterLoop, CheckLabel, Step_
<1>2. SoundAt(db, succeeded, "failStep", ctx[j], me[j]) /\ Executing("failStep", ctx[j])
    BY <1>1, BusyFacts DEF Executing
<1>3. /\ db'.step = [db.step EXCEPT ![me[j].pos] = "failed"]
      /\ db'.status = db.status /\ db'.token = db.token
  <2>1. db \in RecordType(Job) /\ db' = SetStep(db, me[j].pos, "failed")
      BY <1>1, BusyFacts DEF CommitGoto
  <2> QED BY <1>1, <2>1 DEF RecordType, SetStep
<1>4. Goto(j, "failRun")
  <2>1. Readable(db')
      BY <1>1, <1>3, BusyFacts DEF Readable
  <2> QED BY <1>1, <2>1 DEF CommitGoto
<1>5. "failRun" \in JobLabel /\ "failRun" \in Busy
    BY BusyLabels
<1>6. Moves(j, "failRun", ctx[j], me[j])
    BY <1>1, <1>4, <1>5, ReviewedJobFacts, GotoMoves
<1>7. \A s \in Step \ {me[j].pos} : db'.step[s] = db.step[s]
    BY <1>1, <1>3, BusyFacts DEF RecordType
<1>8. SoundAt(db', succeeded, "failRun", ctx[j], me[j])
  <2>1. \A s \in Step : s < me[j].pos => s # me[j].pos
      BY <1>1 DEF Step
  <2> QED BY <1>2, <1>3, <1>7, <2>1 DEF SoundAt, StatusFits, CheckLabel, Executing
<1>9. /\ me[j].pos \notin succeeded /\ db.step[me[j].pos] = "running"
      /\ db.status # "completed"
    BY <1>2 DEF SoundAt, StatusFits
<1> QED BY <1>1, <1>3, <1>5, <1>6, <1>8, <1>9, BusyStepWrite

LEMMA FailRunSafe == ASSUME IInv, NEW j \in Job, FailRun(j) PROVE Safe' /\ Keeps
<1>1. /\ pc[j] = "failRun" /\ pc[j] \in Busy /\ UNCHANGED <<server, succeeded, me>>
      /\ CommitGoto(j, SetStatus(db, "failed"), "pubFailed")
    BY BusyLabels DEF FailRun, control, history
<1>2. db'.status = "failed" /\ db'.token = db.token /\ db'.step = db.step
    BY <1>1, BusyFacts DEF CommitGoto, SetStatus, RecordType
<1>3. Goto(j, "pubFailed")
  <2>1. Readable(db')
      BY <1>1, <1>2, BusyFacts DEF Readable
  <2> QED BY <1>1, <2>1 DEF CommitGoto
<1>4. "pubFailed" \in JobLabel /\ "pubFailed" \in Busy
    BY BusyLabels
<1>5. Moves(j, "pubFailed", ctx[j], me[j])
    BY <1>1, <1>3, <1>4, ReviewedJobFacts, GotoMoves
<1>6. SoundAt(db, succeeded, "failRun", ctx[j], me[j])
    BY <1>1, BusyFacts
<1>7. SoundAt(db', succeeded, "pubFailed", ctx[j], me[j]) /\ ~Executing(pc[j], ctx[j])
    BY <1>1, <1>2, <1>6 DEF SoundAt, StatusFits, Executing, CheckLabel
<1>8. Whole(db')
    BY <1>2 DEF Whole
<1> QED BY <1>1, <1>2, <1>4, <1>5, <1>7, <1>8, BusyStatus

LEMMA AppendChatSafe == ASSUME IInv, NEW j \in Job, AppendChat(j) PROVE Safe' /\ Keeps
<1>1. /\ pc[j] = "chat" /\ pc[j] \in Busy /\ UNCHANGED <<db, server, succeeded, me>>
      /\ Goto(j, "finish") \/ Goto(j, "failRun")
    BY BusyLabels DEF AppendChat, control, history
<1>2. PICK l \in {"finish", "failRun"} : Goto(j, l)
    BY <1>1
<1>3. l \in JobLabel /\ l \in Busy
    BY BusyLabels
<1>4. Moves(j, l, ctx[j], me[j])
    BY <1>1, <1>2, <1>3, ReviewedJobFacts, GotoMoves
<1>5. SoundAt(db, succeeded, "chat", ctx[j], me[j])
    BY <1>1, BusyFacts
<1>6. SoundAt(db, succeeded, l, ctx[j], me[j]) /\ ~Executing(pc[j], ctx[j])
    BY <1>1, <1>5 DEF SoundAt, StatusFits, Executing, CheckLabel
<1> QED BY <1>1, <1>3, <1>4, <1>6, BusyMove

LEMMA FinishRunSafe == ASSUME IInv, NEW j \in Job, FinishRun(j) PROVE Safe' /\ Keeps
<1>1. /\ pc[j] = "finish" /\ pc[j] \in Busy /\ UNCHANGED <<server, succeeded, me>>
      /\ CommitGoto(j, Complete(db, me[j].pay), "pubCompleted")
    BY BusyLabels DEF FinishRun, control, history
<1>2. db'.status = "completed" /\ db'.token = db.token /\ db'.step = db.step
    BY <1>1, BusyFacts DEF CommitGoto, Complete, RecordType
<1>3. Goto(j, "pubCompleted")
  <2>1. Readable(db')
      BY <1>1, <1>2, BusyFacts DEF Readable
  <2> QED BY <1>1, <2>1 DEF CommitGoto
<1>4. "pubCompleted" \in JobLabel /\ "pubCompleted" \in Busy
    BY BusyLabels
<1>5. Moves(j, "pubCompleted", ctx[j], me[j])
    BY <1>1, <1>3, <1>4, ReviewedJobFacts, GotoMoves
<1>6. SoundAt(db, succeeded, "finish", ctx[j], me[j])
    BY <1>1, BusyFacts
<1>7. SoundAt(db', succeeded, "pubCompleted", ctx[j], me[j]) /\ ~Executing(pc[j], ctx[j])
    BY <1>1, <1>2, <1>6 DEF SoundAt, StatusFits, Executing, CheckLabel
<1>8. Whole(db')
  <2>1. me[j].pos = N + 1
      BY <1>6 DEF SoundAt
  <2>2. \A s \in Step : s < me[j].pos
      BY <2>1, NAssumption DEF Step
  <2> QED BY <1>2, <1>6, <2>2 DEF Whole, SoundAt
<1> QED BY <1>1, <1>2, <1>4, <1>5, <1>7, <1>8, BusyStatus

\* The job has published the end of the run.
LEMMA PublishEndSafe ==
    ASSUME IInv, NEW j \in Job, PublishFailed(j) \/ PublishCompleted(j) PROVE Safe' /\ Keeps
<1>1. /\ pc[j] \in {"pubFailed", "pubCompleted"} /\ pc[j] \in Busy
      /\ UNCHANGED <<db, server, succeeded, me>>
      /\ Goto(j, "raised") \/ Goto(j, "returned")
    BY BusyLabels DEF PublishFailed, PublishCompleted, control, history
<1>2. PICK l \in {"raised", "returned"} : Goto(j, l)
    BY <1>1
<1>3. l \in JobLabel /\ l \notin Busy
    BY BusyLabels DEF JobLabel
<1>4. Moves(j, l, ctx[j], me[j])
    BY <1>1, <1>2, <1>3, ReviewedJobFacts, GotoMoves
<1>5. ~Executing(pc[j], ctx[j])
    BY <1>1 DEF Executing, CheckLabel
<1> QED BY <1>1, <1>3, <1>4, <1>5, BusyMove

-----------------------------------------------------------------------------
(* The steps of a job that is no longer busy, and of a resume call *)

\* A job that is not busy moves to a label where it is not busy.
LEMMA IdleJobSafe ==
    ASSUME IInv, NEW j \in Job, pc[j] \notin Busy, UNCHANGED <<db, server, succeeded>>,
           NEW l, l \notin Busy, NEW c, NEW m, Moves(j, l, c, m)
    PROVE  Safe' /\ Keeps
<1>1. /\ pc'[j] = l /\ \A i \in Job \ {j} : pc'[i] = pc[i] /\ ctx'[i] = ctx[i] /\ me'[i] = me[i]
      /\ \A r \in Resumer : pc'[r] = pc[r] /\ me'[r] = me[r]
    BY ThreadKinds DEF Moves
<1>2. Quiet' <=> Quiet
    BY <1>1 DEF Quiet
<1>3. Exclusive'
    BY <1>1, <1>2 DEF IInv, Safe, Exclusive, OneExecutor
<1>4. Sound'
    BY <1>1 DEF IInv, Safe, Sound
<1>5. Accounted'
    BY <1>1, <1>2, ExecutingIsBusy DEF IInv, Safe, Accounted, Recoverable
<1> QED BY <1>3, <1>4, <1>5 DEF IInv, Safe, Agrees, Readable, Kept, Whole, Keeps

LEMMA PublishPausedSafe == ASSUME IInv, NEW j \in Job, PublishPaused(j) PROVE Safe' /\ Keeps
<1>1. /\ pc[j] = "pubPaused" /\ UNCHANGED <<db, server, succeeded, me>> /\ Goto(j, "returned")
    BY DEF PublishPaused, control, history, IInv, Safe, Agrees
<1>2. Moves(j, "returned", ctx[j], me[j])
    BY <1>1, ReviewedJobFacts, GotoMoves DEF JobLabel
<1> QED BY <1>1, <1>2, IdleJobSafe, BusyLabels

LEMMA EndJobSafe == ASSUME IInv, NEW j \in Job, EndJob(j) PROVE Safe' /\ Keeps
<1>1. /\ pc[j] \in {"returned", "raised"} /\ UNCHANGED <<db, server, succeeded>>
      /\ me' = [me EXCEPT ![j] = NewLocals] /\ Goto(j, "done")
    BY DEF EndJob, durable, history
<1>2. Moves(j, "done", ctx[j], NewLocals)
    BY <1>1, ReviewedJobFacts, NewLocalsTyped, GotoMoves DEF JobLabel
<1> QED BY <1>1, <1>2, IdleJobSafe, BusyLabels

LEMMA RunJobSafe == ASSUME IInv, NEW j \in Job, RunJob(j) PROVE Safe' /\ Keeps
<1>1. CASE Execute(j)
    BY <1>1, BeginSafe, MarkRunningSafe, PublishStartedSafe, LoadOutputsSafe, ReadStepSafe,
       SkipStepSafe, StartStepSafe, FinishStepSafe, PauseRunSafe, PublishPausedSafe,
       FailStepSafe, FailRunSafe, PublishEndSafe, AppendChatSafe, FinishRunSafe, EndJobSafe
    DEF Execute
<1>2. CASE HandlerPolls(j) \/ HandlerReturns(j) \/ Cancelled(j)
    BY <1>2, HandlerPollsSafe, HandlerReturnsSafe, CancelledSafe
<1> QED BY <1>1, <1>2 DEF RunJob

\* The reviewing client's call moves, and the record stays.
LEMMA ResumerMoveSafe ==
    ASSUME Review, IInv, NEW r \in Resumer, UNCHANGED <<db, server, succeeded>>,
           NEW l, NEW m, Moves(r, l, ctx[r], m), server = "up",
           l \in {"consumeLoad", "consumeCommit"} => db.status = "paused",
           l = "consumeCommit" => m.seen.gate = db.gate,
           l \in {"pubResumed", "startJob"} => db.status = "queued" /\ Quiet
    PROVE  Safe' /\ Keeps
<1>1. /\ pc'[r] = l /\ me'[r] = m
      /\ \A i \in Job : pc'[i] = pc[i] /\ ctx'[i] = ctx[i] /\ me'[i] = me[i]
    BY ThreadKinds DEF Moves
<1>2. Quiet' <=> Quiet
    BY <1>1 DEF Quiet
<1>3. Exclusive'
  <2>1. OneExecutor'
      BY <1>1 DEF IInv, Safe, Exclusive, OneExecutor
  <2> QED BY <1>1, <1>2, <2>1 DEF Review, Exclusive
<1>4. Sound'
    BY <1>1 DEF IInv, Safe, Sound
<1>5. Accounted'
    BY <1>1, <1>2 DEF IInv, Safe, Accounted, Recoverable
<1> QED BY <1>3, <1>4, <1>5 DEF IInv, Safe, Agrees, Readable, Kept, Whole, Keeps

\* When the run is paused or waits for a resumed job, no job is busy.
LEMMA PausedIsQuiet == ASSUME IInv, db.status = "paused" PROVE Quiet
    BY BusyFacts DEF Quiet

LEMMA ResumeReadSafe == ASSUME Review, IInv, NEW r \in Resumer, ResumeRead(r) PROVE Safe' /\ Keeps
<1> DEFINE m == [me[r] EXCEPT !.seen = [NoCheckpoint EXCEPT !.token = db.token]]
<1>1. /\ server = "up" /\ db.status = "paused" /\ UNCHANGED <<db, server, succeeded>>
      /\ me' = [me EXCEPT ![r] = m] /\ Goto(r, "consumeLoad")
    BY DEF ResumeRead, durable, control, history
<1>2. ThreadsOK /\ r \in Thread /\ Labels(r) = ResumeLabel /\ me[r] \in LocalType
      /\ db.token \in Job \cup {NoToken}
    BY ResumerFacts DEF IInv, DataOK, RecordType
<1>3. m \in LocalType
    BY <1>2 DEF LocalType, NoCheckpoint
<1> HIDE DEF m
<1>4. Moves(r, "consumeLoad", ctx[r], m)
    BY <1>1, <1>2, <1>3, GotoMoves DEF ResumeLabel
<1> QED BY <1>1, <1>4, ResumerMoveSafe

LEMMA ConsumeLoadSafe ==
    ASSUME Review, IInv, NEW r \in Resumer, ConsumeLoad(r) PROVE Safe' /\ Keeps
<1>1. /\ pc[r] = "consumeLoad" /\ UNCHANGED <<db, server, succeeded>>
      /\ server = "up" /\ db.status = "paused"
    BY DEF ConsumeLoad, durable, control, history, IInv, Safe, Exclusive
<1>2. ThreadsOK /\ r \in Thread /\ r \notin Job /\ r \notin Canceller
      /\ Labels(r) = ResumeLabel /\ me[r] \in LocalType /\ db \in RecordType(Job)
    BY ResumerFacts DEF IInv, DataOK
<1>3. CASE db.token = me[r].seen.token
  <2> DEFINE k == [token |-> db.token, gate |-> db.gate, clears |-> db.cancelReq]
  <2> DEFINE m == [me[r] EXCEPT !.seen = k]
  <2>1. me' = [me EXCEPT ![r] = m] /\ Goto(r, "consumeCommit")
      BY <1>1, <1>3 DEF ConsumeLoad
  <2>2. m \in LocalType /\ m.seen.gate = db.gate
    <3>1. k \in [token: Job \cup {NoToken}, gate: Step \cup {NoStep}, clears: BOOLEAN]
        BY <1>2 DEF RecordType
    <3>2. k.gate = db.gate
        OBVIOUS
    <3> HIDE DEF k
    <3> QED BY <1>2, <3>1, <3>2 DEF LocalType
  <2> HIDE DEF m
  <2>3. Moves(r, "consumeCommit", ctx[r], m)
      BY <1>2, <2>1, <2>2, GotoMoves DEF ResumeLabel
  <2> QED BY <1>1, <2>2, <2>3, ResumerMoveSafe
<1>4. CASE db.token # me[r].seen.token
  <2>1. Goto(r, "idle") /\ me' = [me EXCEPT ![r] = me[r]]
      BY <1>2, <1>4, MeSame DEF ConsumeLoad, Raise
  <2>2. Moves(r, "idle", ctx[r], me[r])
      BY <1>2, <2>1, GotoMoves DEF ResumeLabel
  <2> QED BY <1>1, <2>2, ResumerMoveSafe
<1> QED BY <1>3, <1>4

LEMMA PublishResumedSafe ==
    ASSUME Review, IInv, NEW r \in Resumer, PublishResumed(r) PROVE Safe' /\ Keeps
<1>1. /\ pc[r] = "pubResumed" /\ UNCHANGED <<db, server, succeeded, me>> /\ Goto(r, "startJob")
      /\ server = "up" /\ db.status = "queued" /\ Quiet
    BY DEF PublishResumed, control, history, IInv, Safe, Exclusive
<1>2. ThreadsOK /\ r \in Thread /\ Labels(r) = ResumeLabel /\ me[r] \in LocalType
      /\ me' = [me EXCEPT ![r] = me[r]]
    BY <1>1, ResumerFacts, MeSame DEF IInv
<1>3. Moves(r, "startJob", ctx[r], me[r])
    BY <1>1, <1>2, GotoMoves DEF ResumeLabel
<1> QED BY <1>1, <1>3, ResumerMoveSafe

\* The checkpoint is consumed while no job is busy.
LEMMA ConsumeCommitSafe ==
    ASSUME Review, IInv, NEW r \in Resumer, ConsumeCommit(r) PROVE Safe' /\ Keeps
<1>1. /\ pc[r] = "consumeCommit" /\ UNCHANGED <<server, succeeded, me>>
      /\ server = "up" /\ db.status = "paused" /\ me[r].seen.gate = db.gate
      /\ CommitGoto(r, Consume(db, db.gate, me[r].seen.clears), "pubResumed")
    BY DEF ConsumeCommit, control, history, IInv, Safe, Exclusive
<1>2. Quiet /\ db.token # NoToken /\ db.gate \in Step /\ db \in RecordType(Job)
  <2>1. db.token # NoToken
      BY <1>1 DEF IInv, Safe, Agrees, Readable
  <2> QED BY <1>1, <2>1, PausedIsQuiet, ResumerFacts DEF IInv, Typed, Named, DataOK
<1>3. /\ db'.status = "queued" /\ db'.token = NoToken
      /\ db'.step = [db.step EXCEPT ![db.gate] = "completed"]
  <2>1. db' = Consume(db, db.gate, me[r].seen.clears)
      BY <1>1 DEF CommitGoto
  <2> QED BY <1>2, <2>1 DEF RecordType, Consume
<1>4. Goto(r, "pubResumed")
  <2>1. Readable(db')
      BY <1>3 DEF Readable
  <2> QED BY <1>1, <2>1 DEF CommitGoto
<1>5. ThreadsOK /\ r \in Thread /\ Labels(r) = ResumeLabel /\ me[r] \in LocalType
      /\ me' = [me EXCEPT ![r] = me[r]]
    BY <1>1, ResumerFacts, MeSame DEF IInv
<1>6. Moves(r, "pubResumed", ctx[r], me[r])
    BY <1>4, <1>5, GotoMoves DEF ResumeLabel
<1>7. /\ pc'[r] = "pubResumed" /\ \A i \in Job : pc'[i] = pc[i]
    BY <1>6, ThreadKinds DEF Moves
<1>8. Quiet'
    BY <1>2, <1>7 DEF Quiet
<1>9. \A s \in Step : db'.step[s] = IF s = db.gate THEN "completed" ELSE db.step[s]
    BY <1>2, <1>3 DEF RecordType
<1>10. Agrees(db')
    BY <1>3, <1>9 DEF Agrees, Readable, IInv, Safe
<1>11. Exclusive'
  <2>1. OneExecutor'
      BY <1>8 DEF Quiet, OneExecutor
  <2> QED BY <1>1, <1>3, <1>7, <1>8, <2>1 DEF Review, Exclusive
<1>12. Accounted'
  <2>1. \A s \in Step : db.step[s] # "running"
      BY <1>1, <1>2, ExecutingIsBusy DEF IInv, Safe, Accounted, Quiet, Terminal, Recoverable
  <2>2. \A s \in Step : db'.step[s] # "running"
      BY <1>9, <2>1
  <2> QED BY <2>2 DEF Accounted
<1>13. Kept(db', succeeded')
    BY <1>1, <1>9, ResumerFacts DEF IInv, Safe, Kept, DataOK
<1>14. Whole(db')
    BY <1>3 DEF Whole
<1>15. Sound'
    BY <1>8 DEF Sound, Quiet
<1> QED BY <1>9, <1>10, <1>11, <1>12, <1>13, <1>14, <1>15 DEF Safe, Keeps

\* A job is started for the queued run when no other is busy.
LEMMA SpawnSafe ==
    ASSUME IInv, Quiet, SpawnJob, db.status = "queued", server \in {"up", "recovering"},
           server' = "up", UNCHANGED <<db, me, succeeded>>,
           \A j \in Job : pc'[j] = IF j = spawned + 1 THEN "begin" ELSE pc[j],
           \A r \in Resumer : pc'[r] = "idle"
    PROVE  Safe' /\ Keeps
<1>1. spawned + 1 \in Job /\ spawned + 1 > spawned
    BY TypeParts, ConstantsAssumption DEF IInv, Typed, DataOK, Job, SpawnJob
<1>2. me[spawned + 1].pos = 1
    BY <1>1 DEF IInv, Spawned
<1>3. \A j \in Job : pc'[j] \in Busy => j = spawned + 1 /\ pc'[j] = "begin"
    BY DEF Quiet
<1>4. Exclusive'
    BY <1>3 DEF Exclusive, OneExecutor
<1>5. SoundAt(db, succeeded, "begin", ctx'[spawned + 1], me[spawned + 1])
  <2>1. \A s \in Step : ~(s < 1)
      BY DEF Step
  <2> QED BY <1>2, <2>1 DEF SoundAt, StatusFits, Executing, CheckLabel
<1>6. Sound'
    BY <1>3, <1>5 DEF Sound
<1>7. Accounted'
  <2>1. \A s \in Step : db.step[s] # "running"
      BY ExecutingIsBusy DEF IInv, Safe, Accounted, Quiet, Terminal, Recoverable
  <2> QED BY <2>1 DEF Accounted
<1> QED BY <1>4, <1>6, <1>7 DEF IInv, Safe, Agrees, Readable, Kept, Whole, Keeps

LEMMA StartResumedSafe ==
    ASSUME Review, IInv, NEW r \in Resumer, StartResumed(r) PROVE Safe' /\ Keeps
<1>1. /\ pc[r] = "startJob" /\ SpawnJob
      /\ pc' = [pc EXCEPT ![r] = "idle", ![spawned + 1] = "begin"]
      /\ UNCHANGED <<db, server, me, succeeded>>
    BY DEF StartResumed, durable, history
<1>2. Quiet /\ db.status = "queued" /\ server = "up"
    BY <1>1 DEF IInv, Safe, Exclusive
<1>3. spawned + 1 \in Job /\ r \in Thread /\ r \notin Job /\ ThreadsOK
    BY <1>1, ResumerFacts, ConstantsAssumption DEF IInv, DataOK, Job, SpawnJob
<1>4. /\ \A j \in Job : pc'[j] = IF j = spawned + 1 THEN "begin" ELSE pc[j]
      /\ pc'[r] = "idle"
    BY <1>1, <1>3, ThreadKinds DEF ThreadsOK
<1>5. \A q \in Resumer : pc'[q] = "idle"
    BY <1>4 DEF Review
<1> QED BY <1>1, <1>2, <1>4, <1>5, SpawnSafe

LEMMA ResumeCallSafe ==
    ASSUME Review, IInv, NEW r \in Resumer, ResumeRead(r) \/ ResumeCall(r)
    PROVE  Safe' /\ Keeps
    BY ResumeReadSafe, ConsumeLoadSafe, ConsumeCommitSafe, PublishResumedSafe, StartResumedSafe
    DEF ResumeCall

-----------------------------------------------------------------------------
(* The steps of the process *)

LEMMA ResumersIdle ==
    ASSUME IInv, server # "up" PROVE \A r \in Resumer : pc[r] = "idle"
    BY DEF IInv, Safe, Exclusive

LEMMA ShutdownSafe == ASSUME IInv, Shutdown PROVE Safe' /\ Keeps
<1>1. /\ server = "up" /\ server' = "stopping" /\ NoCallInProgress
      /\ UNCHANGED <<db, pc, ctx, me, succeeded>>
    BY DEF Shutdown, durable, locals, history
<1>2. \A r \in Resumer : pc'[r] = "idle"
  <2>1. \A r \in Resumer : pc[r] \in ResumeLabel /\ pc[r] \in {"idle", "done"}
      BY <1>1, ResumerFacts DEF IInv, ThreadsOK, NoCallInProgress
  <2> QED BY <1>1, <2>1 DEF ResumeLabel
<1>3. Exclusive'
    BY <1>1, <1>2 DEF IInv, Safe, Exclusive, OneExecutor
<1>4. Sound'
    BY <1>1 DEF IInv, Safe, Sound
<1>5. Accounted'
    BY <1>1 DEF IInv, Safe, Accounted, Quiet, Recoverable
<1> QED BY <1>1, <1>3, <1>4, <1>5 DEF IInv, Safe, Agrees, Readable, Kept, Whole, Keeps

LEMMA ExitSafe == ASSUME IInv, Exit PROVE Safe' /\ Keeps
<1>1. /\ server # "down" /\ server' = "down" /\ UNCHANGED <<db, succeeded>>
      /\ \A t \in Thread : pc'[t] = IF t \in Job /\ t <= spawned THEN "done"
                                    ELSE IF t \in Canceller /\ pc[t] # "idle" THEN "done"
                                    ELSE IF t \in Resumer THEN "idle"
                                    ELSE pc[t]
    BY DEF Exit, durable, history
<1>2. Quiet'
  <2>1. \A j \in Job : pc'[j] \in {"done", "off"}
    <3> TAKE j \in Job
    <3>1. j <= spawned \/ j > spawned
        BY TypeParts, ConstantsAssumption DEF IInv, Typed, DataOK, Job
    <3> QED BY <1>1, <3>1, ThreadKinds DEF IInv, Spawned
  <2> QED BY <2>1, BusyLabels DEF Quiet
<1>3. \A r \in Resumer : pc'[r] = "idle"
    BY <1>1, ThreadKinds
<1>4. Exclusive'
    BY <1>1, <1>2, <1>3 DEF Exclusive, OneExecutor, Quiet
<1>5. Sound'
    BY <1>2 DEF Sound, Quiet
<1>6. Accounted'
  <2>1. ASSUME NEW s \in Step, db.step[s] = "running"
        PROVE  db.status \in Terminal \/ Recoverable
    <3>1. CASE Quiet
        BY <1>1, <2>1, <3>1, ExecutingIsBusy DEF IInv, Safe, Accounted, Quiet
    <3>2. CASE ~Quiet
      <4>1. PICK j \in Job : pc[j] \in Busy
          BY <3>2 DEF Quiet
      <4>2. db.status # "paused" /\ db.status \in RunStatus
          BY <4>1, BusyFacts DEF RecordType
      <4> QED BY <4>2 DEF RunStatus, Terminal, Recoverable
    <3> QED BY <3>1, <3>2
  <2> QED BY <1>1, <1>2, <2>1 DEF Accounted, Recoverable
<1> QED BY <1>1, <1>4, <1>5, <1>6 DEF IInv, Safe, Agrees, Readable, Kept, Whole, Keeps

\* The recovery at the start of the process writes the run's status, or nothing.
LEMMA RecoverySafe ==
    ASSUME IInv, server = "down", server' \in {"up", "recovering"},
           UNCHANGED <<pc, ctx, me, succeeded>>,
           db'.status # "completed" \/ db'.status = db.status,
           db'.status = "paused" <=> db.status = "paused",
           db'.token = db.token, db'.gate = db.gate, db'.step = db.step,
           server' = "recovering" => db'.status = "queued",
           db'.status \in Terminal \/ \A s \in Step : db.step[s] # "running"
    PROVE  Safe' /\ Keeps
<1>1. Quiet /\ \A r \in Resumer : pc[r] = "idle"
    BY ResumersIdle DEF IInv, Safe, Exclusive
<1>2. Quiet'
    BY <1>1 DEF Quiet
<1>3. Exclusive'
    BY <1>1, <1>2 DEF Exclusive, OneExecutor, Quiet
<1>4. Sound'
    BY <1>2 DEF Sound, Quiet
<1>5. Accounted'
    BY <1>2 DEF Accounted
<1>6. Agrees(db') /\ Kept(db', succeeded') /\ Whole(db')
    BY DEF IInv, Safe, Agrees, Readable, Kept, Whole
<1> QED BY <1>3, <1>4, <1>5, <1>6 DEF Safe, Keeps

LEMMA StartupSafe == ASSUME IInv, Startup PROVE Safe' /\ Keeps
<1>1. db \in RecordType(Job) /\ Readable(db)
    BY TypeParts DEF IInv, Typed, DataOK, Safe, Agrees
<1>2. CASE RecoverNothing
  <2>1. server = "down" /\ server' = "up" /\ UNCHANGED <<db, pc, ctx, me, succeeded>>
        /\ ~Recoverable
      BY <1>1, <1>2 DEF RecoverNothing, durable, locals, history
  <2>2. db.status \in Terminal \/ \A s \in Step : db.step[s] # "running"
      BY <2>1, ExecutingIsBusy DEF IInv, Safe, Exclusive, Accounted, Quiet
  <2> QED BY <2>1, <2>2, RecoverySafe
<1>3. CASE FailClosed
  <2>1. /\ server = "down" /\ server' = "up" /\ UNCHANGED <<pc, ctx, me, succeeded>>
        /\ Recoverable /\ db' = SetStatus(db, "failed")
      BY <1>3 DEF FailClosed, locals, history
  <2>2. /\ db'.status = "failed" /\ db'.token = db.token /\ db'.gate = db.gate
        /\ db'.step = db.step
      BY <1>1, <2>1 DEF SetStatus, RecordType
  <2> QED BY <2>1, <2>2, RecoverySafe DEF Recoverable, Terminal
<1>4. CASE Requeue
  <2>1. /\ server = "down" /\ server' = "recovering" /\ UNCHANGED <<pc, ctx, me, succeeded>>
        /\ Recoverable /\ db' = SetStatus(db, "queued")
        /\ \A s \in Step : db.step[s] # "running"
      BY <1>4 DEF Requeue, locals, history
  <2>2. /\ db'.status = "queued" /\ db'.token = db.token /\ db'.gate = db.gate
        /\ db'.step = db.step
      BY <1>1, <2>1 DEF SetStatus, RecordType
  <2> QED BY <2>1, <2>2, RecoverySafe DEF Recoverable
<1>5. CASE StartRecovered
  <2>1. /\ server = "recovering" /\ SpawnJob /\ server' = "up"
        /\ pc' = [pc EXCEPT ![spawned + 1] = "begin"] /\ UNCHANGED <<db, me, succeeded>>
      BY <1>5 DEF StartRecovered, durable, locals, history
  <2>2. Quiet /\ db.status = "queued" /\ \A r \in Resumer : pc[r] = "idle"
      BY <2>1, ResumersIdle DEF IInv, Safe, Exclusive
  <2>3. spawned + 1 \in Job /\ ThreadsOK
      BY <2>1, TypeParts, ConstantsAssumption DEF IInv, Typed, DataOK, Job, SpawnJob
  <2>4. /\ \A j \in Job : pc'[j] = IF j = spawned + 1 THEN "begin" ELSE pc[j]
        /\ \A r \in Resumer : pc'[r] = "idle"
      BY <2>1, <2>2, <2>3, ThreadKinds DEF ThreadsOK
  <2> QED BY <2>1, <2>2, <2>4, SpawnSafe
<1> QED BY <1>2, <1>3, <1>4, <1>5 DEF Startup

-----------------------------------------------------------------------------
(* The invariant, and what follows from it *)

LEMMA InitInv == Init => IInv
<1> SUFFICES ASSUME Init PROVE IInv
    OBVIOUS
<1>1. Typed /\ Spawned
    BY InitTyped
<1>2. /\ db = NewRecord /\ server = "up" /\ succeeded = {}
      /\ \A j \in Job : pc[j] = IF j = 1 THEN "begin" ELSE "off"
      /\ \A j \in Job : me[j].pos = 1
      /\ \A r \in Resumer : pc[r] = "idle"
  <2>1. /\ db = NewRecord /\ server = "up" /\ succeeded = {}
        /\ pc = [t \in Thread |-> IF t = 1 THEN "begin" ELSE IF t \in Job THEN "off" ELSE "idle"]
        /\ me = [t \in Thread |-> NewLocals] /\ 1 \in Job
      BY ConstantsAssumption DEF Init, Job
  <2> QED BY <2>1, ThreadKinds, NewLocalsTyped
<1>3. /\ db.status = "queued" /\ db.token = NoToken
      /\ \A s \in Step : db.step[s] = "queued"
    BY <1>2 DEF NewRecord
<1>4. Agrees(db) /\ Kept(db, succeeded) /\ Whole(db) /\ Accounted
    BY <1>2, <1>3 DEF Agrees, Readable, Kept, Whole, Accounted
<1>5. \A j \in Job : pc[j] \in Busy => j = 1 /\ pc[j] = "begin"
    BY <1>2, BusyLabels
<1>6. Exclusive
    BY <1>2, <1>5 DEF Exclusive, OneExecutor
<1>7. Sound
  <2>1. \A s \in Step : ~(s < 1)
      BY DEF Step
  <2> QED BY <1>2, <1>3, <1>5, <2>1 DEF Sound, SoundAt, StatusFits, Executing, CheckLabel
<1> QED BY <1>1, <1>4, <1>6, <1>7 DEF IInv, Safe

LEMMA NextInv == ASSUME Review, IInv, [Next]_vars PROVE IInv' /\ Keeps
<1>1. Typed' /\ Spawned'
    BY NextTyped DEF IInv
<1> SUFFICES Safe' /\ Keeps
    BY <1>1 DEF IInv
<1>2. ASSUME NEW j \in Job, RunJob(j) PROVE Safe' /\ Keeps
    BY <1>2, RunJobSafe
<1>3. \A c \in Canceller : FALSE
    BY DEF Review
<1>4. ASSUME NEW r \in Resumer, ResumeRead(r) \/ ResumeCall(r) PROVE Safe' /\ Keeps
    BY <1>4, ResumeCallSafe
<1>5. CASE Shutdown \/ Exit \/ Startup
  <2>1. CASE Shutdown
      BY <2>1, ShutdownSafe
  <2>2. CASE Exit
      BY <2>2, ExitSafe
  <2>3. CASE Startup
      BY <2>3, StartupSafe
  <2> QED BY <1>5, <2>1, <2>2, <2>3
<1>6. CASE UNCHANGED vars
  <2>1. UNCHANGED <<db, server, pc, ctx, me, succeeded>>
      BY <1>6 DEF vars, durable, control, locals, history
  <2>2. Exclusive' /\ Sound' /\ Accounted'
      BY <2>1 DEF IInv, Safe, Exclusive, OneExecutor, Quiet, Sound, Accounted, Recoverable
  <2>3. Agrees(db') /\ Kept(db', succeeded') /\ Whole(db') /\ Keeps
      BY <2>1 DEF IInv, Safe, Keeps
  <2> QED BY <2>2, <2>3 DEF Safe
<1> QED BY <1>2, <1>3, <1>4, <1>5, <1>6 DEF Next, Rest

LEMMA Inductive == ASSUME Review PROVE Spec => []IInv
<1>1. IInv /\ [Next]_vars => IInv'
    BY NextInv
<1> QED BY InitInv, <1>1, PTL DEF Spec

\* Resumed and recovered jobs replace earlier ones: no two of them ever execute
\* the steps of a reviewed run.
THEOREM ReviewedOneExecutor == ASSUME Review PROVE Spec => []OneExecutor
<1>1. IInv => OneExecutor
    BY DEF IInv, Safe, Exclusive
<1> QED BY <1>1, Inductive, PTL

\* A reviewed run that is paused can be resumed, whatever exits the process made.
THEOREM ReviewedPausedIsResumable == ASSUME Review PROVE Spec => []PausedIsResumable
<1>1. IInv => PausedIsResumable
  <2> SUFFICES ASSUME IInv, db.status = "paused"
               PROVE  /\ db.token # NoToken
                      /\ {s \in Step : db.step[s] = "paused"} = {db.gate}
                      /\ \A j \in Job : pc[j] \notin Busy
      BY DEF PausedIsResumable
  <2>1. db.token # NoToken
      BY DEF IInv, Safe, Agrees, Readable
  <2>2. db.gate \in Step
      BY <2>1 DEF IInv, Typed, Named
  <2>3. {s \in Step : db.step[s] = "paused"} = {db.gate}
      BY <2>1, <2>2 DEF IInv, Safe, Agrees
  <2> QED BY <2>1, <2>3, PausedIsQuiet DEF Quiet
<1> QED BY <1>1, Inductive, PTL

\* A reviewed run is marked completed only when every step was completed or skipped.
THEOREM ReviewedCompletedIsWhole == ASSUME Review PROVE Spec => []CompletedIsWhole
<1>1. IInv => CompletedIsWhole
    BY DEF IInv, Safe, Whole, CompletedIsWhole
<1> QED BY <1>1, Inductive, PTL

\* In a reviewed run no handler that has returned is invoked again: not after a
\* review, and not after an exit of the process that lost its result.
THEOREM ReviewedNoReplay == ASSUME Review PROVE Spec => NoReplay
<1>1. IInv => \A s \in succeeded : ~Invokes(s)
  <2> SUFFICES ASSUME IInv, NEW s \in succeeded, NEW j \in Job, pc[j] = "start", Step_(j) = s
               PROVE  FALSE
      BY DEF Invokes
  <2>1. SoundAt(db, succeeded, "start", ctx[j], me[j])
      BY BusyFacts, BusyLabels
  <2> QED BY <2>1 DEF SoundAt, Step_
<1>2. IInv /\ [Next]_vars => [\A s \in succeeded : ~Invokes(s)]_vars
    BY <1>1
<1> QED BY <1>2, Inductive, PTL DEF Spec, NoReplay

\* In a reviewed run a completed step stays completed.
THEOREM ReviewedCompletedIsFinal == ASSUME Review PROVE Spec => CompletedIsFinal
<1>1. IInv /\ [Next]_vars =>
        [\A s \in Step : db.step[s] = "completed" => db'.step[s] = "completed"]_vars
    BY NextInv DEF Keeps
<1> QED BY <1>1, Inductive, PTL DEF Spec, CompletedIsFinal

\* Both: what a reviewed run has done stays done.
THEOREM ReviewedDoneStaysDone == ASSUME Review PROVE Spec => DoneStaysDone
BY ReviewedNoReplay, ReviewedCompletedIsFinal DEF DoneStaysDone
=============================================================================
