---------------------- MODULE ExecutionLifecycleProofs ----------------------
(***************************************************************************)
(* Types are correct in ExecutionLifecycle for any plan, any number of     *)
(* jobs, cancel calls, resume calls and exits of the process.  A type is   *)
(* not inductive alone: that a job's position is a step of the plan where  *)
(* it uses it, and that whoever consumes a checkpoint has its gate, are    *)
(* part of the invariant (Typed), and so is that a job is off until it is  *)
(* started (Spawned).                                                      *)
(*                                                                         *)
(* The second part is about a plan without review gates: a cancellation    *)
(* that is on record stops the steps, and the terminal status is announced *)
(* (CancelInv).                                                            *)
(***************************************************************************)
EXTENDS ExecutionLifecycle, TLAPS

\* Labels of the evaluation of _cancelled, and where it can be when the loop of the
\* steps has ended.
CheckLabel == {"check", "checkStop", "cancelLoad", "cancelCommit", "cancelPub"}
AfterLoop  == CheckLabel \cup {"chat", "finish", "pubCompleted", "failRun", "pubFailed",
                               "returned", "raised"}

\* A job is at a step of the plan, or past the last one.
Placed ==
    \A j \in Job :
        /\ ctx[j] # "api"
        /\ \/ me[j].pos \in Step
           \/ me[j].pos = N + 1 /\ ctx[j] = "end" /\ pc[j] \in AfterLoop

\* Whoever holds a token holds the gate it belongs to.
Named ==
    /\ db.token # NoToken => db.gate \in Step
    /\ \A r \in Resumer :
          /\ pc[r] = "consumeLoad" => me[r].seen.token # NoToken
          /\ pc[r] = "consumeCommit" => me[r].seen.gate \in Step

\* The part of the invariant behind TypeOK that every action keeps.
Typed == TypeOK /\ Placed /\ Named

\* Jobs are started one after the other.
Spawned == \A j \in Job : j > spawned => pc[j] = "off" /\ me[j].pos = 1

-----------------------------------------------------------------------------
(* The operations on the record *)

LEMMA WritesTyped ==
    ASSUME NEW d \in RecordType(Job), NEW s \in Step
    PROVE  /\ \A st \in RunStatus : SetStatus(d, st) \in RecordType(Job)
           /\ \A st \in StepStatus : SetStep(d, s, st) \in RecordType(Job)
           /\ \A v \in BOOLEAN : CompleteStep(d, s, v) \in RecordType(Job)
           /\ \A o \in SUBSET Step : Complete(d, o) \in RecordType(Job)
           /\ \A j \in Job : PauseAt(d, s, j) \in RecordType(Job)
           /\ \A c \in BOOLEAN : Consume(d, s, c) \in RecordType(Job)
<1>1. \A st \in RunStatus : SetStatus(d, st) \in RecordType(Job)
    BY DEF RecordType, SetStatus
<1>2. \A st \in StepStatus : SetStep(d, s, st) \in RecordType(Job)
    BY DEF RecordType, SetStep
<1>3. \A v \in BOOLEAN : CompleteStep(d, s, v) \in RecordType(Job)
    BY DEF RecordType, CompleteStep, StepStatus
<1>4. \A o \in SUBSET Step : Complete(d, o) \in RecordType(Job)
    BY DEF RecordType, Complete, RunStatus
<1>5. \A j \in Job : PauseAt(d, s, j) \in RecordType(Job)
    BY DEF RecordType, PauseAt, RunStatus, StepStatus
<1>6. \A c \in BOOLEAN : Consume(d, s, c) \in RecordType(Job)
    BY DEF RecordType, Consume, CompleteStep, RunStatus, StepStatus
<1> QED BY <1>1, <1>2, <1>3, <1>4, <1>5, <1>6

LEMMA CancelsTyped ==
    ASSUME NEW d \in RecordType(Job)
    PROVE  /\ \A p \in [writes: BOOLEAN, clears: BOOLEAN] : Cancel(d, p) \in RecordType(Job)
           /\ RequestCancel(d) \in RecordType(Job)
           /\ CancelPlan(d) \in [writes: BOOLEAN, clears: BOOLEAN]
<1>1. \A e \in RecordType(Job) : DropCheckpoint(e) \in RecordType(Job)
    BY DEF RecordType, DropCheckpoint, StepStatus
<1>2. SetStatus(d, "cancelled") \in RecordType(Job)
    BY DEF RecordType, SetStatus, RunStatus
<1>3. [d EXCEPT !.cancelReq = TRUE] \in RecordType(Job)
    BY DEF RecordType
<1>4. \A p \in [writes: BOOLEAN, clears: BOOLEAN] : Cancel(d, p) \in RecordType(Job)
    BY <1>1, <1>2 DEF Cancel
<1>5. RequestCancel(d) \in RecordType(Job)
    BY <1>1, <1>3 DEF RequestCancel
<1> QED BY <1>4, <1>5 DEF CancelPlan

-----------------------------------------------------------------------------
(* How the threads move *)

Labels(t) == IF t \in Job THEN JobLabel ELSE IF t \in Canceller THEN ApiLabel ELSE ResumeLabel

\* The program counters, contexts and local variables have their types.
ThreadsOK ==
    /\ pc \in [Thread -> JobLabel \cup ApiLabel \cup ResumeLabel]
    /\ \A t \in Thread : pc[t] \in Labels(t)
    /\ ctx \in [Thread -> Context] /\ me \in [Thread -> LocalType]

\* Only thread t moves, to l in context c, with the local variables m.
Moves(t, l, c, m) ==
    /\ ThreadsOK' /\ pc'[t] = l /\ ctx'[t] = c /\ me'[t] = m
    /\ \A u \in Thread \ {t} : pc'[u] = pc[u] /\ ctx'[u] = ctx[u] /\ me'[u] = me[u]

LEMMA ThreadKinds ==
    /\ \A j \in Job : j \in Thread /\ j \notin Canceller /\ j \notin Resumer
                     /\ Labels(j) = JobLabel
    /\ \A c \in Canceller : c \in Thread /\ c \notin Job /\ c \notin Resumer
                            /\ Labels(c) = ApiLabel
    /\ \A r \in Resumer : r \in Thread /\ r \notin Job /\ r \notin Canceller
                          /\ Labels(r) = ResumeLabel
    BY ConstantsAssumption DEF Thread, Labels

LEMMA GotoMoves ==
    ASSUME ThreadsOK, NEW t \in Thread, NEW l \in Labels(t), Goto(t, l),
           NEW m \in LocalType, me' = [me EXCEPT ![t] = m]
    PROVE  Moves(t, l, ctx[t], m)
<1>1. /\ pc' = [pc EXCEPT ![t] = l] /\ ctx' = ctx
      /\ pc \in [Thread -> JobLabel \cup ApiLabel \cup ResumeLabel]
      /\ ctx \in [Thread -> Context] /\ me \in [Thread -> LocalType]
    BY DEF Goto, ThreadsOK
<1>2. l \in JobLabel \cup ApiLabel \cup ResumeLabel
    BY DEF Labels
<1>3. pc' \in [Thread -> JobLabel \cup ApiLabel \cup ResumeLabel]
    BY <1>1, <1>2
<1>4. pc'[t] = l /\ \A u \in Thread \ {t} : pc'[u] = pc[u]
    BY <1>1
<1>5. /\ me' \in [Thread -> LocalType] /\ me'[t] = m
      /\ \A u \in Thread \ {t} : me'[u] = me[u]
    BY <1>1
<1>6. ThreadsOK'
    BY <1>1, <1>3, <1>4, <1>5 DEF ThreadsOK, Labels
<1> QED BY <1>1, <1>4, <1>5, <1>6 DEF Moves

LEMMA EvaluateMoves ==
    ASSUME ThreadsOK, NEW t \in Thread, t \notin Resumer, NEW c \in Context, Evaluate(t, c),
           NEW m \in LocalType, me' = [me EXCEPT ![t] = m]
    PROVE  Moves(t, "check", c, m)
<1>1. /\ pc' = [pc EXCEPT ![t] = "check"] /\ ctx' = [ctx EXCEPT ![t] = c]
      /\ pc \in [Thread -> JobLabel \cup ApiLabel \cup ResumeLabel]
      /\ ctx \in [Thread -> Context] /\ me \in [Thread -> LocalType]
    BY DEF Evaluate, ThreadsOK
<1>2. "check" \in JobLabel /\ "check" \in ApiLabel
    BY DEF JobLabel, ApiLabel
<1>3. /\ pc' \in [Thread -> JobLabel \cup ApiLabel \cup ResumeLabel]
      /\ pc'[t] = "check" /\ \A u \in Thread \ {t} : pc'[u] = pc[u]
    BY <1>1, <1>2
<1>4. /\ ctx' \in [Thread -> Context] /\ ctx'[t] = c
      /\ \A u \in Thread \ {t} : ctx'[u] = ctx[u]
    BY <1>1
<1>5. /\ me' \in [Thread -> LocalType] /\ me'[t] = m
      /\ \A u \in Thread \ {t} : me'[u] = me[u]
    BY <1>1
<1>6. "check" \in Labels(t)
    BY <1>2 DEF Labels, Thread
<1>7. ThreadsOK'
    BY <1>1, <1>3, <1>4, <1>5, <1>6 DEF ThreadsOK, Labels
<1> QED BY <1>3, <1>4, <1>5, <1>7 DEF Moves

\* UNCHANGED me, as the other lemmas ask for it.
LEMMA MeSame ==
    ASSUME ThreadsOK, NEW t \in Thread, UNCHANGED me
    PROVE  me[t] \in LocalType /\ me' = [me EXCEPT ![t] = me[t]]
    BY DEF ThreadsOK

\* A job that moves is placed in the plan where it arrives.
PlacedAt(l, c, m) ==
    /\ c # "api"
    /\ m.pos \in Step \/ (m.pos = N + 1 /\ c = "end" /\ l \in AfterLoop)

LEMMA RaiseMoves ==
    ASSUME ThreadsOK, NEW t \in Thread, Raise(t),
           NEW m \in LocalType, me' = [me EXCEPT ![t] = m]
    PROVE  \/ /\ t \in Job /\ (pc[t] \in InTry \/ ctx[t] = "poll")
              /\ Moves(t, "check", "except", m)
           \/ /\ t \in Job /\ pc[t] \notin InTry /\ ctx[t] # "poll"
              /\ Moves(t, "raised", ctx[t], m)
           \/ t \in Canceller /\ Moves(t, "done", ctx[t], m)
           \/ t \in Resumer /\ Moves(t, "idle", ctx[t], m)
<1>1. CASE t \in Job /\ (pc[t] \in InTry \/ ctx[t] = "poll")
  <2>1. Evaluate(t, "except") /\ "except" \in Context /\ t \notin Resumer
      BY <1>1, ThreadKinds DEF Raise, Context
  <2>2. Moves(t, "check", "except", m)
      BY <2>1, EvaluateMoves
  <2> QED BY <1>1, <2>2
<1>2. CASE t \in Job /\ pc[t] \notin InTry /\ ctx[t] # "poll"
  <2>1. Goto(t, "raised") /\ "raised" \in Labels(t)
      BY <1>2, ThreadKinds DEF Raise, JobLabel
  <2> QED BY <1>2, <2>1, GotoMoves
<1>3. CASE t \in Canceller
  <2>1. Goto(t, "done") /\ "done" \in Labels(t)
      BY <1>3, ThreadKinds DEF Raise, ApiLabel
  <2> QED BY <1>3, <2>1, GotoMoves
<1>4. CASE t \in Resumer
  <2>1. Goto(t, "idle") /\ "idle" \in Labels(t)
      BY <1>4, ThreadKinds DEF Raise, ResumeLabel
  <2> QED BY <1>4, <2>1, GotoMoves
<1> QED BY <1>1, <1>2, <1>3, <1>4 DEF Thread

LEMMA AnswerMoves ==
    ASSUME ThreadsOK, NEW t \in Thread, t \notin Resumer, t \in Job => ctx[t] # "api",
           NEW b \in BOOLEAN, Answer(t, b),
           NEW m \in LocalType, me' = [me EXCEPT ![t] = m]
    PROVE  \/ t \in Canceller /\ Moves(t, "done", ctx[t], m)
           \/ t \in Job /\ ctx[t] = "poll" /\ b /\ Moves(t, "check", "except", m)
           \/ t \in Job /\ ctx[t] = "poll" /\ ~b /\ Moves(t, "exec", ctx[t], m)
           \/ t \in Job /\ ctx[t] # "poll" /\ b /\ Moves(t, "returned", ctx[t], m)
           \/ t \in Job /\ ctx[t] = "loop" /\ ~b /\ Moves(t, "read", ctx[t], m)
           \/ t \in Job /\ ctx[t] = "except" /\ ~b /\ Moves(t, "failStep", ctx[t], m)
           \/ /\ t \in Job /\ ctx[t] = "end" /\ ~b
              /\ Moves(t, "chat", ctx[t], m) \/ Moves(t, "finish", ctx[t], m)
<1>1. CASE t \in Canceller
  <2>1. Goto(t, "done") /\ "done" \in Labels(t)
      BY <1>1, ThreadKinds DEF Answer, ApiLabel
  <2> QED BY <1>1, <2>1, GotoMoves
<1>2. CASE t \in Job
  <2>1. Labels(t) = JobLabel /\ t \notin Canceller /\ ctx[t] \in {"loop", "poll", "except", "end"}
      BY <1>2, ThreadKinds DEF ThreadsOK, Context
  <2>2. CASE ctx[t] = "poll" /\ b
    <3>1. Evaluate(t, "except") /\ "except" \in Context
        BY <2>1, <2>2 DEF Answer, Context
    <3> QED BY <1>2, <2>2, <3>1, EvaluateMoves
  <2>3. CASE ctx[t] = "poll" /\ ~b
    <3>1. Goto(t, "exec") /\ "exec" \in Labels(t)
        BY <2>1, <2>3 DEF Answer, JobLabel
    <3> QED BY <1>2, <2>3, <3>1, GotoMoves
  <2>4. CASE ctx[t] # "poll" /\ b
    <3>1. Goto(t, "returned") /\ "returned" \in Labels(t)
        BY <2>1, <2>4 DEF Answer, JobLabel
    <3> QED BY <1>2, <2>4, <3>1, GotoMoves
  <2>5. CASE ctx[t] = "loop" /\ ~b
    <3>1. Goto(t, "read") /\ "read" \in Labels(t)
        BY <2>1, <2>5 DEF Answer, JobLabel
    <3> QED BY <1>2, <2>5, <3>1, GotoMoves
  <2>6. CASE ctx[t] = "except" /\ ~b
    <3>1. Goto(t, "failStep") /\ "failStep" \in Labels(t)
        BY <2>1, <2>6 DEF Answer, JobLabel
    <3> QED BY <1>2, <2>6, <3>1, GotoMoves
  <2>7. CASE ctx[t] = "end" /\ ~b
    <3>1. /\ Goto(t, "chat") \/ Goto(t, "finish")
          /\ "chat" \in Labels(t) /\ "finish" \in Labels(t)
        BY <2>1, <2>7 DEF Answer, JobLabel
    <3> QED BY <1>2, <2>7, <3>1, GotoMoves
  <2> QED BY <2>1, <2>2, <2>3, <2>4, <2>5, <2>6, <2>7
<1> QED BY <1>1, <1>2 DEF Thread

-----------------------------------------------------------------------------
(* Types *)

\* The conjuncts of TypeOK that are not about threads.
DataOK ==
    /\ db \in RecordType(Job) /\ log \in Seq(EventKind) /\ chat \in Nat
    /\ server \in {"up", "stopping", "down", "recovering"} /\ crashes \in 0..MaxCrash
    /\ job \in [id: Job \cup {NoJob}, status: JobStatus, stop: BOOLEAN]
    /\ spawned \in 0..MaxJobs
    /\ succeeded \subseteq Step /\ late \in 0..2

LEMMA TypeParts == TypeOK <=> ThreadsOK /\ DataOK
    BY DEF TypeOK, ThreadsOK, DataOK, Labels

\* A cancel call or a job moves.
LEMMA MoveTyped ==
    ASSUME Typed, NEW t \in Thread, t \notin Resumer, NEW l, NEW c, NEW m, Moves(t, l, c, m),
           t \in Job => PlacedAt(l, c, m),
           DataOK', db'.token # NoToken => db'.gate \in Step
    PROVE  Typed'
<1>1. TypeOK'
    BY TypeParts DEF Moves, ThreadsOK, DataOK, TypeOK, Labels
<1>2. Placed'
  <2> SUFFICES ASSUME NEW j \in Job
               PROVE  /\ ctx'[j] # "api"
                      /\ \/ me'[j].pos \in Step
                         \/ me'[j].pos = N + 1 /\ ctx'[j] = "end" /\ pc'[j] \in AfterLoop
      BY DEF Placed
  <2>1. CASE j = t
      BY <2>1 DEF Moves, PlacedAt
  <2>2. CASE j # t
      BY <2>2, ThreadKinds DEF Moves, Typed, Placed
  <2> QED BY <2>1, <2>2
<1>3. Named'
  <2>1. \A r \in Resumer : r # t /\ pc'[r] = pc[r] /\ me'[r] = me[r]
      BY ThreadKinds DEF Moves
  <2> QED BY <2>1 DEF Typed, Named
<1> QED BY <1>1, <1>2, <1>3 DEF Typed

\* Moves of a job or a cancel call that leave it where it is in the plan.
LEMMA RaiseTyped ==
    ASSUME Typed, NEW t \in Thread, t \notin Resumer, Raise(t),
           NEW m \in LocalType, me' = [me EXCEPT ![t] = m], m.pos = me[t].pos,
           DataOK', db'.token # NoToken => db'.gate \in Step
    PROVE  Typed'
<1>1. ThreadsOK
    BY TypeParts DEF Typed
<1>2. t \in Job => PlacedAt("raised", ctx[t], m)
    BY DEF Typed, Placed, PlacedAt, AfterLoop
<1>3. t \in Job /\ (pc[t] \in InTry \/ ctx[t] = "poll") => PlacedAt("check", "except", m)
    BY DEF Typed, Placed, PlacedAt, AfterLoop, InTry, CheckLabel
<1>4. t \in Canceller => t \notin Job
    BY ThreadKinds
<1> QED BY <1>1, <1>2, <1>3, <1>4, RaiseMoves, MoveTyped

LEMMA GotoTyped ==
    ASSUME Typed, NEW t \in Thread, t \notin Resumer, NEW l \in Labels(t), Goto(t, l),
           t \in Job => l \in AfterLoop \/ pc[t] \notin AfterLoop \/ ctx[t] # "end",
           NEW m \in LocalType, me' = [me EXCEPT ![t] = m], m.pos = me[t].pos,
           DataOK', db'.token # NoToken => db'.gate \in Step
    PROVE  Typed'
<1>1. ThreadsOK
    BY TypeParts DEF Typed
<1>2. t \in Job => PlacedAt(l, ctx[t], m)
    BY DEF Typed, Placed, PlacedAt
<1> QED BY <1>1, <1>2, GotoMoves, MoveTyped

LEMMA EvaluateTyped ==
    ASSUME Typed, NEW t \in Thread, t \notin Resumer, NEW c \in Context, Evaluate(t, c),
           NEW m \in LocalType, me' = [me EXCEPT ![t] = m],
           t \in Job => PlacedAt("check", c, m),
           DataOK', db'.token # NoToken => db'.gate \in Step
    PROVE  Typed'
    BY TypeParts, EvaluateMoves, MoveTyped DEF Typed

LEMMA AnswerTyped ==
    ASSUME Typed, NEW t \in Thread, t \notin Resumer, NEW b \in BOOLEAN, Answer(t, b),
           NEW m \in LocalType, me' = [me EXCEPT ![t] = m], m.pos = me[t].pos,
           DataOK', db'.token # NoToken => db'.gate \in Step
    PROVE  Typed'
<1>1. ThreadsOK /\ (t \in Job => ctx[t] # "api")
    BY TypeParts DEF Typed, Placed
<1>2. t \in Canceller => t \notin Job
    BY ThreadKinds
<1>3. t \in Job =>
        /\ PlacedAt("returned", ctx[t], m) /\ PlacedAt("chat", ctx[t], m)
        /\ PlacedAt("finish", ctx[t], m)
    BY DEF Typed, Placed, PlacedAt, AfterLoop
<1>4. t \in Job /\ ctx[t] # "end" =>
        /\ PlacedAt("check", "except", m) /\ PlacedAt("exec", ctx[t], m)
        /\ PlacedAt("read", ctx[t], m) /\ PlacedAt("failStep", ctx[t], m)
    BY DEF Typed, Placed, PlacedAt
<1> QED BY <1>1, <1>2, <1>3, <1>4, AnswerMoves, MoveTyped

LEMMA CommitTyped ==
    ASSUME Typed, NEW t \in Thread, t \notin Resumer, NEW d \in RecordType(Job),
           NEW l \in Labels(t), CommitGoto(t, d, l),
           t \in Job => l \in AfterLoop \/ pc[t] \notin AfterLoop \/ ctx[t] # "end",
           d.token # NoToken => d.gate \in Step,
           UNCHANGED <<log, chat, control, me, succeeded>>, late' \in 0..2
    PROVE  Typed'
<1>1. db' = d
    BY DEF CommitGoto
<1>2. DataOK'
    BY <1>1, TypeParts DEF DataOK, Typed, control
<1>3. me[t] \in LocalType /\ me' = [me EXCEPT ![t] = me[t]]
    BY TypeParts, MeSame DEF Typed
<1>4. CASE Readable(d)
    BY <1>1, <1>2, <1>3, <1>4, GotoTyped DEF CommitGoto
<1>5. CASE ~Readable(d)
    BY <1>1, <1>2, <1>3, <1>5, RaiseTyped DEF CommitGoto
<1> QED BY <1>4, <1>5

\* What an event or an unchanged record means for the types.
LEMMA SameTyped ==
    ASSUME Typed, UNCHANGED <<db, chat, control, succeeded>>, late' = late,
           log' = log \/ \E kind \in EventKind : Publish(kind)
    PROVE  DataOK' /\ (db'.token # NoToken => db'.gate \in Step)
<1>1. log' \in Seq(EventKind)
    BY TypeParts DEF DataOK, Typed, Publish
<1> QED BY <1>1, TypeParts DEF DataOK, Typed, Named, control

-----------------------------------------------------------------------------
(* _cancelled keeps the types *)

LEMMA CheckRecordTyped == ASSUME Typed, NEW t \in Thread, CheckRecord(t) PROVE Typed'
<1>1. /\ pc[t] = "check" /\ ThreadsOK /\ DataOK
      /\ UNCHANGED <<durable, control, history>>
    BY TypeParts DEF CheckRecord, Typed
<1>2. t \notin Resumer
    BY <1>1, ThreadKinds DEF ThreadsOK, ResumeLabel
<1>3. DataOK' /\ (db'.token # NoToken => db'.gate \in Step)
    BY <1>1, SameTyped DEF durable, history
<1>4. CASE ~Readable(db)
  <2>1. Raise(t) /\ UNCHANGED me
      BY <1>4 DEF CheckRecord
  <2> QED BY <1>1, <1>2, <1>3, <2>1, MeSame, RaiseTyped
<1>5. CASE Readable(db)
  <2> DEFINE m == [me[t] EXCEPT !.snap = db.status]
  <2>1. m \in LocalType /\ m.pos = me[t].pos
    <3>1. me[t] \in LocalType /\ db.status \in RunStatus
        BY <1>1 DEF ThreadsOK, DataOK, RecordType
    <3> QED BY <3>1 DEF LocalType
  <2>2. me' = [me EXCEPT ![t] = m]
      BY <1>5 DEF CheckRecord
  <2>3. \/ Answer(t, TRUE) \/ Goto(t, "cancelLoad") \/ Goto(t, "checkStop")
      BY <1>5 DEF CheckRecord, Cancelling
  <2>4. /\ "cancelLoad" \in Labels(t) /\ "checkStop" \in Labels(t)
        /\ "cancelLoad" \in AfterLoop /\ "checkStop" \in AfterLoop
      BY <1>2 DEF Thread, Labels, JobLabel, ApiLabel, AfterLoop, CheckLabel
  <2> HIDE DEF m
  <2> QED BY <1>2, <1>3, <2>1, <2>2, <2>3, <2>4, GotoTyped, AnswerTyped
<1> QED BY <1>4, <1>5

LEMMA CheckStopTyped == ASSUME Typed, NEW t \in Thread, CheckStop(t) PROVE Typed'
<1>1. /\ pc[t] = "checkStop" /\ ThreadsOK /\ UNCHANGED <<durable, control, me, history>>
      /\ Answer(t, TRUE) \/ Answer(t, FALSE) \/ Goto(t, "cancelLoad")
    BY TypeParts DEF CheckStop, Cancelling, Typed
<1>2. t \notin Resumer
    BY <1>1, ThreadKinds DEF ThreadsOK, ResumeLabel
<1>3. DataOK' /\ (db'.token # NoToken => db'.gate \in Step)
    BY <1>1, SameTyped DEF durable, history
<1>4. "cancelLoad" \in Labels(t) /\ "cancelLoad" \in AfterLoop
    BY <1>2 DEF Thread, Labels, JobLabel, ApiLabel, AfterLoop, CheckLabel
<1> QED BY <1>1, <1>2, <1>3, <1>4, MeSame, GotoTyped, AnswerTyped

LEMMA CancelLoadTyped == ASSUME Typed, NEW t \in Thread, CancelLoad(t) PROVE Typed'
<1> DEFINE m == [me[t] EXCEPT !.plan = CancelPlan(db)]
<1>1. /\ pc[t] = "cancelLoad" /\ ThreadsOK /\ DataOK /\ me' = [me EXCEPT ![t] = m]
      /\ UNCHANGED <<durable, control, history>> /\ Goto(t, "cancelCommit")
    BY TypeParts DEF CancelLoad, Typed
<1>2. t \notin Resumer
    BY <1>1, ThreadKinds DEF ThreadsOK, ResumeLabel
<1>3. DataOK' /\ (db'.token # NoToken => db'.gate \in Step)
    BY <1>1, SameTyped DEF durable, history
<1>4. "cancelCommit" \in Labels(t) /\ "cancelCommit" \in AfterLoop
    BY <1>2 DEF Thread, Labels, JobLabel, ApiLabel, AfterLoop, CheckLabel
<1>5. m \in LocalType /\ m.pos = me[t].pos
  <2>1. me[t] \in LocalType /\ db \in RecordType(Job)
      BY <1>1 DEF ThreadsOK, DataOK
  <2>2. CancelPlan(db) \in [writes: BOOLEAN, clears: BOOLEAN]
      BY <2>1, CancelsTyped
  <2> QED BY <2>1, <2>2 DEF LocalType
<1> HIDE DEF m
<1> QED BY <1>1, <1>2, <1>3, <1>4, <1>5, GotoTyped

LEMMA CancelCommitTyped == ASSUME Typed, NEW t \in Thread, CancelCommit(t) PROVE Typed'
<1>1. /\ pc[t] = "cancelCommit" /\ ThreadsOK /\ DataOK
      /\ UNCHANGED <<log, chat, control, me, history>>
      /\ CommitGoto(t, Cancel(db, me[t].plan), "cancelPub")
    BY TypeParts DEF CancelCommit, Typed
<1>2. t \notin Resumer
    BY <1>1, ThreadKinds DEF ThreadsOK, ResumeLabel
<1>3. Cancel(db, me[t].plan) \in RecordType(Job)
    BY <1>1, CancelsTyped DEF ThreadsOK, DataOK, LocalType
<1>4. Cancel(db, me[t].plan).token # NoToken => Cancel(db, me[t].plan).gate \in Step
    BY <1>1 DEF Typed, Named, DataOK, RecordType, Cancel, SetStatus, DropCheckpoint
<1>5. "cancelPub" \in Labels(t) /\ "cancelPub" \in AfterLoop
    BY <1>2 DEF Thread, Labels, JobLabel, ApiLabel, AfterLoop, CheckLabel
<1>6. late' \in 0..2 /\ UNCHANGED succeeded
    BY <1>1 DEF DataOK, history
<1> QED BY <1>1, <1>2, <1>3, <1>4, <1>5, <1>6, CommitTyped

LEMMA CancelPublishTyped == ASSUME Typed, NEW t \in Thread, CancelPublish(t) PROVE Typed'
<1>1. /\ pc[t] = "cancelPub" /\ ThreadsOK /\ UNCHANGED <<db, chat, control, me, history>>
      /\ Publish("cancelled") /\ Answer(t, TRUE)
    BY TypeParts DEF CancelPublish, Typed
<1>2. t \notin Resumer
    BY <1>1, ThreadKinds DEF ThreadsOK, ResumeLabel
<1>3. DataOK' /\ (db'.token # NoToken => db'.gate \in Step)
    BY <1>1, SameTyped DEF history, EventKind
<1> QED BY <1>1, <1>2, <1>3, MeSame, AnswerTyped

LEMMA CancelledTyped == ASSUME Typed, NEW t \in Thread, Cancelled(t) PROVE Typed'
    BY CheckRecordTyped, CheckStopTyped, CancelLoadTyped, CancelCommitTyped, CancelPublishTyped
    DEF Cancelled

-----------------------------------------------------------------------------
(* The actions of a job keep the types *)

LEMMA JobFacts ==
    ASSUME Typed, NEW j \in Job
    PROVE  /\ j \in Thread /\ j \notin Resumer /\ Labels(j) = JobLabel
           /\ ThreadsOK /\ DataOK /\ ctx[j] \in {"loop", "poll", "except", "end"}
           /\ me[j] \in LocalType
           /\ pc[j] \notin AfterLoop => me[j].pos \in Step
<1>1. ThreadsOK /\ DataOK /\ j \in Thread /\ j \notin Resumer /\ Labels(j) = JobLabel
    BY TypeParts, ThreadKinds DEF Typed
<1>2. ctx[j] \in Context /\ ctx[j] # "api" /\ me[j] \in LocalType
    BY <1>1 DEF ThreadsOK, Typed, Placed
<1>3. pc[j] \notin AfterLoop => me[j].pos \in Step
    BY DEF Typed, Placed
<1> QED BY <1>1, <1>2, <1>3 DEF Context

\* An action that only moves job j, and may publish an event.
LEMMA StepTyped ==
    ASSUME Typed, NEW j \in Job, NEW l \in JobLabel, Goto(j, l),
           l \in AfterLoop \/ pc[j] \notin AfterLoop,
           log' = log \/ \E kind \in EventKind : Publish(kind),
           UNCHANGED <<db, chat, control, me, history>>
    PROVE  Typed'
<1>1. /\ j \in Thread /\ j \notin Resumer /\ l \in Labels(j)
      /\ me[j] \in LocalType /\ me' = [me EXCEPT ![j] = me[j]]
    BY JobFacts, MeSame
<1>2. DataOK' /\ (db'.token # NoToken => db'.gate \in Step)
    BY SameTyped DEF history
<1> QED BY <1>1, <1>2, GotoTyped

\* An action in which a repository call raises and nothing else happens.
LEMMA FailedCallTyped ==
    ASSUME Typed, NEW j \in Job, Raise(j), UNCHANGED <<durable, control, me, history>>
    PROVE  Typed'
<1>1. /\ j \in Thread /\ j \notin Resumer
      /\ me[j] \in LocalType /\ me' = [me EXCEPT ![j] = me[j]]
    BY JobFacts, MeSame
<1>2. DataOK' /\ (db'.token # NoToken => db'.gate \in Step)
    BY SameTyped DEF history, durable
<1> QED BY <1>1, <1>2, RaiseTyped

\* An action that commits d and moves job j.
LEMMA WriteTyped ==
    ASSUME Typed, NEW j \in Job, NEW l \in JobLabel, NEW d \in RecordType(Job),
           CommitGoto(j, d, l), l \in AfterLoop \/ pc[j] \notin AfterLoop,
           d.token # NoToken => d.gate \in Step,
           UNCHANGED <<log, chat, control, me, succeeded>>, late' \in 0..2
    PROVE  Typed'
    BY JobFacts, CommitTyped

LEMMA BeginTyped == ASSUME Typed, NEW j \in Job, Begin(j) PROVE Typed'
<1>1. /\ pc[j] = "begin" /\ UNCHANGED <<durable, control, me, history>>
      /\ Raise(j) \/ Goto(j, "mark") \/ Goto(j, "load")
    BY DEF Begin
<1>2. "begin" \notin AfterLoop /\ "mark" \in JobLabel /\ "load" \in JobLabel
    BY DEF AfterLoop, CheckLabel, JobLabel
<1> QED BY <1>1, <1>2, StepTyped, FailedCallTyped DEF durable

LEMMA MarkRunningTyped == ASSUME Typed, NEW j \in Job, MarkRunning(j) PROVE Typed'
<1> DEFINE d == SetStatus(db, "running")
<1>1. /\ pc[j] = "mark" /\ CommitGoto(j, d, "pubStarted")
      /\ UNCHANGED <<log, chat, control, me, history>>
    BY DEF MarkRunning
<1>2. d \in RecordType(Job) /\ late' \in 0..2 /\ UNCHANGED succeeded
  <2>1. DataOK
      BY JobFacts
  <2>2. d \in RecordType(Job)
      BY <2>1 DEF DataOK, RunStatus, RecordType, SetStatus
  <2> QED BY <1>1, <2>1, <2>2 DEF DataOK, history
<1>3. d.token # NoToken => d.gate \in Step
    BY JobFacts DEF Typed, Named, DataOK, RecordType, SetStatus
<1>4. "mark" \notin AfterLoop /\ "pubStarted" \in JobLabel
    BY DEF AfterLoop, CheckLabel, JobLabel
<1> HIDE DEF d
<1> QED BY <1>1, <1>2, <1>3, <1>4, WriteTyped

LEMMA PublishStartedTyped == ASSUME Typed, NEW j \in Job, PublishStarted(j) PROVE Typed'
<1>1. /\ pc[j] = "pubStarted" /\ Goto(j, "load") /\ Publish("started")
      /\ UNCHANGED <<db, chat, control, me, history>>
    BY DEF PublishStarted
<1>2. "pubStarted" \notin AfterLoop /\ "load" \in JobLabel /\ "started" \in EventKind
    BY DEF AfterLoop, CheckLabel, JobLabel, EventKind
<1> QED BY <1>1, <1>2, StepTyped

LEMMA LoadOutputsTyped == ASSUME Typed, NEW j \in Job, LoadOutputs(j) PROVE Typed'
<1>1. pc[j] = "load" /\ UNCHANGED <<durable, control, history>>
    BY DEF LoadOutputs
<1>2. CASE ~Readable(db)
    BY <1>1, <1>2, FailedCallTyped DEF LoadOutputs
<1>3. CASE Readable(db)
  <2> DEFINE m == [me[j] EXCEPT !.have = {s \in db.value : db.step[s] = "completed"},
                                !.pay = db.outputs]
  <2>1. me' = [me EXCEPT ![j] = m] /\ Evaluate(j, "loop")
      BY <1>3 DEF LoadOutputs
  <2>2. me[j] \in LocalType /\ me[j].pos \in Step
      BY <1>1, JobFacts DEF AfterLoop, CheckLabel
  <2>3. db.value \subseteq Step /\ db.outputs \subseteq Step
      BY JobFacts DEF DataOK, RecordType
  <2>4. m \in LocalType /\ m.pos \in Step
      BY <2>2, <2>3 DEF LocalType
  <2>5. DataOK' /\ (db'.token # NoToken => db'.gate \in Step)
      BY <1>1, SameTyped DEF durable, history
  <2> HIDE DEF m
  <2> QED BY <2>1, <2>4, <2>5, JobFacts, EvaluateTyped DEF PlacedAt, Context
<1> QED BY <1>2, <1>3

\* The next iteration, or the end of the loop.
LEMMA AdvanceTyped ==
    ASSUME Typed, NEW j \in Job, me[j].pos \in Step, Advance(j),
           DataOK', db'.token # NoToken => db'.gate \in Step
    PROVE  Typed'
<1> DEFINE c == IF me[j].pos = N THEN "end" ELSE "loop"
<1> DEFINE m == [me[j] EXCEPT !.pos = @ + 1]
<1>1. me' = [me EXCEPT ![j] = m] /\ Evaluate(j, c)
    BY DEF Advance
<1>2. me[j] \in LocalType /\ me[j].pos \in Nat
    BY JobFacts DEF Step
<1>3. m \in LocalType /\ m.pos = me[j].pos + 1
    BY <1>2 DEF LocalType
<1>4. c \in Context /\ c # "api"
    BY DEF Context
<1>5. m.pos \in Step \/ (m.pos = N + 1 /\ c = "end")
    BY <1>3, NAssumption DEF Step
<1>6. PlacedAt("check", c, m)
    BY <1>4, <1>5 DEF PlacedAt, AfterLoop, CheckLabel
<1> HIDE DEF m, c
<1> QED BY <1>1, <1>3, <1>4, <1>6, JobFacts, EvaluateTyped

LEMMA ReadStepTyped == ASSUME Typed, NEW j \in Job, ReadStep(j) PROVE Typed'
<1>1. pc[j] = "read" /\ UNCHANGED <<durable, control, history>>
    BY DEF ReadStep
<1>2. me[j].pos \in Step /\ "read" \notin AfterLoop
    BY <1>1, JobFacts DEF AfterLoop, CheckLabel
<1>3. CASE Raise(j) /\ UNCHANGED me
    BY <1>1, <1>3, FailedCallTyped
<1>4. CASE Advance(j)
    BY <1>1, <1>2, <1>4, AdvanceTyped, SameTyped DEF durable, history
<1>5. CASE (Goto(j, "skip") \/ Goto(j, "start")) /\ UNCHANGED me
  <2>1. "skip" \in JobLabel /\ "start" \in JobLabel
      BY DEF JobLabel
  <2> QED BY <1>1, <1>2, <1>5, <2>1, StepTyped DEF durable
<1> QED BY <1>3, <1>4, <1>5 DEF ReadStep

\* What a write of the record means for the types.
LEMMA WrittenTyped ==
    ASSUME Typed, NEW d \in RecordType(Job), db' = d, d.token = db.token, d.gate = db.gate,
           UNCHANGED <<log, chat, control, history>>
    PROVE  DataOK' /\ (db'.token # NoToken => db'.gate \in Step)
<1>1. DataOK /\ (db.token # NoToken => db.gate \in Step)
    BY TypeParts DEF Typed, Named
<1> QED BY <1>1 DEF DataOK, control, history

LEMMA StepWrites ==
    ASSUME Typed, NEW s \in Step
    PROVE  /\ \A st \in StepStatus :
                 /\ SetStep(db, s, st) \in RecordType(Job)
                 /\ SetStep(db, s, st).token = db.token /\ SetStep(db, s, st).gate = db.gate
           /\ \A v \in BOOLEAN :
                 /\ CompleteStep(db, s, v) \in RecordType(Job)
                 /\ CompleteStep(db, s, v).token = db.token
                 /\ CompleteStep(db, s, v).gate = db.gate
<1>1. db \in RecordType(Job)
    BY TypeParts DEF Typed, DataOK
<1>2. \A st \in StepStatus :
        SetStep(db, s, st).token = db.token /\ SetStep(db, s, st).gate = db.gate
    BY <1>1 DEF RecordType, SetStep
<1>3. \A v \in BOOLEAN :
        CompleteStep(db, s, v).token = db.token /\ CompleteStep(db, s, v).gate = db.gate
    BY <1>1 DEF RecordType, CompleteStep
<1> QED BY <1>1, <1>2, <1>3, WritesTyped

LEMMA SkipStepTyped == ASSUME Typed, NEW j \in Job, SkipStep(j) PROVE Typed'
<1> DEFINE d == SetStep(db, me[j].pos, "skipped")
<1>1. /\ pc[j] = "skip" /\ db' = d /\ UNCHANGED <<log, chat, control, history>>
      /\ Advance(j) \/ (Raise(j) /\ UNCHANGED me)
    BY DEF SkipStep, Step_
<1>2. me[j].pos \in Step
    BY <1>1, JobFacts DEF AfterLoop, CheckLabel
<1>3. d \in RecordType(Job) /\ d.token = db.token /\ d.gate = db.gate
    BY <1>2, StepWrites DEF StepStatus
<1> HIDE DEF d
<1>4. DataOK' /\ (db'.token # NoToken => db'.gate \in Step)
    BY <1>1, <1>3, WrittenTyped
<1> QED BY <1>1, <1>2, <1>4, AdvanceTyped, RaiseTyped, MeSame, JobFacts

LEMMA StartStepTyped == ASSUME Typed, NEW j \in Job, StartStep(j) PROVE Typed'
<1> DEFINE d == SetStep(db, me[j].pos, "running")
<1>1. /\ pc[j] = "start" /\ CommitGoto(j, d, "exec")
      /\ UNCHANGED <<log, chat, control, me, succeeded>>
      /\ late' = IF db.cancelReq /\ late < 2 THEN late + 1 ELSE late
    BY DEF StartStep, Step_
<1>2. me[j].pos \in Step /\ "start" \notin AfterLoop /\ "exec" \in JobLabel
    BY <1>1, JobFacts DEF AfterLoop, CheckLabel, JobLabel
<1>3. /\ d \in RecordType(Job) /\ d.token = db.token /\ d.gate = db.gate
      /\ db.token # NoToken => db.gate \in Step
    BY <1>2, StepWrites DEF StepStatus, Typed, Named
<1>4. late' \in 0..2
    BY <1>1, JobFacts DEF DataOK
<1> HIDE DEF d
<1> QED BY <1>1, <1>2, <1>3, <1>4, WriteTyped

LEMMA HandlerPollsTyped == ASSUME Typed, NEW j \in Job, HandlerPolls(j) PROVE Typed'
<1>1. pc[j] = "exec" /\ Evaluate(j, "poll") /\ UNCHANGED <<durable, control, me, history>>
    BY DEF HandlerPolls
<1>2. me[j].pos \in Step /\ me[j] \in LocalType /\ me' = [me EXCEPT ![j] = me[j]]
    BY <1>1, JobFacts, MeSame DEF AfterLoop, CheckLabel
<1>3. DataOK' /\ (db'.token # NoToken => db'.gate \in Step)
    BY <1>1, SameTyped DEF durable, history
<1>4. "poll" \in Context /\ PlacedAt("check", "poll", me[j])
    BY <1>2 DEF Context, PlacedAt
<1> QED BY <1>1, <1>2, <1>3, <1>4, EvaluateTyped, JobFacts

LEMMA HandlerReturnsTyped == ASSUME Typed, NEW j \in Job, HandlerReturns(j) PROVE Typed'
<1>1. /\ pc[j] = "exec" /\ UNCHANGED <<durable, control>> /\ late' = late
      /\ succeeded' = succeeded \/ succeeded' = succeeded \cup {me[j].pos}
    BY DEF HandlerReturns, HandlerSucceeds, HandlerPauses, HandlerRaises, Step_, history
<1>2. me[j].pos \in Step /\ "exec" \notin AfterLoop
    BY <1>1, JobFacts DEF AfterLoop, CheckLabel
<1>3. DataOK' /\ (db'.token # NoToken => db'.gate \in Step)
  <2>1. succeeded' \subseteq Step
      BY <1>1, <1>2, JobFacts DEF DataOK
  <2> QED BY <1>1, <2>1, JobFacts DEF DataOK, durable, control, Typed, Named
<1>4. CASE HandlerSucceeds(j)
  <2>1. PICK v \in BOOLEAN :
          me' = [me EXCEPT ![j].have = IF v THEN @ \cup {me[j].pos} ELSE @ \ {me[j].pos},
                           ![j].pay = @ \cup ({me[j].pos} \cap Terminals)]
      BY <1>4 DEF HandlerSucceeds, Step_
  <2> DEFINE h == IF v THEN me[j].have \cup {me[j].pos} ELSE me[j].have \ {me[j].pos}
  <2> DEFINE p == me[j].pay \cup ({me[j].pos} \cap Terminals)
  <2> DEFINE m == [me[j] EXCEPT !.have = h, !.pay = p]
  <2>2. me[j] \in LocalType /\ j \in Thread /\ me \in [Thread -> LocalType]
      BY JobFacts DEF ThreadsOK
  <2>3. h \subseteq Step /\ p \subseteq Step
      BY <1>2, <2>2 DEF LocalType
  <2>4. me' = [me EXCEPT ![j] = m]
      BY <2>1, <2>2 DEF LocalType
  <2> HIDE DEF h, p
  <2>5. m \in LocalType /\ m.pos = me[j].pos
      BY <2>2, <2>3 DEF LocalType
  <2>6. Goto(j, "complete") /\ "complete" \in JobLabel
      BY <1>4 DEF HandlerSucceeds, JobLabel
  <2> HIDE DEF m
  <2> QED BY <1>1, <1>2, <1>3, <2>4, <2>5, <2>6, JobFacts, GotoTyped
<1>5. CASE HandlerPauses(j)
  <2>1. Goto(j, "pause") /\ "pause" \in JobLabel /\ UNCHANGED me
      BY <1>5 DEF HandlerPauses, JobLabel
  <2> QED BY <1>1, <1>2, <1>3, <2>1, JobFacts, MeSame, GotoTyped
<1>6. CASE HandlerRaises(j)
  <2>1. Evaluate(j, "except") /\ UNCHANGED me /\ "except" \in Context
      BY <1>6 DEF HandlerRaises, Context
  <2>2. PlacedAt("check", "except", me[j])
      BY <1>2 DEF PlacedAt
  <2> QED BY <1>3, <2>1, <2>2, JobFacts, MeSame, EvaluateTyped
<1> QED BY <1>4, <1>5, <1>6 DEF HandlerReturns

LEMMA FinishStepTyped == ASSUME Typed, NEW j \in Job, FinishStep(j) PROVE Typed'
<1> DEFINE d == CompleteStep(db, me[j].pos, me[j].pos \in me[j].have)
<1>1. /\ pc[j] = "complete" /\ db' = d /\ UNCHANGED <<log, chat, control, history>>
      /\ Advance(j) \/ (Raise(j) /\ UNCHANGED me)
    BY DEF FinishStep, Step_
<1>2. me[j].pos \in Step
    BY <1>1, JobFacts DEF AfterLoop, CheckLabel
<1>3. d \in RecordType(Job) /\ d.token = db.token /\ d.gate = db.gate
  <2>1. (me[j].pos \in me[j].have) \in BOOLEAN
      OBVIOUS
  <2> QED BY <1>2, <2>1, StepWrites, Zenon
<1> HIDE DEF d
<1>4. DataOK' /\ (db'.token # NoToken => db'.gate \in Step)
    BY <1>1, <1>3, WrittenTyped
<1> QED BY <1>1, <1>2, <1>4, AdvanceTyped, RaiseTyped, MeSame, JobFacts

LEMMA PauseRunTyped == ASSUME Typed, NEW j \in Job, PauseRun(j) PROVE Typed'
<1> DEFINE d == PauseAt(db, me[j].pos, j)
<1>1. /\ pc[j] = "pause" /\ CommitGoto(j, d, "pubPaused")
      /\ UNCHANGED <<log, chat, control, me, history>>
    BY DEF PauseRun, Step_
<1>2. me[j].pos \in Step /\ "pause" \notin AfterLoop /\ "pubPaused" \in JobLabel
    BY <1>1, JobFacts DEF AfterLoop, CheckLabel, JobLabel
<1>3. d \in RecordType(Job)
    BY <1>2, JobFacts, WritesTyped DEF DataOK
<1>4. d.gate \in Step
    BY <1>2, JobFacts DEF DataOK, RecordType, PauseAt
<1>5. late' \in 0..2 /\ UNCHANGED succeeded
    BY <1>1, JobFacts DEF DataOK, history
<1> HIDE DEF d
<1> QED BY <1>1, <1>2, <1>3, <1>4, <1>5, WriteTyped

LEMMA PublishPausedTyped == ASSUME Typed, NEW j \in Job, PublishPaused(j) PROVE Typed'
<1>1. /\ pc[j] = "pubPaused" /\ UNCHANGED <<db, chat, control, me, history>>
      /\ (Goto(j, "returned") /\ Publish("paused")) \/ (Raise(j) /\ UNCHANGED log)
    BY DEF PublishPaused
<1>2. "returned" \in JobLabel /\ "returned" \in AfterLoop /\ "paused" \in EventKind
    BY DEF AfterLoop, JobLabel, EventKind
<1> QED BY <1>1, <1>2, StepTyped, FailedCallTyped DEF durable

\* The job writes the run's status.
LEMMA StatusTyped ==
    ASSUME Typed, NEW j \in Job, NEW st \in RunStatus, NEW l \in JobLabel,
           CommitGoto(j, SetStatus(db, st), l), l \in AfterLoop \/ pc[j] \notin AfterLoop,
           UNCHANGED <<log, chat, control, me, history>>
    PROVE  Typed'
<1> DEFINE d == SetStatus(db, st)
<1>1. DataOK
    BY JobFacts
<1>2. d \in RecordType(Job)
    BY <1>1, JobFacts DEF DataOK, RecordType, SetStatus
<1>3. d.token # NoToken => d.gate \in Step
    BY <1>1 DEF Typed, Named, DataOK, RecordType, SetStatus
<1>4. late' \in 0..2 /\ UNCHANGED succeeded
    BY <1>1 DEF DataOK, history
<1>5. CommitGoto(j, d, l)
    OBVIOUS
<1> HIDE DEF d
<1> QED BY <1>2, <1>3, <1>4, <1>5, WriteTyped

LEMMA FailStepTyped == ASSUME Typed, NEW j \in Job, FailStep(j) PROVE Typed'
<1> DEFINE d == SetStep(db, me[j].pos, "failed")
<1>1. /\ pc[j] = "failStep" /\ CommitGoto(j, d, "failRun")
      /\ UNCHANGED <<log, chat, control, me, history>>
    BY DEF FailStep, Step_
<1>2. me[j].pos \in Step /\ "failStep" \notin AfterLoop /\ "failRun" \in JobLabel
    BY <1>1, JobFacts DEF AfterLoop, CheckLabel, JobLabel
<1>3. /\ d \in RecordType(Job) /\ d.token = db.token /\ d.gate = db.gate
      /\ db.token # NoToken => db.gate \in Step
    BY <1>2, StepWrites DEF StepStatus, Typed, Named
<1>4. late' \in 0..2 /\ UNCHANGED succeeded
    BY <1>1, JobFacts DEF DataOK, history
<1> HIDE DEF d
<1> QED BY <1>1, <1>2, <1>3, <1>4, WriteTyped

LEMMA FailRunTyped == ASSUME Typed, NEW j \in Job, FailRun(j) PROVE Typed'
<1>1. /\ CommitGoto(j, SetStatus(db, "failed"), "pubFailed")
      /\ UNCHANGED <<log, chat, control, me, history>>
    BY DEF FailRun
<1>2. "pubFailed" \in JobLabel /\ "pubFailed" \in AfterLoop /\ "failed" \in RunStatus
    BY DEF JobLabel, AfterLoop, RunStatus
<1> QED BY <1>1, <1>2, StatusTyped

LEMMA PublishFailedTyped == ASSUME Typed, NEW j \in Job, PublishFailed(j) PROVE Typed'
<1>1. /\ Goto(j, "raised") /\ (log' = log \/ Publish("failed"))
      /\ UNCHANGED <<db, chat, control, me, history>>
    BY DEF PublishFailed
<1>2. "raised" \in JobLabel /\ "raised" \in AfterLoop /\ "failed" \in EventKind
    BY DEF JobLabel, AfterLoop, EventKind
<1> QED BY <1>1, <1>2, StepTyped

LEMMA AppendChatTyped == ASSUME Typed, NEW j \in Job, AppendChat(j) PROVE Typed'
<1>1. /\ pc[j] = "chat" /\ UNCHANGED <<db, log, control, me, history>>
      /\ Goto(j, "finish") \/ Goto(j, "failRun")
      /\ chat' \in {chat, chat + 1}
    BY DEF AppendChat
<1>2. /\ "finish" \in JobLabel /\ "failRun" \in JobLabel
      /\ "finish" \in AfterLoop /\ "failRun" \in AfterLoop
    BY DEF JobLabel, AfterLoop
<1>3. DataOK' /\ (db'.token # NoToken => db'.gate \in Step)
    BY <1>1, JobFacts DEF DataOK, control, history, Typed, Named
<1> QED BY <1>1, <1>2, <1>3, JobFacts, MeSame, GotoTyped

LEMMA FinishRunTyped == ASSUME Typed, NEW j \in Job, FinishRun(j) PROVE Typed'
<1> DEFINE d == Complete(db, me[j].pay)
<1>1. /\ CommitGoto(j, d, "pubCompleted")
      /\ UNCHANGED <<log, chat, control, me, history>>
    BY DEF FinishRun
<1>2. "pubCompleted" \in AfterLoop /\ "pubCompleted" \in JobLabel
    BY DEF AfterLoop, JobLabel
<1>3. d \in RecordType(Job)
    BY JobFacts DEF DataOK, LocalType, RecordType, Complete, RunStatus
<1>4. d.token # NoToken => d.gate \in Step
    BY JobFacts DEF Typed, Named, DataOK, RecordType, Complete
<1>5. late' \in 0..2 /\ UNCHANGED succeeded
    BY <1>1, JobFacts DEF DataOK, history
<1> HIDE DEF d
<1> QED BY <1>1, <1>2, <1>3, <1>4, <1>5, WriteTyped

LEMMA PublishCompletedTyped == ASSUME Typed, NEW j \in Job, PublishCompleted(j) PROVE Typed'
<1>1. /\ Goto(j, "returned") /\ Publish("completed")
      /\ UNCHANGED <<db, chat, control, me, history>>
    BY DEF PublishCompleted
<1>2. "returned" \in JobLabel /\ "returned" \in AfterLoop /\ "completed" \in EventKind
    BY DEF JobLabel, AfterLoop, EventKind
<1> QED BY <1>1, <1>2, StepTyped

LEMMA NewLocalsTyped == NewLocals \in LocalType /\ NewLocals.pos = 1 /\ 1 \in Step
    BY NAssumption DEF NewLocals, LocalType, NoPlan, NoCheckpoint, RunStatus, Step

LEMMA EndJobTyped == ASSUME Typed, NEW j \in Job, EndJob(j) PROVE Typed'
<1>1. /\ UNCHANGED <<durable, server, crashes, spawned, history>>
      /\ me' = [me EXCEPT ![j] = NewLocals] /\ Goto(j, "done")
      /\ \/ job' = job
         \/ \E st \in JobStatus : job' = [job EXCEPT !.status = st]
    BY DEF EndJob, JobStatus
<1>2. job' \in [id: Job \cup {NoJob}, status: JobStatus, stop: BOOLEAN]
    BY <1>1, JobFacts DEF DataOK
<1>3. DataOK' /\ (db'.token # NoToken => db'.gate \in Step)
    BY <1>1, <1>2, JobFacts DEF DataOK, durable, history, Typed, Named
<1>4. "done" \in Labels(j) /\ PlacedAt("done", ctx[j], NewLocals)
    BY JobFacts, NewLocalsTyped DEF JobLabel, PlacedAt
<1>5. Moves(j, "done", ctx[j], NewLocals)
    BY <1>1, <1>4, JobFacts, NewLocalsTyped, GotoMoves
<1> QED BY <1>3, <1>4, <1>5, JobFacts, MoveTyped

LEMMA RunJobTyped == ASSUME Typed, NEW j \in Job, RunJob(j) PROVE Typed'
<1>1. CASE Execute(j)
    BY <1>1, BeginTyped, MarkRunningTyped, PublishStartedTyped, LoadOutputsTyped, ReadStepTyped,
       SkipStepTyped, StartStepTyped, FinishStepTyped, PauseRunTyped, PublishPausedTyped,
       FailStepTyped, FailRunTyped, PublishFailedTyped, AppendChatTyped, FinishRunTyped,
       PublishCompletedTyped, EndJobTyped DEF Execute
<1>2. CASE HandlerPolls(j) \/ HandlerReturns(j) \/ Cancelled(j)
    BY <1>2, HandlerPollsTyped, HandlerReturnsTyped, CancelledTyped, ThreadKinds
<1> QED BY <1>1, <1>2 DEF RunJob

-----------------------------------------------------------------------------
(* A thread moves alone *)

\* Only thread t changes its place and its local variables.
PlaceOnly(t) == \A u \in Thread \ {t} : pc'[u] = pc[u] /\ ctx'[u] = ctx[u]

Alone(t) ==
    /\ pc[t] # "off" /\ spawned' = spawned
    /\ PlaceOnly(t) /\ \A u \in Thread \ {t} : me'[u] = me[u]

LEMMA MovesPlaceOnly ==
    ASSUME ThreadsOK, NEW t \in Thread
    PROVE  /\ \A l : Goto(t, l) => PlaceOnly(t)
           /\ \A c : Evaluate(t, c) => PlaceOnly(t)
           /\ Raise(t) => PlaceOnly(t)
           /\ \A d, l : CommitGoto(t, d, l) => PlaceOnly(t)
<1>1. \A l : Goto(t, l) => PlaceOnly(t)
    BY DEF ThreadsOK, Goto, PlaceOnly
<1>2. \A c : Evaluate(t, c) => PlaceOnly(t)
    BY DEF ThreadsOK, Evaluate, PlaceOnly
<1>3. Raise(t) => PlaceOnly(t)
    BY <1>1, <1>2 DEF Raise
<1>4. \A d, l : CommitGoto(t, d, l) => PlaceOnly(t)
    BY <1>1, <1>3 DEF CommitGoto
<1> QED BY <1>1, <1>2, <1>3, <1>4

LEMMA AnswerPlaceOnly ==
    ASSUME ThreadsOK, NEW t \in Thread, t \notin Resumer, t \in Job => ctx[t] # "api",
           NEW b \in BOOLEAN, Answer(t, b)
    PROVE  PlaceOnly(t)
<1>1. t \in Job => ctx[t] \in {"loop", "poll", "except", "end"}
    BY DEF ThreadsOK, Context
<1>2. \/ Goto(t, "done") \/ Evaluate(t, "except") \/ Goto(t, "exec") \/ Goto(t, "returned")
      \/ Goto(t, "read") \/ Goto(t, "failStep") \/ Goto(t, "chat") \/ Goto(t, "finish")
  <2>1. CASE t \in Canceller
      BY <2>1 DEF Answer
  <2>2. CASE t \notin Canceller
    <3>1. t \in Job
        BY <2>2 DEF Thread
    <3>2. CASE b
        BY <1>1, <2>2, <3>1, <3>2 DEF Answer
    <3>3. CASE ~b
        BY <1>1, <2>2, <3>1, <3>3 DEF Answer
    <3> QED BY <3>2, <3>3
  <2> QED BY <2>1, <2>2
<1> QED BY <1>2, MovesPlaceOnly

LEMMA CancelledAlone ==
    ASSUME Typed, NEW t \in Thread, Cancelled(t)
    PROVE  Alone(t) /\ t \notin Resumer
<1>1. ThreadsOK /\ (t \in Job => ctx[t] # "api")
    BY TypeParts DEF Typed, Placed
<1>2. pc[t] \in CheckLabel
    BY DEF Cancelled, CheckRecord, CheckStop, CancelLoad, CancelCommit, CancelPublish, CheckLabel
<1>3. t \notin Resumer
    BY <1>1, <1>2, ThreadKinds DEF ThreadsOK, ResumeLabel, CheckLabel
<1>4. PlaceOnly(t)
  <2>1. \/ \E l : Goto(t, l)
        \/ Raise(t) \/ Answer(t, TRUE) \/ Answer(t, FALSE)
        \/ \E d, l : CommitGoto(t, d, l)
      BY DEF Cancelled, CheckRecord, CheckStop, CancelLoad, CancelCommit, CancelPublish,
             Cancelling
  <2> QED BY <1>1, <1>3, <2>1, MovesPlaceOnly, AnswerPlaceOnly
<1>5. \A u \in Thread \ {t} : me'[u] = me[u]
    BY <1>1 DEF ThreadsOK, Cancelled, CheckRecord, CheckStop, CancelLoad, CancelCommit,
                CancelPublish
<1>6. spawned' = spawned
    BY DEF Cancelled, CheckRecord, CheckStop, CancelLoad, CancelCommit, CancelPublish, control
<1> QED BY <1>2, <1>3, <1>4, <1>5, <1>6 DEF Alone, CheckLabel

LEMMA ExecuteAlone == ASSUME Typed, NEW j \in Job, Execute(j) PROVE Alone(j)
<1>1. ThreadsOK /\ j \in Thread
    BY JobFacts
<1>2. CASE Begin(j) \/ MarkRunning(j) \/ PublishStarted(j)
  <2>1. Raise(j) \/ (\E l : Goto(j, l)) \/ (\E d, l : CommitGoto(j, d, l))
      BY <1>2 DEF Begin, MarkRunning, PublishStarted
  <2>2. pc[j] # "off" /\ UNCHANGED me /\ spawned' = spawned
      BY <1>2 DEF Begin, MarkRunning, PublishStarted, control
  <2> QED BY <1>1, <2>1, <2>2, MovesPlaceOnly DEF Alone
<1>3. CASE LoadOutputs(j) \/ ReadStep(j) \/ SkipStep(j) \/ FinishStep(j)
  <2>1. Raise(j) \/ (\E l : Goto(j, l)) \/ (\E c : Evaluate(j, c))
      BY <1>3 DEF LoadOutputs, ReadStep, SkipStep, FinishStep, Advance
  <2>2. pc[j] # "off" /\ spawned' = spawned
      BY <1>3 DEF LoadOutputs, ReadStep, SkipStep, FinishStep, control
  <2>3. \A u \in Thread \ {j} : me'[u] = me[u]
      BY <1>1, <1>3 DEF LoadOutputs, ReadStep, SkipStep, FinishStep, Advance, ThreadsOK
  <2> QED BY <1>1, <2>1, <2>2, <2>3, MovesPlaceOnly DEF Alone
<1>4. CASE StartStep(j) \/ PauseRun(j) \/ PublishPaused(j) \/ FailStep(j) \/ FailRun(j)
  <2>1. Raise(j) \/ (\E l : Goto(j, l)) \/ (\E d, l : CommitGoto(j, d, l))
      BY <1>4 DEF StartStep, PauseRun, PublishPaused, FailStep, FailRun
  <2>2. pc[j] # "off" /\ UNCHANGED me /\ spawned' = spawned
      BY <1>4 DEF StartStep, PauseRun, PublishPaused, FailStep, FailRun, control
  <2> QED BY <1>1, <2>1, <2>2, MovesPlaceOnly DEF Alone
<1>5. CASE PublishFailed(j) \/ AppendChat(j) \/ FinishRun(j) \/ PublishCompleted(j)
  <2>1. (\E l : Goto(j, l)) \/ (\E d, l : CommitGoto(j, d, l))
      BY <1>5 DEF PublishFailed, AppendChat, FinishRun, PublishCompleted
  <2>2. pc[j] # "off" /\ UNCHANGED me /\ spawned' = spawned
      BY <1>5 DEF PublishFailed, AppendChat, FinishRun, PublishCompleted, control
  <2> QED BY <1>1, <2>1, <2>2, MovesPlaceOnly DEF Alone
<1>6. CASE EndJob(j)
  <2>1. /\ Goto(j, "done") /\ pc[j] # "off" /\ spawned' = spawned
        /\ me' = [me EXCEPT ![j] = NewLocals]
      BY <1>6 DEF EndJob
  <2>2. \A u \in Thread \ {j} : me'[u] = me[u]
      BY <1>1, <2>1 DEF ThreadsOK
  <2> QED BY <1>1, <2>1, <2>2, MovesPlaceOnly DEF Alone
<1> QED BY <1>2, <1>3, <1>4, <1>5, <1>6 DEF Execute

LEMMA RunJobAlone == ASSUME Typed, NEW j \in Job, RunJob(j) PROVE Alone(j)
<1>1. ThreadsOK /\ j \in Thread
    BY JobFacts
<1>2. CASE Execute(j) \/ Cancelled(j)
    BY <1>1, <1>2, ExecuteAlone, CancelledAlone
<1>3. CASE HandlerPolls(j) \/ HandlerReturns(j)
  <2>1. (\E l : Goto(j, l)) \/ (\E c : Evaluate(j, c))
      BY <1>3 DEF HandlerPolls, HandlerReturns, HandlerSucceeds, HandlerPauses, HandlerRaises
  <2>2. pc[j] # "off" /\ spawned' = spawned
      BY <1>3 DEF HandlerPolls, HandlerReturns, HandlerSucceeds, HandlerPauses, HandlerRaises,
                  control
  <2>3. \A u \in Thread \ {j} : me'[u] = me[u]
      BY <1>1, <1>3 DEF HandlerPolls, HandlerReturns, HandlerSucceeds, HandlerPauses,
                        HandlerRaises, ThreadsOK
  <2> QED BY <1>1, <2>1, <2>2, <2>3, MovesPlaceOnly DEF Alone
<1> QED BY <1>2, <1>3 DEF RunJob

\* A thread that moves alone is a started job, and starts none.
LEMMA AloneSpawned ==
    ASSUME Typed, Spawned, NEW t \in Thread, Alone(t)
    PROVE  Spawned'
    BY ThreadKinds DEF Spawned, Alone, PlaceOnly

-----------------------------------------------------------------------------
(* The cancel call *)

LEMMA CancellerFacts ==
    ASSUME Typed, NEW c \in Canceller
    PROVE  /\ c \in Thread /\ c \notin Resumer /\ c \notin Job /\ Labels(c) = ApiLabel
           /\ ThreadsOK /\ DataOK /\ me[c] \in LocalType
<1>1. ThreadsOK /\ DataOK
    BY TypeParts DEF Typed
<1> QED BY <1>1, ThreadKinds DEF ThreadsOK

LEMMA RequestCancelReadTyped ==
    ASSUME Typed, NEW c \in Canceller, RequestCancelRead(c) PROVE Typed' /\ Alone(c)
<1> DEFINE m == [me[c] EXCEPT !.snap = db.status]
<1>1. /\ pc[c] = "idle" /\ UNCHANGED <<durable, control, history>>
      /\ (me' = [me EXCEPT ![c] = m] /\ Goto(c, "request")) \/ (Goto(c, "done") /\ UNCHANGED me)
    BY DEF RequestCancelRead
<1>2. m \in LocalType /\ m.pos = me[c].pos
  <2>1. me[c] \in LocalType /\ db.status \in RunStatus
      BY CancellerFacts DEF DataOK, RecordType
  <2> QED BY <2>1 DEF LocalType
<1>3. "request" \in ApiLabel /\ "done" \in ApiLabel
    BY DEF ApiLabel
<1>4. DataOK' /\ (db'.token # NoToken => db'.gate \in Step)
    BY <1>1, SameTyped DEF durable, history
<1> HIDE DEF m
<1>5. Typed'
    BY <1>1, <1>2, <1>3, <1>4, CancellerFacts, MeSame, GotoTyped
<1>6. \A u \in Thread \ {c} : me'[u] = me[u]
    BY <1>1, CancellerFacts DEF ThreadsOK
<1> QED BY <1>1, <1>5, <1>6, CancellerFacts, MovesPlaceOnly DEF Alone, control

LEMMA RequestCancelCommitTyped ==
    ASSUME Typed, NEW c \in Canceller, RequestCancelCommit(c) PROVE Typed' /\ Alone(c)
<1> DEFINE d == RequestCancel(db)
<1>1. /\ pc[c] = "request" /\ UNCHANGED <<log, chat, control, me, history>>
      /\ CommitGoto(c, d, "pubRequested")
    BY DEF RequestCancelCommit
<1>2. d \in RecordType(Job)
    BY CancellerFacts, CancelsTyped DEF DataOK
<1>3. d.token # NoToken => d.gate \in Step
    BY CancellerFacts DEF Typed, Named, DataOK, RecordType, RequestCancel, DropCheckpoint
<1>4. late' \in 0..2 /\ UNCHANGED succeeded /\ "pubRequested" \in ApiLabel
    BY <1>1, CancellerFacts DEF DataOK, history, ApiLabel
<1> HIDE DEF d
<1>5. Typed'
    BY <1>1, <1>2, <1>3, <1>4, CancellerFacts, CommitTyped
<1> QED BY <1>1, <1>5, CancellerFacts, MovesPlaceOnly DEF Alone, control

LEMMA PublishRequestedTyped ==
    ASSUME Typed, NEW c \in Canceller, PublishRequested(c) PROVE Typed' /\ Alone(c)
<1>1. /\ pc[c] = "pubRequested" /\ UNCHANGED <<db, chat, control, me, history>>
      /\ Goto(c, "stopJob") /\ Publish("requested")
    BY DEF PublishRequested
<1>2. "stopJob" \in ApiLabel /\ "requested" \in EventKind
    BY DEF ApiLabel, EventKind
<1>3. DataOK' /\ (db'.token # NoToken => db'.gate \in Step)
    BY <1>1, <1>2, SameTyped DEF history
<1>4. Typed'
    BY <1>1, <1>2, <1>3, CancellerFacts, MeSame, GotoTyped
<1> QED BY <1>1, <1>4, CancellerFacts, MovesPlaceOnly DEF Alone, control

LEMMA StopJobTyped ==
    ASSUME Typed, NEW c \in Canceller, StopJob(c) PROVE Typed' /\ Alone(c)
<1>1. /\ pc[c] = "stopJob" /\ UNCHANGED <<durable, server, crashes, spawned, me, history>>
      /\ Evaluate(c, "api") \/ Goto(c, "done")
      /\ job' = job \/ job' = [job EXCEPT !.stop = TRUE]
    BY DEF StopJob
<1>2. "done" \in ApiLabel /\ "api" \in Context
    BY DEF ApiLabel, Context
<1>3. job' \in [id: Job \cup {NoJob}, status: JobStatus, stop: BOOLEAN]
    BY <1>1, CancellerFacts DEF DataOK
<1>4. DataOK' /\ (db'.token # NoToken => db'.gate \in Step)
    BY <1>1, <1>3, CancellerFacts DEF DataOK, durable, history, Typed, Named
<1>5. Typed'
    BY <1>1, <1>2, <1>4, CancellerFacts, MeSame, GotoTyped, EvaluateTyped
<1> QED BY <1>1, <1>5, CancellerFacts, MovesPlaceOnly DEF Alone

LEMMA CancellerTyped ==
    ASSUME Typed, NEW c \in Canceller, RequestCancelRead(c) \/ CancelCall(c)
    PROVE  Typed' /\ Alone(c)
    BY RequestCancelReadTyped, RequestCancelCommitTyped, PublishRequestedTyped, StopJobTyped,
       CancelledTyped, CancelledAlone, CancellerFacts
    DEF CancelCall

-----------------------------------------------------------------------------
(* The resume call *)

LEMMA ResumerFacts ==
    ASSUME Typed, NEW r \in Resumer
    PROVE  /\ r \in Thread /\ r \notin Canceller /\ r \notin Job /\ Labels(r) = ResumeLabel
           /\ ThreadsOK /\ DataOK /\ me[r] \in LocalType
<1>1. ThreadsOK /\ DataOK
    BY TypeParts DEF Typed
<1> QED BY <1>1, ThreadKinds DEF ThreadsOK

LEMMA ResumerMoveTyped ==
    ASSUME Typed, NEW r \in Resumer, NEW l, NEW c, NEW m, Moves(r, l, c, m),
           l = "consumeLoad" => m.seen.token # NoToken,
           l = "consumeCommit" => m.seen.gate \in Step,
           DataOK', db'.token # NoToken => db'.gate \in Step
    PROVE  Typed'
<1>1. TypeOK'
    BY TypeParts DEF Moves, ThreadsOK, DataOK, TypeOK, Labels
<1>2. Placed'
  <2>1. \A j \in Job : pc'[j] = pc[j] /\ ctx'[j] = ctx[j] /\ me'[j] = me[j]
      BY ThreadKinds DEF Moves
  <2> QED BY <2>1 DEF Typed, Placed
<1>3. Named'
    BY ThreadKinds DEF Moves, Typed, Named
<1> QED BY <1>1, <1>2, <1>3 DEF Typed

LEMMA ResumeReadTyped == ASSUME Typed, NEW r \in Resumer, ResumeRead(r) PROVE Typed' /\ Alone(r)
<1> DEFINE m == [me[r] EXCEPT !.seen = [NoCheckpoint EXCEPT !.token = db.token]]
<1>1. /\ pc[r] = "idle" /\ UNCHANGED <<durable, control, history>>
      /\ Readable(db) /\ db.status = "paused"
      /\ me' = [me EXCEPT ![r] = m] /\ Goto(r, "consumeLoad")
    BY DEF ResumeRead
<1>2. db.token \in Job /\ db.token # NoToken
    BY <1>1, ResumerFacts DEF Readable, DataOK, RecordType
<1>3. m \in LocalType /\ m.seen.token # NoToken
    BY <1>2, ResumerFacts, ZenonT(60) DEF LocalType, NoCheckpoint
<1> HIDE DEF m
<1>4. Moves(r, "consumeLoad", ctx[r], m)
    BY <1>1, <1>3, ResumerFacts, GotoMoves DEF ResumeLabel
<1>5. DataOK' /\ (db'.token # NoToken => db'.gate \in Step)
    BY <1>1, SameTyped DEF durable, history
<1>6. Typed'
    BY <1>3, <1>4, <1>5, ResumerMoveTyped
<1> QED BY <1>1, <1>4, <1>6 DEF Alone, PlaceOnly, Moves, control

LEMMA ConsumeLoadTyped == ASSUME Typed, NEW r \in Resumer, ConsumeLoad(r) PROVE Typed' /\ Alone(r)
<1>1. pc[r] = "consumeLoad" /\ UNCHANGED <<durable, control, history>>
    BY DEF ConsumeLoad
<1>2. DataOK' /\ (db'.token # NoToken => db'.gate \in Step)
    BY <1>1, SameTyped DEF durable, history
<1>3. CASE db.status = "paused" /\ db.token = me[r].seen.token
  <2> DEFINE k == [token |-> db.token, gate |-> db.gate, clears |-> db.cancelReq]
  <2> DEFINE m == [me[r] EXCEPT !.seen = k]
  <2>1. me' = [me EXCEPT ![r] = m] /\ Goto(r, "consumeCommit")
      BY <1>3 DEF ConsumeLoad
  <2>2. db.token # NoToken /\ db.gate \in Step
      BY <1>1, <1>3 DEF Typed, Named
  <2>3. m \in LocalType /\ m.seen.gate \in Step
    <3>1. /\ me[r] \in LocalType
          /\ db.token \in Job \cup {NoToken} /\ db.cancelReq \in BOOLEAN
        BY ResumerFacts DEF DataOK, RecordType
    <3>2. k \in [token: Job \cup {NoToken}, gate: Step \cup {NoStep}, clears: BOOLEAN]
        BY <2>2, <3>1
    <3>3. k.gate \in Step
        BY <2>2
    <3> HIDE DEF k
    <3> QED BY <3>1, <3>2, <3>3 DEF LocalType
  <2> HIDE DEF m
  <2>4. Moves(r, "consumeCommit", ctx[r], m)
      BY <2>1, <2>3, ResumerFacts, GotoMoves DEF ResumeLabel
  <2>5. Typed'
      BY <1>2, <2>3, <2>4, ResumerMoveTyped
  <2> QED BY <1>1, <2>4, <2>5 DEF Alone, PlaceOnly, Moves, control
<1>4. CASE ~(db.status = "paused" /\ db.token = me[r].seen.token)
  <2>1. Goto(r, "idle") /\ UNCHANGED me
      BY <1>4, ResumerFacts DEF ConsumeLoad, Raise
  <2>2. Moves(r, "idle", ctx[r], me[r])
      BY <2>1, ResumerFacts, MeSame, GotoMoves DEF ResumeLabel
  <2>3. Typed'
      BY <1>2, <2>2, ResumerMoveTyped
  <2> QED BY <1>1, <2>2, <2>3 DEF Alone, PlaceOnly, Moves, control
<1> QED BY <1>3, <1>4

LEMMA ConsumeCommitTyped ==
    ASSUME Typed, NEW r \in Resumer, ConsumeCommit(r) PROVE Typed' /\ Alone(r)
<1> DEFINE d == Consume(db, me[r].seen.gate, me[r].seen.clears)
<1>1. /\ pc[r] = "consumeCommit" /\ UNCHANGED <<log, chat, control, me, history>>
      /\ db' = d
      /\ Goto(r, "pubResumed") \/ Goto(r, "idle")
    BY ResumerFacts DEF ConsumeCommit, CommitGoto, Raise
<1>2. me[r].seen.gate \in Step /\ me[r].seen.clears \in BOOLEAN
    BY <1>1, ResumerFacts DEF Typed, Named, LocalType
<1>3. d \in RecordType(Job)
    BY <1>2, ResumerFacts, WritesTyped, Zenon DEF DataOK
<1>4. d.token = NoToken
    BY ResumerFacts DEF Consume, DataOK, RecordType
<1> HIDE DEF d
<1>5. DataOK' /\ (db'.token # NoToken => db'.gate \in Step)
    BY <1>1, <1>3, <1>4, ResumerFacts DEF DataOK, control, history
<1>6. Moves(r, "pubResumed", ctx[r], me[r]) \/ Moves(r, "idle", ctx[r], me[r])
    BY <1>1, ResumerFacts, MeSame, GotoMoves DEF ResumeLabel
<1>7. Typed'
    BY <1>5, <1>6, ResumerMoveTyped
<1> QED BY <1>1, <1>6, <1>7 DEF Alone, PlaceOnly, Moves, control

LEMMA PublishResumedTyped ==
    ASSUME Typed, NEW r \in Resumer, PublishResumed(r) PROVE Typed' /\ Alone(r)
<1>1. /\ pc[r] = "pubResumed" /\ UNCHANGED <<db, chat, control, me, history>>
      /\ Publish("resumed") /\ Goto(r, "startJob") /\ "resumed" \in EventKind
    BY DEF PublishResumed, EventKind
<1>2. DataOK' /\ (db'.token # NoToken => db'.gate \in Step)
    BY <1>1, SameTyped DEF history
<1>3. Moves(r, "startJob", ctx[r], me[r])
    BY <1>1, ResumerFacts, MeSame, GotoMoves DEF ResumeLabel
<1>4. Typed'
    BY <1>2, <1>3, ResumerMoveTyped
<1> QED BY <1>1, <1>3, <1>4 DEF Alone, PlaceOnly, Moves, control

\* job_manager.start_job: the new job begins at the first step.
LEMMA SpawnTyped ==
    ASSUME Typed, Spawned, SpawnJob, ThreadsOK',
           \A j \in Job : pc'[j] = IF j = spawned + 1 THEN "begin" ELSE pc[j],
           \A r \in Resumer : pc'[r] \in {pc[r], "idle"},
           UNCHANGED <<durable, crashes, locals, history>>,
           server' \in {"up", "stopping", "down", "recovering"}
    PROVE  Typed' /\ Spawned'
<1>1. /\ ThreadsOK /\ DataOK /\ spawned' = spawned + 1 /\ job' = NewJob(spawned + 1)
      /\ ctx' = ctx /\ me' = me
    BY TypeParts DEF Typed, SpawnJob, locals
<1>2. spawned + 1 \in Job /\ spawned' \in 0..MaxJobs
    BY <1>1, ConstantsAssumption DEF DataOK, Job, SpawnJob
<1>3. job' \in [id: Job \cup {NoJob}, status: JobStatus, stop: BOOLEAN]
    BY <1>1, <1>2 DEF NewJob, JobStatus
<1>4. DataOK'
    BY <1>1, <1>2, <1>3 DEF DataOK, durable, history
<1>5. Placed'
  <2>1. \A j \in Job : j = spawned + 1 => me[j].pos \in Step
    <3>1. \A j \in Job : j = spawned + 1 => j > spawned
        BY <1>1, ConstantsAssumption DEF DataOK, Job
    <3> QED BY <3>1, NewLocalsTyped DEF Spawned
  <2> QED BY <1>1, <2>1 DEF Typed, Placed
<1>6. Named'
    BY <1>1 DEF Typed, Named, durable
<1>7. Spawned'
  <2>1. \A j \in Job : j > spawned + 1 => j > spawned /\ j # spawned + 1
      BY <1>1, ConstantsAssumption DEF DataOK, Job
  <2> QED BY <1>1, <2>1 DEF Spawned
<1>8. TypeOK'
    BY <1>4, TypeParts DEF TypeOK, ThreadsOK, DataOK, Labels
<1> QED BY <1>5, <1>6, <1>7, <1>8 DEF Typed

LEMMA StartResumedTyped ==
    ASSUME Typed, Spawned, NEW r \in Resumer, StartResumed(r)
    PROVE  Typed' /\ Spawned'
<1>1. /\ SpawnJob /\ UNCHANGED <<durable, server, crashes, ctx, me, history>>
      /\ pc' = [pc EXCEPT ![r] = "idle", ![spawned + 1] = "begin"]
      /\ ThreadsOK /\ DataOK /\ r \notin Job /\ r \in Thread /\ Labels(r) = ResumeLabel
    BY ResumerFacts DEF StartResumed
<1>2. spawned + 1 \in Job
    BY <1>1, ConstantsAssumption DEF DataOK, Job, SpawnJob
<1>3. /\ spawned + 1 \in Thread /\ spawned + 1 # r /\ Labels(spawned + 1) = JobLabel
      /\ spawned + 1 \notin Resumer
    BY <1>1, <1>2, ThreadKinds
<1>4. "begin" \in JobLabel /\ "idle" \in ResumeLabel
    BY DEF JobLabel, ResumeLabel
<1>5. /\ pc'[r] = "idle" /\ pc'[spawned + 1] = "begin"
      /\ \A u \in Thread \ {r, spawned + 1} : pc'[u] = pc[u]
      /\ pc' \in [Thread -> JobLabel \cup ApiLabel \cup ResumeLabel]
    BY <1>1, <1>3, <1>4 DEF ThreadsOK
<1>6. ThreadsOK'
    BY <1>1, <1>3, <1>4, <1>5 DEF ThreadsOK, Labels
<1>7. \A j \in Job : pc'[j] = IF j = spawned + 1 THEN "begin" ELSE pc[j]
    BY <1>1, <1>5, ThreadKinds
<1>8. \A q \in Resumer : pc'[q] \in {pc[q], "idle"}
    BY <1>3, <1>5, ThreadKinds
<1>9. server' \in {"up", "stopping", "down", "recovering"}
    BY <1>1 DEF DataOK
<1> QED BY <1>1, <1>6, <1>7, <1>8, <1>9, SpawnTyped DEF locals

LEMMA ResumerTyped ==
    ASSUME Typed, Spawned, NEW r \in Resumer, ResumeRead(r) \/ ResumeCall(r)
    PROVE  Typed' /\ Spawned'
    BY ResumeReadTyped, ConsumeLoadTyped, ConsumeCommitTyped, PublishResumedTyped,
       StartResumedTyped, AloneSpawned, ResumerFacts
    DEF ResumeCall

-----------------------------------------------------------------------------
(* The process *)

\* Nothing moves in the threads.
LEMMA StillTyped ==
    ASSUME Typed, Spawned, DataOK', spawned' = spawned, UNCHANGED <<pc, ctx, me>>,
           db'.token = db.token, db'.gate = db.gate
    PROVE  Typed' /\ Spawned'
<1>1. TypeOK'
    BY TypeParts DEF Typed, TypeOK, ThreadsOK, DataOK, Labels
<1> QED BY <1>1 DEF Typed, Placed, Named, Spawned

LEMMA ShutdownTyped == ASSUME Typed, Spawned, Shutdown PROVE Typed' /\ Spawned'
<1>1. /\ server' = "stopping"
      /\ job' = job \/ job' = [job EXCEPT !.stop = TRUE]
      /\ UNCHANGED <<durable, crashes, spawned, pc, locals, history>> /\ DataOK
    BY TypeParts DEF Shutdown, Typed
<1>2. job' \in [id: Job \cup {NoJob}, status: JobStatus, stop: BOOLEAN]
    BY <1>1 DEF DataOK
<1>3. DataOK'
    BY <1>1, <1>2 DEF DataOK, durable, history
<1> QED BY <1>1, <1>3, StillTyped DEF durable, locals

LEMMA ExitTyped == ASSUME Typed, Spawned, Exit PROVE Typed' /\ Spawned'
<1>1. /\ crashes < MaxCrash /\ server' = "down" /\ crashes' = crashes + 1 /\ job' = NullJob
      /\ me' = [t \in Thread |-> NewLocals]
      /\ UNCHANGED <<durable, spawned, ctx, history>> /\ DataOK /\ ThreadsOK
    BY TypeParts DEF Exit, Typed
<1>2. \A t \in Thread : pc'[t] = IF t \in Job /\ t <= spawned THEN "done"
                                 ELSE IF t \in Canceller /\ pc[t] # "idle" THEN "done"
                                 ELSE IF t \in Resumer THEN "idle"
                                 ELSE pc[t]
    BY DEF Exit
<1>3. ThreadsOK'
  <2>1. \A t \in Thread : pc'[t] \in Labels(t)
      BY <1>1, <1>2, ThreadKinds
      DEF ThreadsOK, Thread, JobLabel, ApiLabel, ResumeLabel, Labels
  <2>2. \A t \in Thread : Labels(t) \subseteq JobLabel \cup ApiLabel \cup ResumeLabel
      BY DEF Labels
  <2>3. \E f : pc' = [t \in Thread |-> f[t]]
      BY DEF Exit
  <2>4. pc' \in [Thread -> JobLabel \cup ApiLabel \cup ResumeLabel]
      BY <2>1, <2>2, <2>3
  <2> QED BY <1>1, <2>1, <2>4, NewLocalsTyped DEF ThreadsOK, Labels
<1>4. DataOK'
  <2>1. crashes' \in 0..MaxCrash
      BY <1>1, ConstantsAssumption DEF DataOK
  <2>2. job' \in [id: Job \cup {NoJob}, status: JobStatus, stop: BOOLEAN]
      BY <1>1 DEF NullJob, JobStatus
  <2> QED BY <1>1, <2>1, <2>2 DEF DataOK, durable, history
<1>5. Placed'
    BY <1>1, ThreadKinds, NewLocalsTyped DEF Typed, Placed
<1>6. Named'
    BY <1>1, <1>2, ThreadKinds DEF Typed, Named, durable
<1>7. Spawned'
  <2>1. \A j \in Job : j > spawned => ~(j <= spawned)
      BY <1>1, ConstantsAssumption DEF DataOK, Job
  <2>2. \A j \in Job : j > spawned => pc'[j] = pc[j]
      BY <1>2, <2>1, ThreadKinds
  <2> QED BY <1>1, <2>2, ThreadKinds, NewLocalsTyped DEF Spawned
<1>8. TypeOK'
    BY <1>3, <1>4, TypeParts DEF TypeOK, ThreadsOK, DataOK, Labels
<1> QED BY <1>5, <1>6, <1>7, <1>8 DEF Typed

LEMMA StartupTyped == ASSUME Typed, Spawned, Startup PROVE Typed' /\ Spawned'
<1>1. ThreadsOK /\ DataOK
    BY TypeParts DEF Typed
<1>2. CASE RecoverNothing
  <2>1. DataOK'
      BY <1>1, <1>2 DEF RecoverNothing, DataOK, durable, history
  <2> QED BY <1>2, <2>1, StillTyped DEF RecoverNothing, durable, locals
<1>3. CASE FailClosed \/ Requeue
  <2>1. PICK st \in RunStatus : db' = SetStatus(db, st)
      BY <1>3 DEF FailClosed, Requeue, RunStatus
  <2>2. db' \in RecordType(Job) /\ db'.token = db.token /\ db'.gate = db.gate
      BY <1>1, <2>1 DEF DataOK, RecordType, SetStatus
  <2>3. log' \in Seq(EventKind)
      BY <1>1, <1>3 DEF DataOK, FailClosed, Requeue, Publish, EventKind
  <2>4. /\ UNCHANGED <<chat, crashes, job, spawned, pc, locals, history>>
        /\ server' \in {"up", "recovering"}
      BY <1>3 DEF FailClosed, Requeue
  <2>5. DataOK'
      BY <1>1, <2>2, <2>3, <2>4 DEF DataOK, history
  <2> QED BY <2>2, <2>4, <2>5, StillTyped DEF locals
<1>4. CASE StartRecovered
  <2>1. /\ SpawnJob /\ pc' = [pc EXCEPT ![spawned + 1] = "begin"] /\ server' = "up"
        /\ UNCHANGED <<durable, crashes, locals, history>>
      BY <1>4 DEF StartRecovered
  <2>2. spawned + 1 \in Job
      BY <1>1, <2>1, ConstantsAssumption DEF DataOK, Job, SpawnJob
  <2>3. /\ pc' \in [Thread -> JobLabel \cup ApiLabel \cup ResumeLabel]
        /\ pc'[spawned + 1] = "begin" /\ \A u \in Thread \ {spawned + 1} : pc'[u] = pc[u]
      BY <1>1, <2>1, <2>2, ThreadKinds DEF ThreadsOK, JobLabel
  <2>4. ThreadsOK'
      BY <1>1, <2>1, <2>2, <2>3, ThreadKinds DEF ThreadsOK, Labels, JobLabel, locals
  <2>5. /\ \A j \in Job : pc'[j] = IF j = spawned + 1 THEN "begin" ELSE pc[j]
        /\ \A r \in Resumer : pc'[r] \in {pc[r], "idle"}
      BY <2>2, <2>3, ThreadKinds
  <2> QED BY <2>1, <2>4, <2>5, SpawnTyped
<1> QED BY <1>2, <1>3, <1>4 DEF Startup

-----------------------------------------------------------------------------
(* Every step keeps the types *)

LEMMA InitTyped == Init => Typed /\ Spawned
<1> SUFFICES ASSUME Init PROVE Typed /\ Spawned
    OBVIOUS
<1>1. /\ pc = [t \in Thread |-> IF t = 1 THEN "begin" ELSE IF t \in Job THEN "off" ELSE "idle"]
      /\ ctx = [t \in Thread |-> "loop"] /\ me = [t \in Thread |-> NewLocals]
      /\ 1 \in Job
    BY ConstantsAssumption DEF Init, Job
<1>2. \A t \in Thread : pc[t] \in Labels(t)
    BY <1>1, ThreadKinds DEF Thread, JobLabel, ApiLabel, ResumeLabel, Labels
<1>3. \A t \in Thread : Labels(t) \subseteq JobLabel \cup ApiLabel \cup ResumeLabel
    BY DEF Labels
<1>4. ThreadsOK
    BY <1>1, <1>2, <1>3, NewLocalsTyped DEF ThreadsOK, Context
<1>5. db \in RecordType(Job)
    BY DEF Init, NewRecord, RecordType, RunStatus, StepStatus
<1>6. job \in [id: Job \cup {NoJob}, status: JobStatus, stop: BOOLEAN]
    BY <1>1 DEF Init, NewJob, JobStatus
<1>7. DataOK
    BY <1>5, <1>6, ConstantsAssumption DEF Init, DataOK
<1>8. Placed
    BY <1>1, ThreadKinds, NewLocalsTyped DEF Placed
<1>9. db.token = NoToken /\ \A r \in Resumer : pc[r] = "idle"
    BY <1>1, ThreadKinds DEF Init, NewRecord
<1>10. Named
    BY <1>9 DEF Named
<1>11. Spawned
    BY <1>1, ThreadKinds, NewLocalsTyped DEF Spawned, Init, Job
<1> QED BY <1>4, <1>7, <1>8, <1>10, <1>11, TypeParts DEF Typed

LEMMA NextTyped == Typed /\ Spawned /\ [Next]_vars => Typed' /\ Spawned'
<1> SUFFICES ASSUME Typed, Spawned, [Next]_vars PROVE Typed' /\ Spawned'
    OBVIOUS
<1>1. ASSUME NEW j \in Job, RunJob(j) PROVE Typed' /\ Spawned'
    BY <1>1, RunJobTyped, RunJobAlone, AloneSpawned, ThreadKinds
<1>2. ASSUME NEW c \in Canceller, RequestCancelRead(c) \/ CancelCall(c) PROVE Typed' /\ Spawned'
    BY <1>2, CancellerTyped, AloneSpawned, ThreadKinds
<1>3. ASSUME NEW r \in Resumer, ResumeRead(r) \/ ResumeCall(r) PROVE Typed' /\ Spawned'
    BY <1>3, ResumerTyped
<1>4. CASE Shutdown \/ Exit \/ Startup
    BY <1>4, ShutdownTyped, ExitTyped, StartupTyped
<1>5. CASE UNCHANGED vars
  <2>1. UNCHANGED <<db, log, chat, server, crashes, job, spawned, pc, ctx, me, succeeded, late>>
      BY <1>5 DEF vars, durable, control, locals, history
  <2>2. DataOK'
      BY <2>1, TypeParts DEF Typed, DataOK
  <2> QED BY <2>1, <2>2, StillTyped
<1> QED BY <1>1, <1>2, <1>3, <1>4, <1>5 DEF Next, Rest

\* Every variable has its type, whoever cancels, resumes, stops or restarts the
\* process and however these interleave with the jobs.
THEOREM TypeCorrect == Spec => []TypeOK
<1>1. Spec => [](Typed /\ Spawned)
    BY InitTyped, NextTyped, PTL DEF Spec
<1>2. Typed /\ Spawned => TypeOK
    BY DEF Typed
<1> QED BY <1>1, <1>2, PTL

-----------------------------------------------------------------------------
(* A plan without review gates: a recorded cancellation stops the steps, and *)
(* the terminal status is announced.  With gates the code has the races that *)
(* the runs ConsumeRace and CancelPauseRace show, hence the assumption.      *)

\* No step pauses the run; it may be cancelled by any number of calls.
NoGates == Gates = {}

\* Nothing is paused, and nobody resumes.
Unpaused ==
    /\ db.token = NoToken /\ db.status # "paused"
    /\ \A r \in Resumer : pc[r] = "idle"
    /\ \A j \in Job : pc[j] \notin {"pause", "pubPaused"}
    /\ \A t \in Thread : ~me[t].plan.clears

\* Only the last job started is alive, and none while the process is not.
LastAlone ==
    /\ \A j \in Job : pc[j] \notin {"off", "done"} =>
          j = spawned /\ server \notin {"down", "recovering"}
    /\ server \in {"down", "recovering"} => crashes # 0

\* The labels a job passes, from the read of a flag that was not set, to the start of a
\* handler.
Unaware == {"checkStop", "read", "skip", "start"}

\* Once a handler has begun in spite of a request no job is on its way to another.
Halts == late # 0 => late = 1 /\ db.cancelReq /\ \A j \in Job : pc[j] \notin Unaware

\* Where the event of a terminal status is published.
Speaking == [completed |-> "pubCompleted", failed |-> "pubFailed", cancelled |-> "cancelPub"]

Logged(l, kind) == \E k \in DOMAIN l : l[k] = kind

\* A terminal status is in the history, or the thread that wrote it is about to put it
\* there.
Heard ==
    crashes = 0 /\ db.status \in Terminal =>
        \/ Logged(log, db.status)
        \/ \E t \in Job \cup Canceller : pc[t] = Speaking[db.status]

CancelInv == Typed /\ Spawned /\ Unpaused /\ LastAlone /\ Halts /\ Heard

-----------------------------------------------------------------------------
(* A step of a job or of a cancel call *)

\* What t does not do on its way to l.
Passes(t, l) ==
    t \in Job =>
        /\ pc[t] \notin {"off", "done"} /\ l \notin {"pause", "pubPaused"}
        /\ l \in Unaware => pc[t] \in Unaware \/ ~db.cancelReq

\* The status is kept, and announced by the thread that had to; or it is a new one.
Says(t, l) ==
    \/ /\ db'.status = db.status
       /\ \/ log' = log
          \/ \E kind \in EventKind : log' = Append(log, kind)
       /\ db.status \in Terminal /\ pc[t] = Speaking[db.status] => log' = Append(log, db.status)
    \/ log' = log /\ db'.status \in Terminal /\ l = Speaking[db'.status]
    \/ db'.status \notin Terminal

\* The record after a step.
Stays == db'.token = NoToken /\ db'.status # "paused" /\ (db.cancelReq => db'.cancelReq)

LEMMA LoggedGrows ==
    ASSUME NEW l \in Seq(EventKind), NEW kind \in EventKind
    PROVE  /\ Logged(Append(l, kind), kind)
           /\ \A old : Logged(l, old) => Logged(Append(l, kind), old)
<1>1. /\ DOMAIN l = 1..Len(l) /\ Len(l) \in Nat
      /\ DOMAIN Append(l, kind) = 1..(Len(l) + 1) /\ Append(l, kind)[Len(l) + 1] = kind
      /\ \A k \in 1..Len(l) : Append(l, kind)[k] = l[k]
    OBVIOUS
<1>2. Logged(Append(l, kind), kind)
  <2>1. Len(l) + 1 \in DOMAIN Append(l, kind)
      BY <1>1
  <2> QED BY <1>1, <2>1 DEF Logged
<1>3. ASSUME NEW old, Logged(l, old) PROVE Logged(Append(l, kind), old)
  <2>1. PICK k \in DOMAIN l : l[k] = old
      BY <1>3 DEF Logged
  <2>2. k \in DOMAIN Append(l, kind) /\ Append(l, kind)[k] = old
      BY <1>1, <2>1
  <2> QED BY <2>2 DEF Logged
<1> QED BY <1>2, <1>3

\* What is known of a thread that is not a resume call.
LEMMA CancelFacts ==
    ASSUME CancelInv, NEW t \in Job \cup Canceller
    PROVE  /\ t \in Thread /\ t \notin Resumer /\ ThreadsOK /\ me[t] \in LocalType
           /\ UNCHANGED me => me' = [me EXCEPT ![t] = me[t]]
           /\ ~me[t].plan.clears /\ Readable(db) /\ db \in RecordType(Job)
           /\ log \in Seq(EventKind) /\ (t \in Job => ctx[t] # "api")
           /\ (t \in Job => Labels(t) = JobLabel) /\ (t \in Canceller => Labels(t) = ApiLabel)
<1>1. t \in Thread /\ t \notin Resumer
    BY ThreadKinds
<1>2. ThreadsOK /\ DataOK
    BY TypeParts DEF CancelInv, Typed
<1>3. Readable(db) /\ ~me[t].plan.clears
    BY <1>1 DEF CancelInv, Unpaused, Readable
<1>4. me[t] \in LocalType /\ (UNCHANGED me => me' = [me EXCEPT ![t] = me[t]])
    BY <1>1, <1>2, MeSame DEF ThreadsOK
<1>5. t \in Job => ctx[t] # "api"
    BY DEF CancelInv, Typed, Placed
<1> QED BY <1>1, <1>2, <1>3, <1>4, <1>5, ThreadKinds DEF DataOK

LEMMA HeardStays ==
    ASSUME CancelInv, Typed', NEW t \in Job \cup Canceller, NEW l, NEW c, NEW m,
           Moves(t, l, c, m), crashes' = crashes, Says(t, l)
    PROVE  Heard'
<1>1. /\ pc'[t] = l /\ log \in Seq(EventKind)
      /\ \A u \in (Job \cup Canceller) \ {t} : pc'[u] = pc[u]
    BY ThreadKinds, CancelFacts DEF Moves
<1>2. CASE log' = log /\ db'.status \in Terminal /\ l = Speaking[db'.status]
    BY <1>1, <1>2 DEF Heard
<1>3. CASE db'.status \notin Terminal
    BY <1>3 DEF Heard
<1>4. ASSUME db'.status = db.status, db.status \in Terminal, crashes = 0,
             \/ log' = log
             \/ \E kind \in EventKind : log' = Append(log, kind),
             pc[t] = Speaking[db.status] => log' = Append(log, db.status)
      PROVE  Heard'
  <2>1. db.status \in EventKind
      BY <1>4 DEF Terminal, EventKind
  <2>2. CASE pc[t] = Speaking[db.status]
    <3>1. Logged(log', db.status)
        BY <1>1, <1>4, <2>1, <2>2, LoggedGrows
    <3> QED BY <1>4, <3>1 DEF Heard
  <2>3. CASE Logged(log, db.status)
    <3>1. Logged(log', db.status)
        BY <1>1, <1>4, <2>3, LoggedGrows
    <3> QED BY <1>4, <3>1 DEF Heard
  <2>4. CASE \E u \in (Job \cup Canceller) \ {t} : pc[u] = Speaking[db.status]
    <3>1. \E u \in Job \cup Canceller : pc'[u] = Speaking[db'.status]
        BY <1>1, <1>4, <2>4
    <3> QED BY <3>1 DEF Heard
  <2> QED BY <1>4, <2>2, <2>3, <2>4 DEF CancelInv, Heard
<1>5. CASE crashes # 0
    BY <1>5 DEF Heard
<1>6. CASE crashes = 0 /\ db'.status \in Terminal /\ l # Speaking[db'.status]
    BY <1>4, <1>6 DEF Says
<1> QED BY <1>2, <1>3, <1>4, <1>5, <1>6 DEF Says

LEMMA CancelStep ==
    ASSUME CancelInv, Typed', Spawned', NEW t \in Job \cup Canceller, NEW l, NEW c, NEW m,
           Moves(t, l, c, m), UNCHANGED <<server, crashes, spawned, late>>,
           Passes(t, l), Says(t, l), Stays, ~m.plan.clears
    PROVE  CancelInv'
<1>1. /\ t \in Thread /\ t \notin Resumer /\ pc'[t] = l /\ me'[t] = m
      /\ \A u \in Thread \ {t} : pc'[u] = pc[u] /\ me'[u] = me[u]
    BY CancelFacts DEF Moves
<1>2. /\ \A j \in Job : j \in Thread /\ (j # t => pc'[j] = pc[j])
      /\ \A r \in Resumer : r # t /\ pc'[r] = pc[r]
    BY <1>1, ThreadKinds
<1>3. Unpaused'
  <2>1. \A j \in Job : pc'[j] \notin {"pause", "pubPaused"}
      BY <1>1, <1>2 DEF CancelInv, Unpaused, Passes
  <2>2. \A u \in Thread : ~me'[u].plan.clears
      BY <1>1 DEF CancelInv, Unpaused
  <2> QED BY <1>2, <2>1, <2>2 DEF CancelInv, Unpaused, Stays
<1>4. LastAlone'
    BY <1>1, <1>2 DEF CancelInv, LastAlone, Passes
<1>5. Halts'
    BY <1>1, <1>2 DEF CancelInv, Halts, Passes, Stays
<1>6. Heard'
    BY HeardStays
<1> QED BY <1>3, <1>4, <1>5, <1>6 DEF CancelInv

\* t reads, and moves.
LEMMA CancelMove ==
    ASSUME CancelInv, Typed', Spawned', NEW t \in Job \cup Canceller, NEW l, NEW c, NEW m,
           Moves(t, l, c, m), UNCHANGED <<db, log, server, crashes, spawned, late>>,
           Passes(t, l), pc[t] \notin {"pubCompleted", "pubFailed", "cancelPub"},
           ~m.plan.clears
    PROVE  CancelInv'
<1>1. Stays
    BY DEF CancelInv, Unpaused, Stays
<1>2. Says(t, l)
    BY DEF Says, Speaking, Terminal
<1> QED BY <1>1, <1>2, CancelStep

LEMMA CancelGoto ==
    ASSUME CancelInv, Typed', Spawned', NEW t \in Job \cup Canceller, NEW l \in Labels(t),
           Goto(t, l), UNCHANGED <<db, log, server, crashes, spawned, late, me>>,
           Passes(t, l), pc[t] \notin {"pubCompleted", "pubFailed", "cancelPub"}
    PROVE  CancelInv'
<1>1. Moves(t, l, ctx[t], me[t])
    BY CancelFacts, GotoMoves
<1> QED BY <1>1, CancelFacts, CancelMove

\* t commits a record in which nothing is paused.
LEMMA CancelCommits ==
    ASSUME CancelInv, NEW t \in Job \cup Canceller, NEW d, NEW l \in Labels(t),
           CommitGoto(t, d, l), d.token = NoToken, d.status # "paused", UNCHANGED me
    PROVE  db' = d /\ Moves(t, l, ctx[t], me[t])
<1>1. db' = d /\ Readable(d)
    BY DEF CommitGoto, Readable
<1>2. Goto(t, l)
    BY <1>1 DEF CommitGoto
<1> QED BY <1>1, <1>2, CancelFacts, GotoMoves

LEMMA CancelWrites ==
    ASSUME CancelInv, Typed', Spawned', NEW t \in Job \cup Canceller, NEW d,
           NEW l \in Labels(t), CommitGoto(t, d, l), d.token = NoToken, d.status # "paused",
           db.cancelReq => d.cancelReq,
           UNCHANGED <<log, server, crashes, spawned, late, me>>, Passes(t, l),
           \/ d.status \in Terminal /\ l = Speaking[d.status]
           \/ d.status \notin Terminal
           \/ /\ d.status = db.status
              /\ pc[t] \notin {"pubCompleted", "pubFailed", "cancelPub"}
    PROVE  CancelInv'
<1>1. db' = d /\ Moves(t, l, ctx[t], me[t])
    BY CancelCommits
<1>2. Stays
    BY <1>1 DEF Stays
<1>3. Says(t, l)
    BY <1>1 DEF Says, Speaking, Terminal
<1> QED BY <1>1, <1>2, <1>3, CancelFacts, CancelStep

\* t publishes, the event of the status it wrote where it wrote a terminal one.
LEMMA CancelPublishes ==
    ASSUME CancelInv, Typed', Spawned', NEW t \in Job \cup Canceller, NEW l, NEW c,
           NEW kind \in EventKind, Publish(kind), Moves(t, l, c, me[t]),
           UNCHANGED <<db, server, crashes, spawned, late>>, Passes(t, l),
           \/ pc[t] \notin {"pubCompleted", "pubFailed", "cancelPub"}
           \/ kind \in Terminal /\ pc[t] = Speaking[kind]
    PROVE  CancelInv'
<1>1. Stays
    BY DEF CancelInv, Unpaused, Stays
<1>2. log' = Append(log, kind)
    BY DEF Publish
<1>3. db.status \in Terminal /\ pc[t] = Speaking[db.status] => db.status = kind
    BY DEF Terminal, Speaking
<1>4. Says(t, l)
    BY <1>2, <1>3 DEF Says
<1> QED BY <1>1, <1>4, CancelFacts, CancelStep

-----------------------------------------------------------------------------
(* _cancelled *)

\* The answer moves a thread; only FALSE lets a job go on to a step.
LEMMA AnswerCancels ==
    ASSUME CancelInv, NEW t \in Job \cup Canceller, NEW b \in BOOLEAN, Answer(t, b),
           pc[t] \in CheckLabel, b \/ pc[t] = "checkStop",
           NEW m \in LocalType, me' = [me EXCEPT ![t] = m]
    PROVE  \E l, c : Moves(t, l, c, m) /\ Passes(t, l)
<1>1. PICK l, c : /\ Moves(t, l, c, m)
                  /\ t \in Job => l \in {"check", "exec", "returned", "read", "failStep", "chat",
                                         "finish"}
                  /\ t \in Job /\ l = "read" => ~b
    BY CancelFacts, AnswerMoves, ThreadKinds
<1>2. Passes(t, l)
    BY <1>1 DEF Passes, Unaware, CheckLabel
<1> QED BY <1>1, <1>2

LEMMA CheckRecordCancels ==
    ASSUME CancelInv, Typed', Spawned', NEW t \in Job \cup Canceller, CheckRecord(t)
    PROVE  CancelInv'
<1> DEFINE m == [me[t] EXCEPT !.snap = db.status]
<1>1. /\ pc[t] = "check" /\ Readable(db)
      /\ UNCHANGED <<db, log, server, crashes, spawned, late>>
    BY CancelFacts DEF CheckRecord, durable, control, history
<1>2. /\ me' = [me EXCEPT ![t] = m]
      /\ \/ Answer(t, TRUE) \/ Goto(t, "cancelLoad")
         \/ ~db.cancelReq /\ Goto(t, "checkStop")
    BY <1>1 DEF CheckRecord, Cancelling
<1>3. m \in LocalType /\ ~m.plan.clears
    BY CancelFacts DEF LocalType, RecordType
<1> HIDE DEF m
<1>4. CASE Answer(t, TRUE)
  <2>1. PICK l, c : Moves(t, l, c, m) /\ Passes(t, l)
      BY <1>1, <1>2, <1>3, <1>4, AnswerCancels DEF CheckLabel
  <2> QED BY <1>1, <1>3, <2>1, CancelMove
<1>5. CASE \E l \in {"cancelLoad", "checkStop"} : Goto(t, l) /\ (l = "checkStop" => ~db.cancelReq)
  <2>1. PICK l \in {"cancelLoad", "checkStop"} : Goto(t, l) /\ (l = "checkStop" => ~db.cancelReq)
      BY <1>5
  <2>2. l \in Labels(t)
      BY <2>1, CancelFacts DEF JobLabel, ApiLabel
  <2>3. Moves(t, l, ctx[t], m)
      BY <1>2, <1>3, <2>1, <2>2, CancelFacts, GotoMoves
  <2>4. Passes(t, l)
      BY <1>1, <2>1 DEF Passes, Unaware
  <2> QED BY <1>1, <1>3, <2>3, <2>4, CancelMove
<1> QED BY <1>2, <1>4, <1>5

LEMMA CheckStopCancels ==
    ASSUME CancelInv, Typed', Spawned', NEW t \in Job \cup Canceller, CheckStop(t)
    PROVE  CancelInv'
<1>1. /\ pc[t] = "checkStop" /\ UNCHANGED <<db, log, server, crashes, spawned, late, me>>
      /\ Answer(t, TRUE) \/ Answer(t, FALSE) \/ Goto(t, "cancelLoad")
    BY DEF CheckStop, Cancelling, durable, control, history
<1>2. CASE \E b \in BOOLEAN : Answer(t, b)
  <2>1. PICK l, c : Moves(t, l, c, me[t]) /\ Passes(t, l)
      BY <1>1, <1>2, CancelFacts, AnswerCancels DEF CheckLabel
  <2> QED BY <1>1, <2>1, CancelFacts, CancelMove
<1>3. CASE Goto(t, "cancelLoad")
  <2>1. "cancelLoad" \in Labels(t) /\ Passes(t, "cancelLoad")
      BY <1>1, CancelFacts DEF JobLabel, ApiLabel, Passes, Unaware
  <2> QED BY <1>1, <1>3, <2>1, CancelGoto
<1> QED BY <1>1, <1>2, <1>3

LEMMA CancelLoadCancels ==
    ASSUME CancelInv, Typed', Spawned', NEW t \in Job \cup Canceller, CancelLoad(t)
    PROVE  CancelInv'
<1> DEFINE m == [me[t] EXCEPT !.plan = CancelPlan(db)]
<1>1. /\ pc[t] = "cancelLoad" /\ UNCHANGED <<db, log, server, crashes, spawned, late>>
      /\ me' = [me EXCEPT ![t] = m] /\ Goto(t, "cancelCommit")
    BY DEF CancelLoad, durable, control, history
<1>2. CancelPlan(db) \in [writes: BOOLEAN, clears: BOOLEAN]
    BY CancelFacts, CancelsTyped
<1>3. ~CancelPlan(db).clears
    BY DEF CancelPlan, CancelInv, Unpaused
<1>4. m \in LocalType /\ m.plan = CancelPlan(db)
    BY <1>2, CancelFacts DEF LocalType
<1> HIDE DEF m
<1>5. "cancelCommit" \in Labels(t) /\ Passes(t, "cancelCommit")
    BY <1>1, CancelFacts DEF JobLabel, ApiLabel, Passes, Unaware
<1>6. Moves(t, "cancelCommit", ctx[t], m)
    BY <1>1, <1>4, <1>5, CancelFacts, GotoMoves
<1>7. ~m.plan.clears
    BY <1>3, <1>4
<1> QED BY <1>1, <1>5, <1>6, <1>7, CancelMove

LEMMA CancelCommitCancels ==
    ASSUME CancelInv, Typed', Spawned', NEW t \in Job \cup Canceller, CancelCommit(t)
    PROVE  CancelInv'
<1> DEFINE d == Cancel(db, me[t].plan)
<1>1. /\ pc[t] = "cancelCommit" /\ UNCHANGED <<log, server, crashes, spawned, late, me>>
      /\ CommitGoto(t, d, "cancelPub")
    BY DEF CancelCommit, control, history
<1>2. d = IF me[t].plan.writes THEN SetStatus(db, "cancelled") ELSE db
    BY CancelFacts DEF Cancel
<1>3. /\ d.token = NoToken /\ d.status # "paused" /\ d.cancelReq = db.cancelReq
      /\ d.status = "cancelled" \/ d.status = db.status
    BY <1>2, CancelFacts DEF SetStatus, RecordType, CancelInv, Unpaused
<1> HIDE DEF d
<1>4. "cancelPub" \in Labels(t) /\ Passes(t, "cancelPub")
    BY <1>1, CancelFacts DEF JobLabel, ApiLabel, Passes, Unaware
<1>5. d.status = "cancelled" => d.status \in Terminal /\ Speaking[d.status] = "cancelPub"
    BY DEF Terminal, Speaking
<1> QED BY <1>1, <1>3, <1>4, <1>5, CancelWrites

LEMMA CancelPublishCancels ==
    ASSUME CancelInv, Typed', Spawned', NEW t \in Job \cup Canceller, CancelPublish(t)
    PROVE  CancelInv'
<1>1. /\ pc[t] = "cancelPub" /\ UNCHANGED <<db, server, crashes, spawned, late, me>>
      /\ Publish("cancelled") /\ Answer(t, TRUE)
    BY DEF CancelPublish, control, history
<1>2. PICK l, c : Moves(t, l, c, me[t]) /\ Passes(t, l)
    BY <1>1, CancelFacts, AnswerCancels DEF CheckLabel
<1>3. "cancelled" \in EventKind /\ "cancelled" \in Terminal /\ pc[t] = Speaking["cancelled"]
    BY <1>1 DEF EventKind, Terminal, Speaking
<1> QED BY <1>1, <1>2, <1>3, CancelPublishes

LEMMA CancelledCancels ==
    ASSUME CancelInv, Typed', Spawned', NEW t \in Job \cup Canceller, Cancelled(t)
    PROVE  CancelInv'
    BY CheckRecordCancels, CheckStopCancels, CancelLoadCancels, CancelCommitCancels,
       CancelPublishCancels
    DEF Cancelled

-----------------------------------------------------------------------------
(* execute_plan_job *)

\* A job that does not hold back goes to l.
LEMMA JobPasses ==
    ASSUME NEW j \in Job, pc[j] \notin {"off", "done"}, NEW l,
           l \notin {"pause", "pubPaused"}, l \in Unaware => pc[j] \in Unaware
    PROVE  Passes(j, l)
    BY DEF Passes

LEMMA BeginCancels ==
    ASSUME CancelInv, Typed', Spawned', NEW j \in Job, Begin(j) PROVE CancelInv'
<1>1. /\ pc[j] = "begin" /\ UNCHANGED <<db, log, server, crashes, spawned, late, me>>
      /\ \E l \in {"mark", "load"} : Goto(j, l)
    BY CancelFacts DEF Begin, durable, control, history
<1>2. PICK l \in {"mark", "load"} : Goto(j, l)
    BY <1>1
<1>3. l \in Labels(j) /\ Passes(j, l)
    BY <1>1, JobPasses, CancelFacts DEF JobLabel, Unaware
<1> QED BY <1>1, <1>2, <1>3, CancelGoto

\* A job writes the run's status.
LEMMA StatusCancels ==
    ASSUME CancelInv, Typed', Spawned', NEW j \in Job, pc[j] \notin {"off", "done"},
           NEW st \in RunStatus, NEW l \in JobLabel, CommitGoto(j, SetStatus(db, st), l),
           st # "paused", l \notin Unaware, l \notin {"pause", "pubPaused"},
           st \in Terminal => l = Speaking[st],
           UNCHANGED <<log, chat, control, me, history>>
    PROVE  CancelInv'
<1> DEFINE d == SetStatus(db, st)
<1>1. d.token = NoToken /\ d.status = st /\ d.cancelReq = db.cancelReq
    BY CancelFacts DEF SetStatus, RecordType, CancelInv, Unpaused
<1> HIDE DEF d
<1>2. CommitGoto(j, d, l)
    BY DEF d
<1>3. Passes(j, l) /\ l \in Labels(j)
    BY JobPasses, CancelFacts
<1>4. UNCHANGED <<log, server, crashes, spawned, late, me>>
    BY DEF control, history
<1> QED BY <1>1, <1>2, <1>3, <1>4, CancelWrites

LEMMA MarkRunningCancels ==
    ASSUME CancelInv, Typed', Spawned', NEW j \in Job, MarkRunning(j) PROVE CancelInv'
<1>1. "running" \in RunStatus /\ "running" \notin Terminal /\ "pubStarted" \in JobLabel
    BY DEF RunStatus, Terminal, JobLabel
<1> QED BY <1>1, StatusCancels DEF MarkRunning, Unaware

LEMMA FailRunCancels ==
    ASSUME CancelInv, Typed', Spawned', NEW j \in Job, FailRun(j) PROVE CancelInv'
<1>1. "failed" \in RunStatus /\ "pubFailed" \in JobLabel /\ Speaking["failed"] = "pubFailed"
    BY DEF RunStatus, JobLabel, Speaking
<1> QED BY <1>1, StatusCancels DEF FailRun, Unaware

LEMMA FinishRunCancels ==
    ASSUME CancelInv, Typed', Spawned', NEW j \in Job, FinishRun(j) PROVE CancelInv'
<1> DEFINE d == Complete(db, me[j].pay)
<1>1. /\ pc[j] = "finish" /\ CommitGoto(j, d, "pubCompleted")
      /\ UNCHANGED <<log, server, crashes, spawned, late, me>>
    BY DEF FinishRun, control, history
<1>2. d.token = NoToken /\ d.status = "completed" /\ d.cancelReq = db.cancelReq
    BY CancelFacts DEF Complete, RecordType, CancelInv, Unpaused
<1> HIDE DEF d
<1>3. Passes(j, "pubCompleted") /\ "pubCompleted" \in Labels(j)
    BY <1>1, JobPasses, CancelFacts DEF JobLabel, Unaware
<1>4. "completed" \in Terminal /\ Speaking["completed"] = "pubCompleted"
    BY DEF Terminal, Speaking
<1> QED BY <1>1, <1>2, <1>3, <1>4, CancelWrites

\* A job publishes, and goes on to l.
LEMMA PublishCancels ==
    ASSUME CancelInv, Typed', Spawned', NEW j \in Job, pc[j] \notin {"off", "done"},
           NEW kind \in EventKind, Publish(kind), NEW l \in JobLabel, Goto(j, l),
           l \notin Unaware, l \notin {"pause", "pubPaused"},
           UNCHANGED <<db, chat, control, me, history>>,
           \/ pc[j] \notin {"pubCompleted", "pubFailed", "cancelPub"}
           \/ kind \in Terminal /\ pc[j] = Speaking[kind]
    PROVE  CancelInv'
<1>1. Passes(j, l)
    BY JobPasses
<1>2. Moves(j, l, ctx[j], me[j])
    BY CancelFacts, GotoMoves
<1>3. UNCHANGED <<server, crashes, spawned, late>>
    BY DEF control, history
<1> QED BY <1>1, <1>2, <1>3, CancelPublishes

LEMMA PublishStartedCancels ==
    ASSUME CancelInv, Typed', Spawned', NEW j \in Job, PublishStarted(j) PROVE CancelInv'
<1>1. "started" \in EventKind /\ "load" \in JobLabel /\ "load" \notin Unaware
    BY DEF EventKind, JobLabel, Unaware
<1> QED BY <1>1, PublishCancels DEF PublishStarted

LEMMA PublishFailedCancels ==
    ASSUME CancelInv, Typed', Spawned', NEW j \in Job, PublishFailed(j) PROVE CancelInv'
<1>1. /\ "failed" \in EventKind /\ "failed" \in Terminal /\ Speaking["failed"] = "pubFailed"
      /\ "raised" \in JobLabel /\ "raised" \notin Unaware
    BY DEF EventKind, Terminal, Speaking, JobLabel, Unaware
<1>2. Publish("failed")
    BY CancelFacts DEF PublishFailed
<1> QED BY <1>1, <1>2, PublishCancels DEF PublishFailed

LEMMA PublishCompletedCancels ==
    ASSUME CancelInv, Typed', Spawned', NEW j \in Job, PublishCompleted(j) PROVE CancelInv'
<1>1. /\ "completed" \in EventKind /\ "completed" \in Terminal
      /\ Speaking["completed"] = "pubCompleted"
      /\ "returned" \in JobLabel /\ "returned" \notin Unaware
    BY DEF EventKind, Terminal, Speaking, JobLabel, Unaware
<1> QED BY <1>1, PublishCancels DEF PublishCompleted

LEMMA LoadOutputsCancels ==
    ASSUME CancelInv, Typed', Spawned', NEW j \in Job, LoadOutputs(j) PROVE CancelInv'
<1> DEFINE m == [me[j] EXCEPT !.have = {s \in db.value : db.step[s] = "completed"},
                              !.pay = db.outputs]
<1>1. /\ pc[j] = "load" /\ UNCHANGED <<db, log, server, crashes, spawned, late>>
      /\ me' = [me EXCEPT ![j] = m] /\ Evaluate(j, "loop")
    BY CancelFacts DEF LoadOutputs, durable, control, history
<1>2. db.value \subseteq Step /\ db.outputs \subseteq Step
    BY CancelFacts DEF RecordType
<1>3. m \in LocalType /\ m.plan = me[j].plan
    BY <1>2, CancelFacts DEF LocalType
<1> HIDE DEF m
<1>4. Moves(j, "check", "loop", m)
    BY <1>1, <1>3, CancelFacts, EvaluateMoves DEF Context
<1>5. Passes(j, "check")
    BY <1>1, JobPasses DEF Unaware
<1> QED BY <1>1, <1>3, <1>4, <1>5, CancelFacts, CancelMove

\* A job takes the next step of the plan, or leaves the loop.
LEMMA AdvanceCancels ==
    ASSUME CancelInv, Typed', Spawned', NEW j \in Job, Advance(j),
           pc[j] \in {"read", "skip", "complete"}, Stays, db'.status = db.status,
           UNCHANGED <<log, server, crashes, spawned, late>>
    PROVE  CancelInv'
<1> DEFINE c == IF me[j].pos = N THEN "end" ELSE "loop"
<1> DEFINE m == [me[j] EXCEPT !.pos = @ + 1]
<1>1. me' = [me EXCEPT ![j] = m] /\ Evaluate(j, c)
    BY DEF Advance
<1>2. m \in LocalType /\ m.plan = me[j].plan
    BY CancelFacts DEF LocalType
<1>3. c \in Context
    BY DEF Context
<1> HIDE DEF m, c
<1>4. Moves(j, "check", c, m)
    BY <1>1, <1>2, <1>3, CancelFacts, EvaluateMoves
<1>5. Passes(j, "check")
    BY JobPasses DEF Unaware
<1>6. Says(j, "check")
    BY DEF Says, Speaking, Terminal
<1> QED BY <1>2, <1>4, <1>5, <1>6, CancelFacts, CancelStep

LEMMA ReadStepCancels ==
    ASSUME CancelInv, Typed', Spawned', NEW j \in Job, ReadStep(j) PROVE CancelInv'
<1>1. /\ pc[j] = "read" /\ UNCHANGED <<db, log, server, crashes, spawned, late>>
      /\ \/ Advance(j)
         \/ UNCHANGED me /\ \E l \in {"skip", "start"} : Goto(j, l)
    BY CancelFacts DEF ReadStep, durable, control, history
<1>2. CASE Advance(j)
  <2>1. Stays
      BY <1>1 DEF CancelInv, Unpaused, Stays
  <2> QED BY <1>1, <1>2, <2>1, AdvanceCancels
<1>3. ASSUME NEW l \in {"skip", "start"}, UNCHANGED me, Goto(j, l) PROVE CancelInv'
  <2>1. l \in Labels(j) /\ Passes(j, l)
      BY <1>1, JobPasses, CancelFacts DEF JobLabel, Unaware
  <2> QED BY <1>1, <1>3, <2>1, CancelGoto
<1> QED BY <1>1, <1>2, <1>3

LEMMA StepWritesStay ==
    ASSUME CancelInv, NEW s
    PROVE  /\ \A st : LET d == SetStep(db, s, st) IN
                /\ d.token = NoToken /\ d.status # "paused" /\ d.status = db.status
                /\ d.cancelReq = db.cancelReq
           /\ \A v \in BOOLEAN : LET d == CompleteStep(db, s, v) IN
                /\ d.token = NoToken /\ d.status # "paused" /\ d.status = db.status
                /\ d.cancelReq = db.cancelReq
<1>1. db \in RecordType(Job) /\ db.token = NoToken /\ db.status # "paused"
    BY TypeParts DEF CancelInv, Typed, DataOK, Unpaused
<1> QED BY <1>1 DEF SetStep, CompleteStep, RecordType

LEMMA SkipStepCancels ==
    ASSUME CancelInv, Typed', Spawned', NEW j \in Job, SkipStep(j) PROVE CancelInv'
<1>1. /\ pc[j] = "skip" /\ UNCHANGED <<log, server, crashes, spawned, late>>
      /\ db' = SetStep(db, Step_(j), "skipped")
    BY DEF SkipStep, control, history
<1>2. db'.token = NoToken /\ db'.status # "paused" /\ db'.status = db.status
      /\ db'.cancelReq = db.cancelReq
    BY <1>1, StepWritesStay
<1>3. Advance(j)
    BY <1>2 DEF SkipStep, Readable
<1>4. Stays
    BY <1>2 DEF Stays
<1> QED BY <1>1, <1>2, <1>3, <1>4, AdvanceCancels

LEMMA FinishStepCancels ==
    ASSUME CancelInv, Typed', Spawned', NEW j \in Job, FinishStep(j) PROVE CancelInv'
<1> DEFINE v == Step_(j) \in me[j].have
<1>1. v \in BOOLEAN
    OBVIOUS
<1>2. /\ pc[j] = "complete" /\ UNCHANGED <<log, server, crashes, spawned, late>>
      /\ db' = CompleteStep(db, Step_(j), v)
    BY DEF FinishStep, control, history
<1> HIDE DEF v
<1>3. db'.token = NoToken /\ db'.status # "paused" /\ db'.status = db.status
      /\ db'.cancelReq = db.cancelReq
    BY <1>1, <1>2, StepWritesStay
<1>4. Advance(j)
    BY <1>3 DEF FinishStep, Readable
<1>5. Stays
    BY <1>3 DEF Stays
<1> QED BY <1>2, <1>3, <1>4, <1>5, AdvanceCancels

\* The step that counts: the handler begins, and with a request on record it is the last.
LEMMA StartStepCancels ==
    ASSUME CancelInv, Typed', Spawned', NEW j \in Job, StartStep(j) PROVE CancelInv'
<1> DEFINE d == SetStep(db, Step_(j), "running")
<1>1. /\ pc[j] = "start" /\ UNCHANGED <<log, server, crashes, spawned, me>>
      /\ late' = IF db.cancelReq /\ late < 2 THEN late + 1 ELSE late
      /\ CommitGoto(j, d, "exec")
    BY DEF StartStep, control
<1>2. /\ d.token = NoToken /\ d.status # "paused" /\ d.status = db.status
      /\ d.cancelReq = db.cancelReq
    BY StepWritesStay
<1> HIDE DEF d
<1>3. j \in Job \cup Canceller /\ "exec" \in Labels(j)
    BY CancelFacts DEF JobLabel
<1>4. db' = d /\ Moves(j, "exec", ctx[j], me[j])
    BY <1>1, <1>2, <1>3, CancelCommits
<1>5. /\ j \in Thread /\ pc'[j] = "exec" /\ UNCHANGED me
      /\ \A u \in Thread \ {j} : pc'[u] = pc[u]
    BY <1>1, <1>3, <1>4, CancelFacts DEF Moves
<1>6. /\ \A i \in Job : i \in Thread /\ (i # j => pc'[i] = pc[i])
      /\ \A r \in Resumer : r # j /\ pc'[r] = pc[r]
    BY <1>5, ThreadKinds
<1>7. Unpaused'
    BY <1>2, <1>4, <1>5, <1>6 DEF CancelInv, Unpaused
<1>8. LastAlone'
    BY <1>1, <1>5, <1>6 DEF CancelInv, LastAlone
<1>9. Halts'
  <2>1. late = 0
      BY <1>1 DEF CancelInv, Halts, Unaware
  <2>2. \A i \in Job : i # j => pc[i] \in {"off", "done"}
      BY <1>1 DEF CancelInv, LastAlone
  <2>3. \A i \in Job : pc'[i] \notin Unaware
      BY <1>5, <1>6, <2>2 DEF Unaware
  <2>4. late' # 0 => late' = 1 /\ db.cancelReq
      BY <1>1, <2>1
  <2> QED BY <1>2, <1>4, <2>3, <2>4 DEF Halts
<1>10. Heard'
  <2>1. Says(j, "exec")
      BY <1>1, <1>2, <1>4 DEF Says, Speaking, Terminal
  <2> QED BY <1>1, <1>3, <1>4, <2>1, HeardStays
<1> QED BY <1>7, <1>8, <1>9, <1>10 DEF CancelInv

\* A handler polls or raises.
LEMMA EvaluateCancels ==
    ASSUME CancelInv, Typed', Spawned', NEW j \in Job, pc[j] = "exec",
           NEW c \in {"poll", "except"}, Evaluate(j, c),
           UNCHANGED <<durable, control, me, history>>
    PROVE  CancelInv'
<1>1. Moves(j, "check", c, me[j])
    BY CancelFacts, EvaluateMoves DEF Context
<1>2. Passes(j, "check")
    BY JobPasses DEF Unaware
<1>3. UNCHANGED <<db, log, server, crashes, spawned, late>>
    BY DEF durable, control, history
<1> QED BY <1>1, <1>2, <1>3, CancelFacts, CancelMove

LEMMA HandlerSucceedsCancels ==
    ASSUME CancelInv, Typed', Spawned', NEW j \in Job, HandlerSucceeds(j) PROVE CancelInv'
<1>1. PICK hasValue \in BOOLEAN :
        me' = [me EXCEPT
              ![j].have = IF hasValue THEN @ \cup {Step_(j)} ELSE @ \ {Step_(j)},
              ![j].pay = @ \cup ({Step_(j)} \cap Terminals)]
    BY DEF HandlerSucceeds
<1> DEFINE m == [me[j] EXCEPT
              !.have = IF hasValue THEN @ \cup {Step_(j)} ELSE @ \ {Step_(j)},
              !.pay = @ \cup ({Step_(j)} \cap Terminals)]
<1>2. /\ pc[j] = "exec" /\ UNCHANGED <<db, log, server, crashes, spawned, late>>
      /\ Goto(j, "complete")
    BY DEF HandlerSucceeds, durable, control
<1>3. me' = [me EXCEPT ![j] = m]
    BY <1>1, CancelFacts DEF ThreadsOK, LocalType
<1>4. Step_(j) \in Step
    BY <1>2, JobFacts DEF CancelInv, Step_, AfterLoop, CheckLabel
<1>5. m \in LocalType /\ m.plan = me[j].plan
    BY <1>4, CancelFacts DEF LocalType
<1> HIDE DEF m
<1>6. "complete" \in Labels(j) /\ Passes(j, "complete")
    BY <1>2, JobPasses, CancelFacts DEF JobLabel, Unaware
<1>7. Moves(j, "complete", ctx[j], m)
    BY <1>2, <1>3, <1>5, <1>6, CancelFacts, GotoMoves
<1> QED BY <1>2, <1>5, <1>6, <1>7, CancelFacts, CancelMove

LEMMA HandlerReturnsCancels ==
    ASSUME NoGates, CancelInv, Typed', Spawned', NEW j \in Job, HandlerReturns(j)
    PROVE  CancelInv'
<1>1. ~HandlerPauses(j)
    BY DEF NoGates, HandlerPauses
<1>2. HandlerRaises(j) => CancelInv'
    BY EvaluateCancels DEF HandlerRaises
<1> QED BY <1>1, <1>2, HandlerSucceedsCancels DEF HandlerReturns

LEMMA FailStepCancels ==
    ASSUME CancelInv, Typed', Spawned', NEW j \in Job, FailStep(j) PROVE CancelInv'
<1> DEFINE d == SetStep(db, Step_(j), "failed")
<1>1. /\ pc[j] = "failStep" /\ UNCHANGED <<log, server, crashes, spawned, late, me>>
      /\ CommitGoto(j, d, "failRun")
    BY DEF FailStep, control, history
<1>2. /\ d.token = NoToken /\ d.status # "paused" /\ d.status = db.status
      /\ d.cancelReq = db.cancelReq
    BY StepWritesStay
<1> HIDE DEF d
<1>3. "failRun" \in Labels(j) /\ Passes(j, "failRun")
    BY <1>1, JobPasses, CancelFacts DEF JobLabel, Unaware
<1> QED BY <1>1, <1>2, <1>3, CancelWrites

LEMMA AppendChatCancels ==
    ASSUME CancelInv, Typed', Spawned', NEW j \in Job, AppendChat(j) PROVE CancelInv'
<1>1. /\ pc[j] = "chat" /\ UNCHANGED <<db, log, server, crashes, spawned, late, me>>
      /\ \E l \in {"finish", "failRun"} : Goto(j, l)
    BY DEF AppendChat, control, history
<1>2. PICK l \in {"finish", "failRun"} : Goto(j, l)
    BY <1>1
<1>3. l \in Labels(j) /\ Passes(j, l)
    BY <1>1, JobPasses, CancelFacts DEF JobLabel, Unaware
<1> QED BY <1>1, <1>2, <1>3, CancelGoto

LEMMA EndJobCancels ==
    ASSUME CancelInv, Typed', Spawned', NEW j \in Job, EndJob(j) PROVE CancelInv'
<1>1. /\ pc[j] \in {"returned", "raised"} /\ Goto(j, "done")
      /\ UNCHANGED <<db, log, server, crashes, spawned, late>>
      /\ me' = [me EXCEPT ![j] = NewLocals]
    BY DEF EndJob, durable, history
<1>2. NewLocals \in LocalType /\ ~NewLocals.plan.clears
    BY NewLocalsTyped DEF NewLocals, NoPlan
<1>3. "done" \in Labels(j) /\ Passes(j, "done")
    BY <1>1, JobPasses, CancelFacts DEF JobLabel, Unaware
<1>4. Moves(j, "done", ctx[j], NewLocals)
    BY <1>1, <1>2, <1>3, CancelFacts, GotoMoves
<1> QED BY <1>1, <1>2, <1>3, <1>4, CancelMove

LEMMA RunJobCancels ==
    ASSUME NoGates, CancelInv, Typed', Spawned', NEW j \in Job, RunJob(j)
    PROVE  CancelInv'
<1>1. ~PauseRun(j) /\ ~PublishPaused(j)
    BY DEF CancelInv, Unpaused, PauseRun, PublishPaused
<1>2. HandlerPolls(j) => CancelInv'
    BY EvaluateCancels DEF HandlerPolls
<1>3. Execute(j) => CancelInv'
    BY <1>1, BeginCancels, MarkRunningCancels, PublishStartedCancels, LoadOutputsCancels,
       ReadStepCancels, SkipStepCancels, StartStepCancels, FinishStepCancels,
       FailStepCancels, FailRunCancels, PublishFailedCancels, AppendChatCancels,
       FinishRunCancels, PublishCompletedCancels, EndJobCancels
    DEF Execute
<1> QED BY <1>2, <1>3, HandlerReturnsCancels, CancelledCancels DEF RunJob

-----------------------------------------------------------------------------
(* The cancel calls and the process *)

LEMMA CallPasses ==
    ASSUME NEW c \in Canceller, NEW l
    PROVE  Passes(c, l)
    BY ThreadKinds DEF Passes

LEMMA RequestCancelReadCancels ==
    ASSUME CancelInv, Typed', Spawned', NEW c \in Canceller, RequestCancelRead(c)
    PROVE  CancelInv'
<1> DEFINE m == [me[c] EXCEPT !.snap = db.status]
<1>1. pc[c] = "idle" /\ UNCHANGED <<db, log, server, crashes, spawned, late>>
    BY DEF RequestCancelRead, durable, control, history
<1>2. "request" \in Labels(c) /\ "done" \in Labels(c)
    BY CancelFacts DEF ApiLabel
<1>3. CASE me' = [me EXCEPT ![c] = m] /\ Goto(c, "request")
  <2>1. m \in LocalType /\ m.plan = me[c].plan
      BY CancelFacts DEF LocalType, RecordType
  <2> HIDE DEF m
  <2>2. Moves(c, "request", ctx[c], m)
      BY <1>2, <1>3, <2>1, CancelFacts, GotoMoves
  <2> QED BY <1>1, <2>1, <2>2, CallPasses, CancelFacts, CancelMove
<1>4. CASE Goto(c, "done") /\ UNCHANGED me
    BY <1>1, <1>2, <1>4, CallPasses, CancelGoto
<1> QED BY <1>3, <1>4 DEF RequestCancelRead

LEMMA RequestCancelCommitCancels ==
    ASSUME CancelInv, Typed', Spawned', NEW c \in Canceller, RequestCancelCommit(c)
    PROVE  CancelInv'
<1> DEFINE d == RequestCancel(db)
<1>1. /\ pc[c] = "request" /\ UNCHANGED <<log, server, crashes, spawned, late, me>>
      /\ CommitGoto(c, d, "pubRequested")
    BY DEF RequestCancelCommit, control, history
<1>2. db \in RecordType(Job) /\ db.token = NoToken /\ db.status # "paused"
    BY CancelFacts DEF CancelInv, Unpaused
<1>3. d = [db EXCEPT !.cancelReq = TRUE]
    BY <1>2 DEF RequestCancel
<1>4. d.token = NoToken /\ d.status # "paused" /\ d.status = db.status /\ d.cancelReq
    BY <1>2, <1>3 DEF RecordType
<1> HIDE DEF d
<1>5. "pubRequested" \in Labels(c) /\ Passes(c, "pubRequested")
    BY CancelFacts, CallPasses DEF ApiLabel
<1> QED BY <1>1, <1>4, <1>5, CancelWrites

LEMMA PublishRequestedCancels ==
    ASSUME CancelInv, Typed', Spawned', NEW c \in Canceller, PublishRequested(c)
    PROVE  CancelInv'
<1>1. /\ pc[c] = "pubRequested" /\ Publish("requested") /\ Goto(c, "stopJob")
      /\ UNCHANGED <<db, server, crashes, spawned, late, me>>
    BY DEF PublishRequested, control, history
<1>2. "requested" \in EventKind /\ "stopJob" \in Labels(c) /\ Passes(c, "stopJob")
    BY CancelFacts, CallPasses DEF EventKind, ApiLabel
<1>3. Moves(c, "stopJob", ctx[c], me[c])
    BY <1>1, <1>2, CancelFacts, GotoMoves
<1> QED BY <1>1, <1>2, <1>3, CancelPublishes

LEMMA StopJobCancels ==
    ASSUME CancelInv, Typed', Spawned', NEW c \in Canceller, StopJob(c)
    PROVE  CancelInv'
<1>1. /\ pc[c] = "stopJob" /\ UNCHANGED <<db, log, server, crashes, spawned, late, me>>
      /\ Evaluate(c, "api") \/ Goto(c, "done")
    BY DEF StopJob, durable, history
<1>2. Evaluate(c, "api") => Moves(c, "check", "api", me[c])
    BY <1>1, CancelFacts, EvaluateMoves DEF Context
<1>3. "done" \in Labels(c)
    BY CancelFacts DEF ApiLabel
<1>4. Goto(c, "done") => CancelInv'
    BY <1>1, <1>3, CallPasses, CancelGoto
<1>5. Evaluate(c, "api") => CancelInv'
    BY <1>1, <1>2, CallPasses, CancelFacts, CancelMove
<1> QED BY <1>1, <1>4, <1>5

LEMMA CallCancels ==
    ASSUME CancelInv, Typed', Spawned', NEW c \in Canceller, RequestCancelRead(c) \/ CancelCall(c)
    PROVE  CancelInv'
    BY RequestCancelReadCancels, RequestCancelCommitCancels, PublishRequestedCancels,
       StopJobCancels, CancelledCancels
    DEF CancelCall

\* Nobody can resume what was not paused.
LEMMA NobodyResumes ==
    ASSUME CancelInv, NEW r \in Resumer
    PROVE  ~(ResumeRead(r) \/ ResumeCall(r))
    BY DEF CancelInv, Unpaused, ResumeRead, ResumeCall, ConsumeLoad, ConsumeCommit,
           PublishResumed, StartResumed

LEMMA ShutdownCancels == ASSUME CancelInv, Typed', Spawned', Shutdown PROVE CancelInv'
<1>1. /\ UNCHANGED <<db, log, crashes, spawned, pc, me, late>> /\ server' = "stopping"
      /\ server = "up"
    BY DEF Shutdown, durable, locals, history
<1>2. Unpaused' /\ Heard'
    BY <1>1 DEF CancelInv, Unpaused, Heard
<1>3. LastAlone'
    BY <1>1 DEF CancelInv, LastAlone
<1>4. Halts'
    BY <1>1 DEF CancelInv, Halts
<1> QED BY <1>2, <1>3, <1>4 DEF CancelInv

LEMMA ExitCancels == ASSUME CancelInv, Typed', Spawned', Exit PROVE CancelInv'
<1>1. /\ server' = "down" /\ crashes' = crashes + 1 /\ UNCHANGED <<db, log, spawned, late>>
      /\ \A t \in Thread : me'[t] = NewLocals
      /\ \A j \in Job : pc'[j] = IF j <= spawned THEN "done" ELSE pc[j]
      /\ \A r \in Resumer : pc'[r] = "idle"
    BY ThreadKinds DEF Exit, durable, history
<1>2. \A j \in Job : pc'[j] \in {"off", "done"}
  <2>1. spawned \in 0..MaxJobs /\ MaxJobs \in Nat
      BY TypeParts, ConstantsAssumption DEF CancelInv, Typed, DataOK
  <2>2. \A j \in Job : j <= spawned \/ j > spawned
      BY <2>1 DEF Job
  <2> QED BY <1>1, <2>2 DEF CancelInv, Spawned
<1>3. crashes' # 0
    BY <1>1, TypeParts, ConstantsAssumption DEF CancelInv, Typed, DataOK
<1>4. Unpaused'
    BY <1>1, <1>2 DEF CancelInv, Unpaused, NewLocals, NoPlan
<1>5. LastAlone'
    BY <1>2, <1>3 DEF LastAlone
<1>6. Halts'
    BY <1>1, <1>2 DEF CancelInv, Halts, Unaware
<1>7. Heard'
    BY <1>3 DEF Heard
<1> QED BY <1>4, <1>5, <1>6, <1>7 DEF CancelInv

LEMMA StartupCancels == ASSUME CancelInv, Typed', Spawned', Startup PROVE CancelInv'
<1>1. CASE RecoverNothing \/ FailClosed \/ Requeue
  <2>1. /\ server = "down" /\ UNCHANGED <<crashes, spawned, pc, me, late>>
        /\ \/ db' = db
           \/ \E st \in {"failed", "queued"} : db' = SetStatus(db, st)
      BY <1>1 DEF RecoverNothing, FailClosed, Requeue, durable, locals, history
  <2>2. /\ crashes # 0 /\ \A j \in Job : pc[j] \in {"off", "done"}
        /\ db \in RecordType(Job)
      BY <2>1, TypeParts DEF CancelInv, LastAlone, Typed, DataOK
  <2>3. db'.token = NoToken /\ db'.status # "paused" /\ db'.cancelReq = db.cancelReq
      BY <2>1, <2>2 DEF CancelInv, Unpaused, SetStatus, RecordType
  <2>4. Unpaused'
      BY <2>1, <2>3 DEF CancelInv, Unpaused
  <2>5. LastAlone' /\ Heard'
      BY <2>1, <2>2 DEF LastAlone, Heard
  <2>6. Halts'
      BY <2>1, <2>3 DEF CancelInv, Halts
  <2> QED BY <2>4, <2>5, <2>6 DEF CancelInv
<1>2. CASE StartRecovered
  <2>1. /\ server = "recovering" /\ spawned < MaxJobs /\ spawned' = spawned + 1
        /\ pc' = [pc EXCEPT ![spawned + 1] = "begin"] /\ server' = "up"
        /\ UNCHANGED <<db, log, crashes, me, late>>
      BY <1>2 DEF StartRecovered, SpawnJob, durable, locals, history
  <2>2. /\ crashes # 0 /\ \A j \in Job : pc[j] \in {"off", "done"}
      BY <2>1 DEF CancelInv, LastAlone
  <2>3. spawned + 1 \in Job
      BY <2>1, TypeParts, ConstantsAssumption DEF CancelInv, Typed, DataOK, Job
  <2>4. /\ \A j \in Job : pc'[j] = IF j = spawned + 1 THEN "begin" ELSE pc[j]
        /\ \A r \in Resumer : pc'[r] = pc[r]
      BY <2>1, <2>3, TypeParts, ThreadKinds DEF CancelInv, Typed, ThreadsOK
  <2>5. Unpaused'
      BY <2>1, <2>4 DEF CancelInv, Unpaused
  <2>6. LastAlone' /\ Heard'
      BY <2>1, <2>2, <2>4 DEF LastAlone, Heard
  <2>7. Halts'
      BY <2>1, <2>2, <2>4 DEF CancelInv, Halts, Unaware
  <2> QED BY <2>5, <2>6, <2>7 DEF CancelInv
<1> QED BY <1>1, <1>2 DEF Startup

LEMMA InitCancels == Init => CancelInv
<1> SUFFICES ASSUME Init PROVE CancelInv
    OBVIOUS
<1>1. /\ \A j \in Job : pc[j] = IF j = 1 THEN "begin" ELSE "off"
      /\ \A r \in Resumer : pc[r] = "idle"
      /\ \A t \in Thread : me[t] = NewLocals
    BY ThreadKinds, ConstantsAssumption DEF Init, Job
<1>2. /\ db.token = NoToken /\ db.status = "queued" /\ late = 0 /\ server = "up" /\ spawned = 1
    BY DEF Init, NewRecord
<1>3. Unpaused
    BY <1>1, <1>2 DEF Unpaused, NewLocals, NoPlan
<1>4. LastAlone
    BY <1>1, <1>2 DEF LastAlone
<1>5. Halts
    BY <1>2 DEF Halts
<1>6. Heard
    BY <1>2 DEF Heard, Terminal
<1> QED BY <1>3, <1>4, <1>5, <1>6, InitTyped DEF CancelInv

LEMMA NextCancels == NoGates /\ CancelInv /\ [Next]_vars => CancelInv'
<1> SUFFICES ASSUME NoGates, CancelInv, [Next]_vars PROVE CancelInv'
    OBVIOUS
<1>1. Typed' /\ Spawned'
    BY NextTyped DEF CancelInv
<1>2. CASE UNCHANGED vars
  <2>1. UNCHANGED <<db, log, server, crashes, spawned, pc, me, late>>
      BY <1>2 DEF vars, durable, control, locals, history
  <2>2. Unpaused' /\ Heard'
      BY <2>1 DEF CancelInv, Unpaused, Heard
  <2>3. LastAlone' /\ Halts'
      BY <2>1 DEF CancelInv, LastAlone, Halts
  <2> QED BY <1>1, <2>2, <2>3 DEF CancelInv
<1> QED BY <1>1, <1>2, RunJobCancels, CallCancels, NobodyResumes, ShutdownCancels, ExitCancels,
           StartupCancels
        DEF Next, Rest

\* Whatever plan without review gates, however many cancel calls, failures and exits of
\* the process: after a cancellation request is on record at most one more handler begins.
THEOREM CancelledRunStops == ASSUME NoGates PROVE Spec => []CancelStopsSteps
<1>1. CancelInv /\ [Next]_vars => CancelInv'
    BY NextCancels
<1>2. CancelInv => CancelStopsSteps
    BY TypeParts DEF CancelInv, Typed, DataOK, Halts, CancelStopsSteps
<1> QED BY <1>1, <1>2, InitCancels, PTL DEF Spec

\* ... and when such a run has come to rest in a terminal status without an exit of the
\* process, the history holds the event of this status.
THEOREM CancelledRunIsAnnounced == ASSUME NoGates PROVE Spec => []RestIsAnnounced
<1>1. CancelInv /\ [Next]_vars => CancelInv'
    BY NextCancels
<1>2. CancelInv => RestIsAnnounced
  <2> SUFFICES ASSUME CancelInv, Settled, crashes = 0, db.status \in Terminal
               PROVE  \E k \in DOMAIN log : log[k] = db.status
      BY DEF RestIsAnnounced
  <2>1. \A t \in Job \cup Canceller : pc[t] # Speaking[db.status]
      BY DEF Settled, Speaking, Terminal
  <2> QED BY <2>1 DEF CancelInv, Heard, Logged
<1> QED BY <1>1, <1>2, InitCancels, PTL DEF Spec
=============================================================================
