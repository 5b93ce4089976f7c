---------------------------- MODULE ServicesProofs ----------------------------
(***************************************************************************)
(* Safety of the seven components of MCServices: the job manager, for any  *)
(* number of jobs, ids and retained entries; the downloads and the catalog *)
(* of the hub, for any files, revisions, queries and tokens; the chat      *)
(* history, for any number of callers and any limits; the migration, for   *)
(* any number of processes and revisions; the registry of nodes, for any   *)
(* manifests and file names; and the provider settings, for any number of  *)
(* keys, edits, profiles and requests.                                     *)
(*                                                                         *)
(* Every component has an inductive invariant of its own, a conjunction of *)
(* its types and of what its steps rely on, and a lemma for every action;  *)
(* a property of the bundle follows from the invariant of the component    *)
(* that which names.  The last section proves the types those invariants   *)
(* leave open.                                                             *)
(***************************************************************************)
EXTENDS MCServices, FiniteSetTheorems, WellFoundedInduction, TLAPS

------------------------------------------------------------------------------
(* jobs.py *)

\* A job whose runner has not left, from its registration on.
Working(j) == caller[j] # "off" /\ thread[j] \in {"off", "lookup", "run"}

JobId     == Id \cup {Jobs!NoJob}
JobStatus == {"none"} \cup Jobs!Live \cup Jobs!Terminal
JobState  == [id : JobId, status : JobStatus, stop : BOOLEAN]
ThreadPc  == {"off", "lookup", "run", "leaving", "returned", "raised", "complete", "fail",
              "last", "done"}

JobTypes ==
    /\ jobs \in [Id -> Jobs!Job \cup {Jobs!NoJob}]
    /\ threads \in [Id -> Jobs!Job \cup {Jobs!NoJob}]
    /\ state \in [Jobs!Job -> JobState]
    /\ started \in 0..MaxStarts
    /\ caller \in [Jobs!Job -> {"off", "registered", "listed", "marked", "back"}]
    /\ thread \in [Jobs!Job -> ThreadPc]
    /\ cancel \in [Canceller -> [job : Jobs!Job \cup {Jobs!NoJob},
                                 pc : {"idle", "drop", "stop", "dropped", "done"}]]
    /\ told \subseteq Jobs!Job
    /\ server \in [up : BOOLEAN, awaited : SUBSET Jobs!Job, exited : BOOLEAN]

\* The jobs called for so far are those that have an id, an entry of the registry or a
\* cancellation is of one of them, and a thread runs when its caller is back.
BegunAt(j) ==
    /\ caller[j] = "off" => j > started /\ thread[j] = "off"
    /\ caller[j] # "off" => j <= started /\ state[j].id \in Id /\ state[j].status # "none"
    /\ thread[j] # "off" => caller[j] = "back"
Entered(i) == jobs[i] # Jobs!NoJob => caller[jobs[i]] # "off" /\ state[jobs[i]].id = i
Aimed(c) ==
    cancel[c].pc \in {"drop", "stop"} => cancel[c].job \in Jobs!Job /\ caller[cancel[c].job] # "off"

JobBegun ==
    /\ \A j \in Jobs!Job : BegunAt(j)
    /\ \A i \in Id : Entered(i)
    /\ \A c \in Canceller : Aimed(c)
    /\ \A j \in told : caller[j] # "off"

\* One job of an id is at work at most.
JobAlone ==
    \A j, k \in Jobs!Job : Working(j) /\ Working(k) /\ state[j].id = state[k].id => j = k

\* A job at work is under its id or under none; one that was not told to stop is there,
\* with the status of its step.  Its thread is listed unless another job had its id.
FoundAt(j) ==
    /\ jobs[state[j].id] \in {j, Jobs!NoJob}
    /\ ~state[j].stop =>
         /\ jobs[state[j].id] = j
         /\ state[j].status = IF caller[j] \in {"registered", "listed"} THEN "pending"
                              ELSE "running"
    /\ caller[j] # "registered" =>
         \/ threads[state[j].id] = j
         \/ \E k \in Jobs!Job : k # j /\ caller[k] # "off" /\ state[k].id = state[j].id

JobFound == \A j \in Jobs!Job : Working(j) => FoundAt(j)

\* A job that was told to stop is not on its way to another end.
JobTold ==
    \A j \in told : state[j].stop /\ thread[j] \notin {"complete", "fail"}
                    /\ state[j].status \notin {"completed", "failed"}

\* A runner at work has not ended, and a shutdown finds every caller back.
JobLate ==
    /\ \A j \in Jobs!Job : state[j].status \in {"completed", "failed"} => thread[j] \in {"last", "done"}
    /\ ~server.up => \A j \in Jobs!Job : caller[j] \in {"off", "back"}

JobInv == JobTypes /\ JobBegun /\ JobAlone /\ JobFound /\ JobTold /\ JobLate
          /\ Jobs!ShutdownAwaitsWork

LEMMA JobStarts == Jobs!Init => JobInv
<1> SUFFICES ASSUME Jobs!Init PROVE JobInv
    OBVIOUS
<1> USE BoundsAssumption DEF Jobs!Init, Jobs!Job, Jobs!NoJob
<1>1. JobTypes
    BY DEF JobTypes, JobId, JobStatus, JobState, ThreadPc
<1>2. JobBegun /\ JobAlone /\ JobFound
    BY DEF JobBegun, BegunAt, Entered, Aimed, JobAlone, JobFound, Working
<1>3. JobTold /\ JobLate /\ Jobs!ShutdownAwaitsWork
    BY DEF JobTold, JobLate, Jobs!ShutdownAwaitsWork
<1>. QED
    BY <1>1, <1>2, <1>3 DEF JobInv

LEMMA JobsReachable == JobInv => Jobs!JobsAreReachable
<1> SUFFICES ASSUME JobInv PROVE Jobs!JobsAreReachable
    OBVIOUS
<1> USE DEF JobInv, JobTypes, JobState, JobBegun, BegunAt, JobFound, FoundAt
<1>1. ASSUME NEW j \in Jobs!Job, thread[j] = "run"
      PROVE  Working(j) /\ state[j].id \in Id
    BY <1>1 DEF Working
<1>2. Jobs!WorkIsReachable
    BY <1>1 DEF Jobs!WorkIsReachable, Jobs!ShouldStop
<1>3. Jobs!ToldEndsCancelled
    BY DEF JobTold, Jobs!ToldEndsCancelled
<1>4. Jobs!FenceSeesWork
    BY <1>1 DEF Jobs!FenceSeesWork
<1>. QED
    BY <1>2, <1>3, <1>4 DEF Jobs!JobsAreReachable

LEMMA JobBegunStays ==
    ASSUME JobInv, started' = started,
           \A j \in Jobs!Job :
               /\ caller'[j] = "off" <=> caller[j] = "off"
               /\ thread'[j] # "off" => caller'[j] = "back"
               /\ state'[j].id = state[j].id
               /\ state[j].status # "none" => state'[j].status # "none",
           \A i \in Id : jobs'[i] \in {jobs[i], Jobs!NoJob},
           \A c \in Canceller : cancel'[c].pc \in {"drop", "stop"} =>
               cancel[c].pc \in {"drop", "stop"} /\ cancel'[c].job = cancel[c].job,
           \A j \in told' : j \in told \/ caller'[j] # "off"
    PROVE  JobBegun'
<1>1. \A j \in Jobs!Job : BegunAt(j)'
    BY DEF JobInv, JobBegun, BegunAt
<1>2. \A i \in Id : Entered(i)'
  <2> SUFFICES ASSUME NEW i \in Id, jobs'[i] # Jobs!NoJob
               PROVE  caller'[jobs'[i]] # "off" /\ state'[jobs'[i]].id = i
    BY DEF Entered
  <2>1. jobs'[i] = jobs[i] /\ jobs[i] \in Jobs!Job /\ Entered(i)
    BY DEF JobInv, JobTypes, JobBegun
  <2>. QED
    BY <2>1 DEF Entered
<1>3. \A c \in Canceller : Aimed(c)'
    BY DEF JobInv, JobBegun, Aimed
<1>4. \A j \in told' : caller'[j] # "off"
    BY DEF JobInv, JobTypes, JobBegun
<1>. QED
    BY <1>1, <1>2, <1>3, <1>4 DEF JobBegun

LEMMA JobRegisters ==
    ASSUME JobInv, NEW i \in Id, server.up, Jobs!Register(i)
    PROVE  JobInv'
<1> DEFINE j == started + 1
<1> USE BoundsAssumption DEF Jobs!Job, Jobs!NoJob
<1>1. /\ j \in Jobs!Job /\ caller[j] = "off" /\ thread[j] = "off"
      /\ started' = j
      /\ \A k \in Jobs!Job : state[k].id = i => thread[k] \notin {"off", "lookup", "run"}
    BY DEF JobInv, JobTypes, JobState, JobBegun, BegunAt, Jobs!Register, Jobs!MayReuse
<1>2. /\ state'[j] = [id |-> i, status |-> "pending", stop |-> FALSE]
      /\ caller'[j] = "registered" /\ jobs'[i] = j
      /\ \A k \in Jobs!Job \ {j} : state'[k] = state[k] /\ caller'[k] = caller[k]
      /\ \A h \in Id \ {i} : jobs'[h] = jobs[h]
      /\ UNCHANGED <<threads, thread, cancel, told, server>>
    BY <1>1 DEF JobInv, JobTypes, JobState, Jobs!Register
<1>3. JobTypes'
  <2>1. state \in [Jobs!Job -> JobState]
        /\ [id |-> i, status |-> "pending", stop |-> FALSE] \in JobState
    BY DEF JobInv, JobTypes, JobState, JobId, JobStatus, Jobs!Live
  <2>2. state' \in [Jobs!Job -> JobState]
    BY <2>1, Zenon DEF Jobs!Register
  <2>3. jobs' \in [Id -> Jobs!Job \cup {Jobs!NoJob}] /\ started' \in 0..MaxStarts
        /\ caller' \in [Jobs!Job -> {"off", "registered", "listed", "marked", "back"}]
    BY <1>1 DEF JobInv, JobTypes, Jobs!Register
  <2>. QED
    BY <1>2, <2>2, <2>3, Zenon DEF JobInv, JobTypes
<1>4. JobBegun'
  <2>1. \A k \in Jobs!Job : BegunAt(k)'
    BY <1>1, <1>2 DEF JobInv, JobTypes, JobBegun, BegunAt
  <2>2. \A h \in Id : Entered(h)'
    <3> SUFFICES ASSUME NEW h \in Id, jobs'[h] # Jobs!NoJob
                 PROVE  caller'[jobs'[h]] # "off" /\ state'[jobs'[h]].id = h
      BY DEF Entered
    <3>1. CASE h = i
      BY <3>1, <1>1, <1>2
    <3>2. CASE h # i
      <4>1. jobs'[h] = jobs[h] /\ jobs[h] \in Jobs!Job \ {j} /\ Entered(h)
        BY <3>2, <1>1, <1>2 DEF JobInv, JobTypes, JobBegun, Entered
      <4>. QED
        BY <4>1, <1>2 DEF Entered
    <3>. QED
      BY <3>1, <3>2
  <2>3. \A c \in Canceller : Aimed(c)'
    BY <1>1, <1>2 DEF JobInv, JobBegun, Aimed
  <2>4. \A k \in told' : caller'[k] # "off"
    BY <1>1, <1>2 DEF JobInv, JobTypes, JobBegun
  <2>. QED
    BY <2>1, <2>2, <2>3, <2>4 DEF JobBegun
<1>5. JobAlone'
    BY <1>1, <1>2 DEF JobInv, JobTypes, JobState, JobAlone, Working
<1>6. JobFound'
  <2> SUFFICES ASSUME NEW k \in Jobs!Job, Working(k)' PROVE FoundAt(k)'
    BY DEF JobFound
  <2>1. CASE k = j
    BY <2>1, <1>1, <1>2 DEF JobInv, JobTypes, JobState, FoundAt
  <2>2. CASE k # j
    <3>1. Working(k) /\ state'[k] = state[k] /\ caller'[k] = caller[k] /\ state[k].id \in Id \ {i}
      BY <2>2, <1>1, <1>2 DEF JobInv, JobBegun, BegunAt, Working
    <3>2. ASSUME NEW h \in Jobs!Job, h # k, caller[h] # "off", state[h].id = state[k].id
          PROVE  caller'[h] # "off" /\ state'[h].id = state'[k].id
      BY <3>1, <3>2, <1>1, <1>2 DEF JobInv, JobBegun, JobTypes, JobState
    <3>. QED
      BY <3>1, <3>2, <1>2 DEF JobInv, JobFound, FoundAt
  <2>. QED
    BY <2>1, <2>2
<1>7. JobTold'
    BY <1>1, <1>2 DEF JobInv, JobTypes, JobState, JobTold, JobBegun
<1>8. JobLate' /\ Jobs!ShutdownAwaitsWork'
    BY <1>1, <1>2 DEF JobInv, JobTypes, JobState, JobLate, Jobs!ShutdownAwaitsWork
<1>. QED
    BY <1>3, <1>4, <1>5, <1>6, <1>7, <1>8 DEF JobInv

LEMMA JobLists ==
    ASSUME JobInv, NEW j \in Jobs!Job, Jobs!List(j)
    PROVE  JobInv'
<1> USE BoundsAssumption DEF Jobs!Job, Jobs!NoJob
<1>1. /\ state[j].id \in Id /\ thread[j] = "off" /\ caller[j] = "registered"
      /\ caller'[j] = "listed" /\ \A k \in Jobs!Job \ {j} : caller'[k] = caller[k]
      /\ threads'[state[j].id] = j
      /\ \A h \in Id \ {state[j].id} : threads'[h] = threads[h]
      /\ UNCHANGED <<jobs, state, started, thread, cancel, told, server>>
    BY DEF JobInv, JobTypes, JobState, JobBegun, BegunAt, Jobs!List
<1>2. JobTypes'
    BY <1>1 DEF JobInv, JobTypes, JobState, Jobs!List
<1>3. JobBegun'
    BY <1>1, JobBegunStays, SMTT(30) DEF JobInv, JobTypes, JobBegun, BegunAt
<1>4. JobAlone'
  <2>1. \A k \in Jobs!Job : (Working(k)' => Working(k)) /\ state'[k].id = state[k].id
    BY <1>1 DEF Working
  <2>. QED
    BY <2>1 DEF JobInv, JobAlone
<1>5. JobFound'
  <2> SUFFICES ASSUME NEW k \in Jobs!Job, Working(k)' PROVE FoundAt(k)'
    BY DEF JobFound
  <2>1. Working(k) /\ FoundAt(k) /\ Working(j)
    BY <1>1 DEF JobInv, JobTypes, JobState, JobFound, Working
  <2>2. k # j => state[k].id # state[j].id /\ state[k].id \in Id
    BY <2>1 DEF JobInv, JobAlone, JobBegun, BegunAt, Working
  <2>. QED
    BY <1>1, <2>1, <2>2 DEF FoundAt
<1>6. JobTold' /\ JobLate' /\ Jobs!ShutdownAwaitsWork'
    BY <1>1 DEF JobInv, JobTypes, JobState, JobTold, JobLate, Jobs!ShutdownAwaitsWork
<1>. QED
    BY <1>2, <1>3, <1>4, <1>5, <1>6 DEF JobInv

LEMMA JobMarks ==
    ASSUME JobInv, NEW j \in Jobs!Job, Jobs!MarkRunning(j)
    PROVE  JobInv'
<1> USE BoundsAssumption DEF Jobs!Job, Jobs!NoJob
<1>1. /\ caller[j] = "listed" /\ caller'[j] = "marked" /\ thread[j] = "off"
      /\ state'[j].id = state[j].id /\ state'[j].stop = state[j].stop
      /\ state'[j].status = "running"
      /\ \A k \in Jobs!Job \ {j} : state'[k] = state[k] /\ caller'[k] = caller[k]
      /\ UNCHANGED <<jobs, threads, started, thread, cancel, told, server>>
    BY DEF JobInv, JobTypes, JobState, JobBegun, BegunAt, Jobs!MarkRunning
<1>2. JobTypes'
  <2>1. state \in [Jobs!Job -> JobState] /\ "running" \in JobStatus
    BY DEF JobInv, JobTypes, JobStatus, Jobs!Live
  <2>2. state' \in [Jobs!Job -> JobState]
    BY <2>1, Zenon DEF JobState, Jobs!MarkRunning
  <2>3. caller' \in [Jobs!Job -> {"off", "registered", "listed", "marked", "back"}]
    BY DEF JobInv, JobTypes, Jobs!MarkRunning
  <2>. QED
    BY <1>1, <2>2, <2>3, Zenon DEF JobInv, JobTypes
<1>3. JobBegun'
    BY <1>1, JobBegunStays DEF JobInv, JobTypes, JobBegun, BegunAt
<1>4. JobAlone'
  <2>1. \A k \in Jobs!Job : (Working(k)' => Working(k)) /\ state'[k].id = state[k].id
    BY <1>1 DEF Working
  <2>. QED
    BY <2>1 DEF JobInv, JobAlone
<1>5. JobFound'
  <2> SUFFICES ASSUME NEW k \in Jobs!Job, Working(k)' PROVE FoundAt(k)'
    BY DEF JobFound
  <2>1. Working(k) /\ FoundAt(k) /\ Working(j)
    BY <1>1 DEF JobInv, JobTypes, JobState, JobFound, Working
  <2>2. k # j => state[k].id # state[j].id /\ state[k].id \in Id
    BY <2>1 DEF JobInv, JobAlone, JobBegun, BegunAt, Working
  <2>. QED
    BY <1>1, <2>1, <2>2 DEF FoundAt
<1>6. JobTold' /\ JobLate' /\ Jobs!ShutdownAwaitsWork'
    BY <1>1 DEF JobInv, JobTypes, JobState, JobTold, JobLate, Jobs!ShutdownAwaitsWork
<1>. QED
    BY <1>2, <1>3, <1>4, <1>5, <1>6 DEF JobInv

\* The steps of a thread that leave the registry and every status alone.
LEMMA JobWalks ==
    ASSUME JobInv, NEW j \in Jobs!Job,
           UNCHANGED <<jobs, threads, state, started, cancel, told, server>>,
           caller' \in [Jobs!Job -> {"off", "registered", "listed", "marked", "back"}],
           thread' \in [Jobs!Job -> ThreadPc],
           \A k \in Jobs!Job \ {j} : caller'[k] = caller[k] /\ thread'[k] = thread[k],
           \/ caller[j] = "marked" /\ caller'[j] = "back" /\ thread'[j] = "lookup"
           \/ /\ caller'[j] = caller[j] /\ thread[j] # "off" /\ thread'[j] # "off"
              /\ Working(j)' => Working(j)
              /\ thread'[j] \in {"complete", "fail"} => ~state[j].stop
              /\ thread[j] \in {"last", "done"} => thread'[j] \in {"last", "done"}
    PROVE  JobInv'
<1> USE BoundsAssumption DEF Jobs!Job, Jobs!NoJob
<1>1. /\ caller[j] = "off" <=> caller'[j] = "off"
      /\ Working(j)' => Working(j)
      /\ \A k \in Jobs!Job : Working(k)' => Working(k)
    BY DEF JobInv, JobTypes, JobState, JobBegun, BegunAt, Working
<1>2. JobTypes'
    BY DEF JobInv, JobTypes, JobState
<1>3. JobBegun'
    BY <1>1, JobBegunStays DEF JobInv, JobTypes, JobBegun, BegunAt
<1>4. JobAlone'
    BY <1>1 DEF JobInv, JobAlone
<1>5. JobFound'
  <2> SUFFICES ASSUME NEW k \in Jobs!Job, Working(k)' PROVE FoundAt(k)'
    BY DEF JobFound
  <2>1. FoundAt(k)
    BY <1>1 DEF JobInv, JobFound
  <2>. QED
    BY <2>1 DEF FoundAt
<1>6. JobTold'
    BY DEF JobInv, JobTypes, JobState, JobTold
<1>7. JobLate'
    BY DEF JobInv, JobTypes, JobState, JobLate, JobBegun, BegunAt
<1>8. Jobs!ShutdownAwaitsWork'
  <2>1. ASSUME NEW k \in Jobs!Job, ~server.up, thread'[k] \in {"lookup", "run"}
        PROVE  thread[k] \in {"lookup", "run"}
    BY <2>1 DEF JobInv, JobTypes, JobState, JobBegun, BegunAt, JobLate, Working
  <2>. QED
    BY <2>1 DEF JobInv, JobTypes, JobState, Jobs!ShutdownAwaitsWork
<1>. QED
    BY <1>2, <1>3, <1>4, <1>5, <1>6, <1>7, <1>8 DEF JobInv

\* The status of a job is written: when its thread ends, or when a cancellation drops it
\* or tells it to stop.
LEMMA JobEnds ==
    ASSUME JobInv, NEW j \in Jobs!Job, caller[j] # "off",
           NEW status \in JobStatus, NEW stop \in BOOLEAN,
           state' = [state EXCEPT ![j].status = status, ![j].stop = @ \/ stop],
           UNCHANGED <<jobs, threads, started, caller, server>>,
           cancel' \in [Canceller -> [job : Jobs!Job \cup {Jobs!NoJob},
                                      pc : {"idle", "drop", "stop", "dropped", "done"}]],
           \A c \in Canceller : cancel'[c].pc \in {"drop", "stop"} =>
               cancel[c].pc \in {"drop", "stop"} /\ cancel'[c].job = cancel[c].job,
           \/ /\ stop /\ thread' = thread
              /\ status = "cancelled" \/ status = state[j].status
              /\ told' = told \cup (IF thread[j] \in {"off", "lookup", "run"} THEN {j} ELSE {})
           \/ /\ thread' = [thread EXCEPT ![j] = "last"] /\ told' = told
              /\ status \in Jobs!Terminal
              /\ thread[j] \notin {"off", "lookup", "run"}
              /\ status = "cancelled" \/ thread[j] \in {"complete", "fail"}
    PROVE  JobInv'
<1> USE BoundsAssumption DEF Jobs!Job, Jobs!NoJob
<1>1. /\ state'[j].id = state[j].id /\ state'[j].status = status
      /\ state'[j].stop <=> state[j].stop \/ stop
      /\ \A k \in Jobs!Job \ {j} : state'[k] = state[k] /\ thread'[k] = thread[k]
      /\ \A k \in Jobs!Job : state'[k].id = state[k].id
      /\ \A k \in Jobs!Job : Working(k)' => Working(k)
      /\ Working(j)' => stop /\ thread' = thread
    BY DEF JobInv, JobTypes, JobState, Working
<1>2. JobTypes'
  <2>1. state' \in [Jobs!Job -> JobState]
    <3>1. state \in [Jobs!Job -> JobState]
      BY DEF JobInv, JobTypes, JobState
    <3>. QED
      BY <3>1, ZenonT(60) DEF JobState
  <2>2. thread' \in [Jobs!Job -> ThreadPc]
    <3>1. thread \in [Jobs!Job -> ThreadPc] /\ "last" \in ThreadPc
      BY DEF JobInv, JobTypes, JobState, ThreadPc
    <3>. QED
      BY <3>1, Zenon
  <2>3. told' \subseteq Jobs!Job
    BY DEF JobInv, JobTypes, JobState
  <2>. QED
    BY <2>1, <2>2, <2>3 DEF JobInv, JobTypes, JobState
<1>3. JobBegun'
  <2>1. \A k \in Jobs!Job :
            /\ caller'[k] = caller[k] /\ state'[k].id = state[k].id
            /\ thread'[k] # "off" => caller'[k] = "back"
            /\ state[k].status # "none" => state'[k].status # "none"
    <3>1. status # "none" \/ state[j].status = "none"
      BY DEF Jobs!Terminal
    <3>2. thread[j] # "off" \/ thread'[j] = thread[j]
      BY <1>1 DEF JobInv, JobTypes
    <3>3. ASSUME NEW k \in Jobs!Job PROVE thread'[k] # "off" => caller'[k] = "back"
      BY <1>1, <3>2 DEF JobInv, JobTypes, JobBegun, BegunAt
    <3>4. ASSUME NEW k \in Jobs!Job, state[k].status # "none" PROVE state'[k].status # "none"
      <4>1. CASE k = j
        BY <1>1, <3>1, <3>4, <4>1
      <4>2. CASE k # j
        BY <1>1, <3>4, <4>2
      <4>. QED
        BY <4>1, <4>2
    <3>5. caller' = caller /\ \A k \in Jobs!Job : state'[k].id = state[k].id
      BY <1>1
    <3>. QED
      BY <3>3, <3>4, <3>5
  <2>2. jobs' = jobs /\ started' = started /\ \A k \in told' : k \in told \/ caller'[k] # "off"
    OBVIOUS
  <2>. QED
    BY <2>1, <2>2, JobBegunStays
<1>4. JobAlone'
    BY <1>1, ZenonT(60) DEF JobInv, JobAlone
<1>5. JobFound'
  <2> SUFFICES ASSUME NEW k \in Jobs!Job, Working(k)' PROVE FoundAt(k)'
    BY DEF JobFound
  <2>1. FoundAt(k)
    BY <1>1 DEF JobInv, JobFound
  <2>. QED
    BY <2>1, <1>1, ZenonT(60) DEF FoundAt
<1>6. JobTold'
    BY <1>1 DEF JobInv, JobTypes, JobState, Jobs!Terminal, JobTold, JobLate
<1>7. JobLate'
    BY <1>1 DEF JobInv, JobTypes, JobState, JobLate
<1>8. Jobs!ShutdownAwaitsWork'
    BY <1>1 DEF JobInv, JobTypes, JobState, Jobs!Terminal, Jobs!ShutdownAwaitsWork
<1>. QED
    BY <1>2, <1>3, <1>4, <1>5, <1>6, <1>7, <1>8 DEF JobInv

LEMMA JobPrunes ==
    ASSUME JobInv, NEW j \in Jobs!Job, Jobs!Prune(j)
    PROVE  JobInv'
<1> USE BoundsAssumption DEF Jobs!Job, Jobs!NoJob
<1>1. /\ caller[j] # "off" /\ thread[j] = "last" /\ thread'[j] = "done" /\ state[j].id \in Id
      /\ \A k \in Jobs!Job \ {j} : thread'[k] = thread[k]
      /\ \A h \in Id \ {state[j].id} : threads'[h] = threads[h]
      /\ \A h \in Id : jobs'[h] \in {jobs[h], Jobs!NoJob}
      /\ UNCHANGED <<state, started, caller, cancel, told, server>>
    BY DEF JobInv, JobTypes, JobState, JobBegun, BegunAt, Jobs!Prune
<1>2. \A h \in Id : jobs[h] # Jobs!NoJob /\ state[jobs[h]].status \notin Jobs!Terminal
                    => jobs'[h] = jobs[h]
    BY DEF Jobs!Prune, Jobs!Stale
<1>3. \A k \in Jobs!Job : Working(k)' => k # j /\ Working(k)
    BY <1>1 DEF Working
<1>4. JobTypes'
  <2>1. jobs' \in [Id -> Jobs!Job \cup {Jobs!NoJob}]
    BY DEF JobInv, JobTypes, JobState, Jobs!Prune
  <2>. QED
    BY <2>1 DEF JobInv, JobTypes, ThreadPc, Jobs!Prune
<1>5. JobBegun'
    BY <1>1, JobBegunStays DEF JobInv, JobTypes, JobBegun, BegunAt
<1>6. JobAlone'
    BY <1>1, <1>3 DEF JobInv, JobAlone
<1>7. JobFound'
  <2> SUFFICES ASSUME NEW k \in Jobs!Job, Working(k)' PROVE FoundAt(k)'
    BY DEF JobFound
  <2>1. FoundAt(k) /\ state[k].id \in Id /\ k # j
    BY <1>3 DEF JobInv, JobFound, JobBegun, BegunAt, Working
  <2>2. state[k].id = state[j].id \/ threads'[state[k].id] = threads[state[k].id]
    BY <1>1, <2>1
  <2>3. ~state[k].stop => jobs'[state[k].id] = k
    BY <1>2, <2>1 DEF FoundAt, Jobs!Terminal
  <2>. QED
    BY <1>1, <2>1, <2>2, <2>3 DEF FoundAt
<1>8. JobTold'
    BY <1>1 DEF JobInv, JobTypes, JobState, JobTold
<1>9. JobLate'
    BY <1>1 DEF JobInv, JobLate
<1>10. Jobs!ShutdownAwaitsWork'
  <2> SUFFICES ASSUME ~server.up, ~server.exited, NEW k \in Jobs!Job,
                      thread'[k] \in {"lookup", "run"}
               PROVE  \/ k \in server.awaited \/ jobs'[state[k].id] # k
                      \/ state[k].status \in Jobs!Terminal
                      \/ \E h \in Jobs!Job : h # k /\ state[h].id = state[k].id
    BY <1>1 DEF Jobs!ShutdownAwaitsWork
  <2>1. k # j /\ thread[k] \in {"lookup", "run"} /\ state[k].id \in Id
    BY <1>1 DEF JobInv, JobBegun, BegunAt
  <2>. QED
    BY <2>1, <1>1 DEF JobInv, Jobs!ShutdownAwaitsWork
<1>. QED
    BY <1>4, <1>5, <1>6, <1>7, <1>8, <1>9, <1>10 DEF JobInv

LEMMA JobStops ==
    ASSUME JobInv, server.up, Jobs!Shutdown
    PROVE  JobInv'
<1> USE BoundsAssumption DEF Jobs!Job, Jobs!NoJob
<1> DEFINE active == {j \in Jobs!Job : \E i \in Id : jobs[i] = j /\ state[j].status \in Jobs!Live}
<1>1. /\ \A j \in Jobs!Job : state'[j] = IF j \in active THEN [state[j] EXCEPT !.stop = TRUE]
                                         ELSE state[j]
      /\ UNCHANGED <<jobs, threads, started, caller, thread, cancel>>
      /\ told' = told \cup {j \in active : thread[j] \in {"off", "lookup", "run"}}
      /\ server' = [up |-> FALSE, exited |-> FALSE,
                    awaited |-> {threads[state[j].id] : j \in active} \ {Jobs!NoJob}]
      /\ \A j \in Jobs!Job : caller[j] \in {"off", "back"}
    BY DEF Jobs!Shutdown
<1>2. \A j \in Jobs!Job : state[j] \in JobState
    BY DEF JobInv, JobTypes
<1>3. \A j \in active : caller[j] # "off" /\ state[j].id \in Id
    BY DEF JobInv, JobBegun, Entered
<1>4. \A j \in Jobs!Job :
          /\ state'[j] \in JobState
          /\ state'[j].id = state[j].id /\ state'[j].status = state[j].status
          /\ state[j].stop => state'[j].stop
          /\ j \in active => state'[j].stop
  <2> SUFFICES ASSUME NEW j \in Jobs!Job
               PROVE  /\ state'[j] \in JobState
                      /\ state'[j].id = state[j].id /\ state'[j].status = state[j].status
                      /\ state[j].stop => state'[j].stop
                      /\ j \in active => state'[j].stop
    OBVIOUS
  <2>1. CASE j \in active
    <3>1. state'[j] = [state[j] EXCEPT !.stop = TRUE]
      BY <2>1, <1>1
    <3>2. state'[j] \in JobState
      BY <3>1, <1>2, Zenon DEF JobState
    <3>. QED
      BY <3>1, <3>2, <1>2 DEF JobState
  <2>2. CASE j \notin active
    BY <2>2, <1>1, <1>2
  <2>. QED
    BY <2>1, <2>2
<1>5. JobTypes'
  <2>1. state' \in [Jobs!Job -> JobState]
    BY <1>4, Zenon DEF Jobs!Shutdown
  <2>2. told' \subseteq Jobs!Job
    BY <1>1 DEF JobInv, JobTypes
  <2>3. server' \in [up : BOOLEAN, awaited : SUBSET Jobs!Job, exited : BOOLEAN]
    BY <1>1, <1>3 DEF JobInv, JobTypes
  <2>. QED
    BY <1>1, <2>1, <2>2, <2>3, Zenon DEF JobInv, JobTypes
<1>6. JobBegun'
    BY <1>1, <1>3, <1>4, JobBegunStays DEF JobInv, JobTypes, JobBegun, BegunAt
<1>7. JobAlone'
    BY <1>1, <1>4 DEF JobInv, JobAlone, Working
<1>8. JobFound'
  <2> SUFFICES ASSUME NEW k \in Jobs!Job, Working(k)' PROVE FoundAt(k)'
    BY DEF JobFound
  <2>1. Working(k) /\ FoundAt(k)
    BY <1>1 DEF JobInv, JobFound, Working
  <2>. QED
    BY <2>1, <1>1, <1>4 DEF FoundAt
<1>9. JobTold'
  <2>1. ASSUME NEW j \in active, thread[j] \in {"off", "lookup", "run"}
        PROVE  state'[j].stop /\ state[j].status \notin {"completed", "failed"}
    BY <1>4 DEF Jobs!Live
  <2>. QED
    BY <2>1, <1>1, <1>4 DEF JobInv, JobTypes, JobTold
<1>10. JobLate'
    BY <1>1, <1>4 DEF JobInv, JobLate
<1>11. Jobs!ShutdownAwaitsWork'
  <2> SUFFICES ASSUME NEW j \in Jobs!Job, thread[j] \in {"lookup", "run"}
               PROVE  \/ j \in server'.awaited \/ jobs[state[j].id] # j
                      \/ state[j].status \in Jobs!Terminal
                      \/ \E k \in Jobs!Job : k # j /\ state[k].id = state[j].id
    BY <1>1, <1>4 DEF Jobs!ShutdownAwaitsWork
  <2>1. FoundAt(j) /\ state[j].id \in Id /\ caller[j] = "back"
    BY DEF JobInv, JobBegun, BegunAt, JobFound, Working
  <2>2. state[j].status # "none"
    BY <2>1 DEF JobInv, JobBegun, BegunAt
  <2>3. ASSUME jobs[state[j].id] = j, state[j].status \notin Jobs!Terminal,
               threads[state[j].id] = j
        PROVE  j \in server'.awaited
    <3>1. j \in active
      BY <2>1, <2>2, <2>3, <1>2 DEF JobState, JobStatus
    <3>. QED
      BY <3>1, <2>3, <1>1
  <2>. QED
    BY <2>1, <2>3 DEF FoundAt
<1>. QED
    BY <1>5, <1>6, <1>7, <1>8, <1>9, <1>10, <1>11 DEF JobInv

LEMMA JobSteps == JobInv /\ [Jobs!Next]_(Jobs!vars) => JobInv'
<1> SUFFICES ASSUME JobInv, [Jobs!Next]_(Jobs!vars) PROVE JobInv'
    OBVIOUS
<1>0. /\ JobTypes /\ state \in [Jobs!Job -> JobState] /\ thread \in [Jobs!Job -> ThreadPc]
      /\ \A j \in Jobs!Job : thread[j] # "off" => caller[j] = "back"
      /\ \A c \in Canceller : Aimed(c)
    BY DEF JobInv, JobTypes, JobBegun, BegunAt
<1>1. ASSUME NEW i \in Id, server.up, Jobs!Register(i) PROVE JobInv'
    BY <1>1, JobRegisters
<1>2. ASSUME NEW j \in Jobs!Job, Jobs!List(j) \/ Jobs!MarkRunning(j) \/ Jobs!Prune(j) PROVE JobInv'
    BY <1>2, JobLists, JobMarks, JobPrunes
<1>3. ASSUME NEW j \in Jobs!Job, Jobs!StartThread(j) \/ Jobs!Lookup(j) \/ Jobs!Leave(j)
      PROVE  JobInv'
  <2>1. CASE Jobs!StartThread(j)
    BY <1>0, <2>1, JobWalks DEF JobTypes, Jobs!StartThread, ThreadPc
  <2>2. CASE Jobs!Lookup(j)
    BY <1>0, <2>2, JobWalks DEF JobTypes, Jobs!Lookup, ThreadPc, Working
  <2>3. CASE Jobs!Leave(j)
    BY <1>0, <2>3, JobWalks DEF JobTypes, Jobs!Leave, ThreadPc, Working
  <2>. QED
    BY <1>3, <2>1, <2>2, <2>3
<1>4. ASSUME NEW j \in Jobs!Job, Jobs!ReadStop(j) PROVE JobInv'
  <2>1. CASE state[j].stop
    BY <1>0, <1>4, <2>1, JobEnds
       DEF JobTypes, Jobs!ReadStop, Jobs!End, Jobs!EndAs, Jobs!Terminal, JobStatus
  <2>2. CASE ~state[j].stop
    BY <1>0, <1>4, <2>2, JobWalks DEF JobTypes, Jobs!ReadStop, ThreadPc, Working
  <2>. QED
    BY <2>1, <2>2
<1>5. ASSUME NEW j \in Jobs!Job, Jobs!Finish(j) PROVE JobInv'
    BY <1>0, <1>5, JobEnds
       DEF JobTypes, Jobs!Finish, Jobs!End, Jobs!EndAs, Jobs!Terminal, JobStatus
<1>6. ASSUME NEW c \in Canceller, NEW i \in Id, server.up, Jobs!Decide(c, i) PROVE JobInv'
  <2>1. /\ jobs[i] \in Jobs!Job /\ caller[jobs[i]] # "off"
        /\ cancel \in [Canceller -> [job : Jobs!Job \cup {Jobs!NoJob},
                                     pc : {"idle", "drop", "stop", "dropped", "done"}]]
    BY <1>6 DEF JobInv, JobTypes, JobBegun, Entered, Jobs!Decide
  <2>2. PICK pc \in {"drop", "stop", "done"} :
            cancel' = [cancel EXCEPT ![c] = [job |-> jobs[i], pc |-> pc]]
    BY <1>6 DEF Jobs!Decide
  <2>3. UNCHANGED <<jobs, threads, state, started, caller, thread, told, server>>
    BY <1>6 DEF Jobs!Decide
  <2>4. cancel' \in [Canceller -> [job : Jobs!Job \cup {Jobs!NoJob},
                                  pc : {"idle", "drop", "stop", "dropped", "done"}]]
    BY <2>1, <2>2
  <2>5. JobTypes'
    BY <2>3, <2>4, Zenon DEF JobInv, JobTypes
  <2>6. JobBegun'
    <3>1. \A d \in Canceller : Aimed(d)'
      BY <1>0, <2>1, <2>2, <2>3 DEF Aimed
    <3>. QED
      BY <2>3, <3>1, Zenon DEF JobInv, JobBegun, BegunAt, Entered
  <2>7. (JobAlone /\ JobFound /\ JobTold /\ JobLate /\ Jobs!ShutdownAwaitsWork)'
    BY <2>3 DEF JobInv, JobAlone, JobFound, FoundAt, JobTold, JobLate, Working,
                Jobs!ShutdownAwaitsWork
  <2>. QED
    BY <2>5, <2>6, <2>7 DEF JobInv
<1>7. ASSUME NEW c \in Canceller, Jobs!Apply(c) PROVE JobInv'
  <2> DEFINE j == cancel[c].job
  <2>1. /\ j \in Jobs!Job /\ caller[j] # "off" /\ state[j].status \in JobStatus
        /\ cancel \in [Canceller -> [job : Jobs!Job \cup {Jobs!NoJob},
                                     pc : {"idle", "drop", "stop", "dropped", "done"}]]
    BY <1>0, <1>7 DEF JobTypes, JobState, Aimed, Jobs!Apply
  <2>2. /\ cancel' = [cancel EXCEPT ![c].pc = IF @ = "drop" THEN "dropped" ELSE "done"]
        /\ told' = told \cup (IF thread[j] \in {"off", "lookup", "run"} THEN {j} ELSE {})
        /\ UNCHANGED <<jobs, threads, started, caller, thread, server>>
    BY <1>7 DEF Jobs!Apply
  <2>3. /\ cancel' \in [Canceller -> [job : Jobs!Job \cup {Jobs!NoJob},
                                     pc : {"idle", "drop", "stop", "dropped", "done"}]]
        /\ \A d \in Canceller : cancel'[d].pc \in {"drop", "stop"} =>
               cancel[d].pc \in {"drop", "stop"} /\ cancel'[d].job = cancel[d].job
    BY <2>1, <2>2
  <2>4. CASE cancel[c].pc = "drop"
    <3>1. state' = [state EXCEPT ![j].status = "cancelled", ![j].stop = @ \/ TRUE]
      BY <1>7, <2>4 DEF Jobs!Apply, Jobs!EndAs
    <3>. QED
      BY <2>1, <2>2, <2>3, <3>1, JobEnds DEF JobStatus, Jobs!Terminal
  <2>5. CASE cancel[c].pc = "stop"
    <3>1. state' = [state EXCEPT ![j].stop = TRUE]
      BY <1>7, <2>5 DEF Jobs!Apply
    <3>2. [state[j] EXCEPT !.stop = TRUE] = [state[j] EXCEPT !.status = state[j].status, !.stop = @ \/ TRUE]
      BY <1>0, <2>1, Zenon DEF JobState
    <3>3. state' = [state EXCEPT ![j].status = state[j].status, ![j].stop = @ \/ TRUE]
      BY <3>1, <3>2, Zenon
    <3>. QED
      BY <2>1, <2>2, <2>3, <3>3, JobEnds
  <2>. QED
    BY <1>7, <2>4, <2>5 DEF Jobs!Apply
<1>8. CASE Jobs!Shutdown
    BY <1>8, JobStops DEF Jobs!Shutdown
<1>9. CASE Jobs!Exit
  <2>1. server' \in [up : BOOLEAN, awaited : SUBSET Jobs!Job, exited : BOOLEAN]
    BY <1>0, <1>9, Zenon DEF JobTypes, Jobs!Exit
  <2>2. /\ server'.exited /\ server'.up = server.up
        /\ UNCHANGED <<jobs, threads, state, started, caller, thread, cancel, told>>
    BY <1>0, <1>9 DEF JobTypes, Jobs!Exit
  <2>3. JobTypes' /\ JobBegun' /\ JobAlone' /\ JobFound' /\ JobTold'
    <3>1. JobTypes'
      BY <2>1, <2>2, Zenon DEF JobInv, JobTypes
    <3>2. JobBegun' /\ JobAlone' /\ JobFound' /\ JobTold'
      BY <1>9, <2>2 DEF JobInv, JobBegun, BegunAt, Entered, Aimed, JobAlone, JobFound, FoundAt,
                   JobTold, Working, Jobs!Exit
    <3>. QED
      BY <3>1, <3>2
  <2>4. JobLate' /\ Jobs!ShutdownAwaitsWork'
    BY <2>2, Zenon DEF JobInv, JobLate, Jobs!ShutdownAwaitsWork
  <2>. QED
    BY <2>3, <2>4 DEF JobInv
<1>10. CASE Jobs!Rest \/ UNCHANGED Jobs!vars
  <2>1. UNCHANGED <<jobs, threads, state, started, caller, thread, cancel, told, server>>
    BY <1>10 DEF Jobs!Rest, Jobs!vars
  <2>2. JobTypes'
    BY <2>1, Zenon DEF JobInv, JobTypes
  <2>3. (JobBegun /\ JobAlone /\ JobFound /\ JobTold /\ JobLate /\ Jobs!ShutdownAwaitsWork)'
    BY <2>1 DEF JobInv, JobBegun, BegunAt, Entered, Aimed, JobAlone, JobFound, FoundAt,
                JobTold, JobLate, Working, Jobs!ShutdownAwaitsWork
  <2>. QED
    BY <2>2, <2>3 DEF JobInv
<1>. QED
    BY <1>1, <1>2, <1>3, <1>4, <1>5, <1>6, <1>7, <1>8, <1>9, <1>10 DEF Jobs!Next

\* jobs.py: a runner at work is under its id, where a cancellation, the fence of the
\* database and a shutdown look for it, unless it has been told to stop; and a job that
\* was told to stop while it worked ends as cancelled.
THEOREM JobsAlwaysReachable == ServicesSpec => []JobsAreReachable
<1> DEFINE Inv == which = "jobs" => JobInv
<1>1. ServicesInit => Inv
    BY JobStarts DEF ServicesInit, JobsInit, DownloadsInit, CatalogInit, ChatInit, RegistryInit,
                     SchemaInit, SettingsInit
<1>2. Inv /\ [ServicesNext]_all => Inv'
  <2> SUFFICES ASSUME Inv, [ServicesNext]_all, which' = "jobs" PROVE JobInv'
    OBVIOUS
  <2>1. which = "jobs" /\ (JobsNext \/ UNCHANGED all)
    BY DEF ServicesNext, JobsNext, DownloadsNext, CatalogNext, ChatNext, RegistryNext,
           SchemaNext, SettingsNext, Stopped, all
  <2>2. [Jobs!Next]_(Jobs!vars)
    BY <2>1 DEF JobsNext, all, Jobs!vars
  <2>. QED
    BY <2>1, <2>2, JobSteps
<1>3. Inv => JobsAreReachable
    BY JobsReachable DEF JobsAreReachable
<1>. QED
    BY <1>1, <1>2, <1>3, PTL DEF ServicesSpec
------------------------------------------------------------------------------
(* chat_history.py *)

ChatPc    == {"idle", "load", "shorten", "model", "recorded", "end"}
ChatState == [pc : ChatPc, use : Chat!Use, kind : Chat!Kind, limit : ChatLimit \cup {1},
              turn : 0..MaxTurns, read : Seq(Chat!Message), stale : BOOLEAN]

ChatTypes ==
    /\ store \in [Chat!Kind -> Seq(Chat!Message)] /\ log \in [Chat!Kind -> Seq(Chat!Message)]
    /\ caller \in [Caller -> ChatState]
    /\ turns \in 0..MaxTurns /\ owned \subseteq 1..turns /\ completed \subseteq owned
    /\ raced \subseteq Chat!Kind

\* Only a chat run records its turn after its steps, and the turn of a caller is not
\* completed; recovery repeats what it finds recorded.
ChatAt(c) ==
    /\ caller[c].pc \in {"recorded", "end"} => caller[c].use = "chat"
    /\ caller[c].pc = "model" => caller[c].use # "view"
    /\ caller[c].pc = "idle" => caller[c].turn = 0
    /\ caller[c].pc # "idle" => (caller[c].use = "view" <=> caller[c].turn = 0)
    /\ caller[c].pc # "idle" => (caller[c].use = "chat" <=> caller[c].turn \in owned)
    /\ caller[c].turn \in 0..turns \ completed
    /\ caller[c].pc = "end" => caller[c].turn \in repeated

\* What a load has read is still stored, unless it knows better.
ChatFresh(c) ==
    caller[c].pc = "shorten" /\ ~caller[c].stale => caller[c].read = store[caller[c].kind]

ChatAlone ==
    \A c, d \in Caller : caller[c].turn = caller[d].turn /\ caller[c].turn # 0 => c = d

\* The turns that are recorded, and are completed or on their way there.
Recorded ==
    {t \in owned : \/ t \in completed
                   \/ \E c \in Caller : caller[c].pc \in {"recorded", "end"} /\ caller[c].turn = t}

ChatEntries(k) ==
    \A i \in 1..Len(log[k]) :
        /\ log[k][i].turn \in 1..turns
        /\ log[k][i].turn \in owned => log[k][i].turn \in Recorded
        /\ log[k][i].turn \in owned \ repeated =>
             \A j \in 1..Len(log[k]) : log[k][i] = log[k][j] => i = j

\* Message by message, s is the newest end of t.
NewestEnd(s, t) == Len(s) <= Len(t) /\ \A i \in 1..Len(s) : s[i] = t[Len(t) - Len(s) + i]

ChatKept(k) == NewestEnd(store[k], log[k]) /\ (log[k] # <<>> => store[k] # <<>>)

ChatInv ==
    /\ ChatTypes /\ ChatAlone
    /\ \A c \in Caller : ChatAt(c) /\ ChatFresh(c)
    /\ \A k \in Chat!Kind : ChatEntries(k)
    /\ \A k \in Chat!Kind \ raced : ChatKept(k)

LEMMA NewestEndIsSuffix ==
    ASSUME NEW M, NEW s \in Seq(M), NEW t \in Seq(M), NewestEnd(s, t)
    PROVE  Chat!IsSuffix(s, t)
<1> DEFINE rs == Chat!Reverse(s) rt == Chat!Reverse(t)
<1>1. /\ rs \in Seq(M) /\ Len(rs) = Len(s) /\ \A i \in 1..Len(s) : rs[i] = s[Len(s) - i + 1]
      /\ rt \in Seq(M) /\ Len(rt) = Len(t) /\ \A i \in 1..Len(t) : rt[i] = t[Len(t) - i + 1]
    BY DEF Chat!Reverse
<1> HIDE DEF rs, rt
<1>2. Len(s) \in Nat /\ Len(t) \in Nat /\ Len(s) <= Len(t)
    BY DEF NewestEnd
<1>3. \A i \in 1..Len(s) : rs[i] = rt[i]
  <2> SUFFICES ASSUME NEW i \in 1..Len(s) PROVE rs[i] = rt[i]
    OBVIOUS
  <2>1. Len(s) - i + 1 \in 1..Len(s) /\ Len(t) - Len(s) + (Len(s) - i + 1) = Len(t) - i + 1
    BY <1>2
  <2>2. s[Len(s) - i + 1] = t[Len(t) - Len(s) + (Len(s) - i + 1)]
    BY <2>1 DEF NewestEnd
  <2>3. i \in 1..Len(t)
    BY <1>2
  <2>4. rs[i] = s[Len(s) - i + 1] /\ rt[i] = t[Len(t) - i + 1]
    BY <2>3, <1>1
  <2>. QED
    BY <2>1, <2>2, <2>4
<1>4. SubSeq(rs, 1, Len(rs)) = SubSeq(rt, 1, Len(rs))
  <2>1. Len(rs) \in Nat /\ Len(rs) <= Len(rt) /\ \A i \in 1..Len(rs) : rs[i] = rt[i]
    BY <1>1, <1>2, <1>3
  <2>2. /\ SubSeq(rs, 1, Len(rs)) = [i \in 1..Len(rs) |-> rs[i]]
        /\ SubSeq(rt, 1, Len(rs)) = [i \in 1..Len(rs) |-> rt[i]]
    BY <1>1, <2>1
  <2>. QED
    BY <2>1, <2>2
<1>. QED
    BY <1>1, <1>2, <1>4 DEF Chat!IsSuffix, Chat!IsPrefix, rs, rt

LEMMA NewestEndTransitive ==
    ASSUME NEW M, NEW r \in Seq(M), NEW s \in Seq(M), NEW t \in Seq(M),
           NewestEnd(r, s), NewestEnd(s, t)
    PROVE  NewestEnd(r, t)
<1>1. Len(r) \in Nat /\ Len(s) \in Nat /\ Len(t) \in Nat /\ Len(r) <= Len(s) /\ Len(s) <= Len(t)
    BY DEF NewestEnd
<1>2. ASSUME NEW i \in 1..Len(r) PROVE r[i] = t[Len(t) - Len(r) + i]
  <2>1. Len(s) - Len(r) + i \in 1..Len(s)
        /\ Len(t) - Len(s) + (Len(s) - Len(r) + i) = Len(t) - Len(r) + i
    BY <1>1
  <2>2. r[i] = s[Len(s) - Len(r) + i]
    BY DEF NewestEnd
  <2>3. s[Len(s) - Len(r) + i] = t[Len(t) - Len(s) + (Len(s) - Len(r) + i)]
    BY <2>1 DEF NewestEnd
  <2>. QED
    BY <2>1, <2>2, <2>3
<1>. QED
    BY <1>1, <1>2 DEF NewestEnd

LEMMA NewestEndAppended ==
    ASSUME NEW M, NEW s \in Seq(M), NEW t \in Seq(M), NEW m \in Seq(M), NewestEnd(s, t)
    PROVE  NewestEnd(s \o m, t \o m)
<1>1. Len(s) \in Nat /\ Len(t) \in Nat /\ Len(m) \in Nat /\ Len(s) <= Len(t)
      /\ Len(s \o m) = Len(s) + Len(m) /\ Len(t \o m) = Len(t) + Len(m)
    BY DEF NewestEnd
<1>2. ASSUME NEW i \in 1..Len(s \o m) PROVE (s \o m)[i] = (t \o m)[Len(t \o m) - Len(s \o m) + i]
  <2>1. CASE i <= Len(s)
    <3>1. (s \o m)[i] = s[i] /\ Len(t) - Len(s) + i \in 1..Len(t) /\ s[i] = t[Len(t) - Len(s) + i]
      BY <2>1, <1>1 DEF NewestEnd
    <3>. QED
      BY <3>1, <1>1
  <2>2. CASE i > Len(s)
    BY <2>2, <1>1
  <2>. QED
    BY <1>1, <2>1, <2>2
<1>. QED
    BY <1>1, <1>2 DEF NewestEnd

LEMMA TrimmedKeeps ==
    ASSUME NEW M, NEW s \in Seq(M), NEW n \in Nat \ {0}
    PROVE  /\ Chat!Trimmed(s, n) \in Seq(M) /\ NewestEnd(Chat!Trimmed(s, n), s)
           /\ s # <<>> => Chat!Trimmed(s, n) # <<>>
<1>1. CASE Len(s) <= n
    BY <1>1 DEF Chat!Trimmed, NewestEnd
<1>2. CASE Len(s) > n
  <2> DEFINE r == SubSeq(s, Len(s) - n + 1, Len(s))
  <2>1. Len(s) \in Nat /\ r \in Seq(M) /\ Len(r) = n
        /\ \A i \in 1..n : r[i] = s[Len(s) - n + i]
    BY <1>2
  <2>2. Chat!Trimmed(s, n) = r
    BY <1>2, <2>1 DEF Chat!Trimmed
  <2> HIDE DEF r
  <2>3. NewestEnd(r, s) /\ r # <<>>
    BY <1>2, <2>1 DEF NewestEnd
  <2>. QED
    BY <2>1, <2>2, <2>3
<1>. QED
    BY <1>1, <1>2

LEMMA ChatStarts == Chat!Init => ChatInv
<1> SUFFICES ASSUME Chat!Init PROVE ChatInv
    OBVIOUS
<1> USE BoundsAssumption DEF Chat!Init
<1>1. Chat!Idle \in ChatState
    BY DEF Chat!Idle, ChatState, ChatPc, Chat!Use, Chat!Kind
<1>2. ChatTypes
    BY <1>1 DEF ChatTypes
<1>3. ChatAlone /\ \A c \in Caller : ChatAt(c) /\ ChatFresh(c)
    BY DEF ChatAlone, ChatAt, ChatFresh, Chat!Idle
<1>4. \A k \in Chat!Kind : ChatEntries(k) /\ ChatKept(k)
    BY DEF ChatEntries, ChatKept, NewestEnd
<1>. QED
    BY <1>2, <1>3, <1>4 DEF ChatInv

LEMMA ChatIsKept == ChatInv => Chat!HistoryIsKept
<1> SUFFICES ASSUME ChatInv PROVE Chat!HistoryIsKept
    OBVIOUS
<1>1. Chat!NewestKept /\ Chat!LastKept
    BY NewestEndIsSuffix DEF ChatInv, ChatTypes, ChatKept, Chat!NewestKept, Chat!LastKept
<1>2. \A k \in Chat!Kind : DOMAIN log[k] = 1..Len(log[k])
    BY DEF ChatInv, ChatTypes
<1>3. Chat!ChatTurnOnce
  <2> SUFFICES ASSUME NEW k \in Chat!Kind, NEW i \in 1..Len(log[k]), NEW j \in 1..Len(log[k]),
                      log[k][i].turn \in owned
               PROVE  /\ \/ log[k][i].turn \in completed
                         \/ \E c \in Caller : caller[c].pc \in {"recorded", "end"}
                                             /\ caller[c].turn = log[k][i].turn
                      /\ log[k][i] = log[k][j] => i = j \/ log[k][i].turn \in repeated
    BY <1>2, Zenon DEF Chat!ChatTurnOnce
  <2>1. ChatEntries(k)
    BY DEF ChatInv
  <2>. QED
    BY <2>1, Zenon DEF ChatEntries, Recorded
<1>. QED
    BY <1>1, <1>3 DEF Chat!HistoryIsKept

LEMMA ChatEntriesStay ==
    ASSUME ChatInv, NEW k \in Chat!Kind, log'[k] = log[k], turns' \in Nat, turns <= turns',
           \A t \in 1..turns : t \in owned' => t \in owned, repeated \subseteq repeated',
           Recorded \subseteq Recorded'
    PROVE  ChatEntries(k)'
<1>1. ChatEntries(k) /\ turns \in Nat
    BY BoundsAssumption DEF ChatInv, ChatTypes
<1> SUFFICES ASSUME NEW i \in 1..Len(log[k])
             PROVE  /\ log[k][i].turn \in 1..turns'
                    /\ log[k][i].turn \in owned' => log[k][i].turn \in Recorded'
                    /\ log[k][i].turn \in owned' \ repeated' =>
                         \A j \in 1..Len(log[k]) : log[k][i] = log[k][j] => i = j
    BY Zenon DEF ChatEntries
<1>2. log[k][i].turn \in 1..turns /\ 1..turns \subseteq 1..turns'
    BY <1>1 DEF ChatEntries
<1>. QED
    BY <1>1, <1>2, Zenon DEF ChatEntries

\* A write of a scope outdates what a load in progress has read of it.
LEMMA ChatOutdates ==
    ASSUME ChatInv, NEW k \in Chat!Kind
    PROVE  /\ Chat!Outdated(k) \in [Caller -> ChatState]
           /\ \A d \in Caller :
                /\ Chat!Outdated(k)[d].pc = caller[d].pc /\ Chat!Outdated(k)[d].use = caller[d].use
                /\ Chat!Outdated(k)[d].kind = caller[d].kind
                /\ Chat!Outdated(k)[d].turn = caller[d].turn
                /\ caller[d].pc # "shorten" => Chat!Outdated(k)[d] = caller[d]
                /\ Chat!Outdated(k)[d].pc = "shorten" /\ ~Chat!Outdated(k)[d].stale =>
                     Chat!Outdated(k)[d] = caller[d] /\ caller[d].kind # k
<1>1. \A d \in Caller : caller[d] \in ChatState
    BY DEF ChatInv, ChatTypes
<1>2. \A d \in Caller : [caller[d] EXCEPT !.stale = TRUE] \in ChatState
    BY <1>1, Zenon DEF ChatState
<1>3. \A d \in Caller :
          /\ [caller[d] EXCEPT !.stale = TRUE].pc = caller[d].pc
          /\ [caller[d] EXCEPT !.stale = TRUE].use = caller[d].use
          /\ [caller[d] EXCEPT !.stale = TRUE].kind = caller[d].kind
          /\ [caller[d] EXCEPT !.stale = TRUE].turn = caller[d].turn
          /\ [caller[d] EXCEPT !.stale = TRUE].stale
    BY <1>1 DEF ChatState
<1>. QED
    BY <1>1, <1>2, <1>3, Zenon DEF Chat!Outdated

\* The callers beside the one that writes a scope.
LEMMA ChatOthers ==
    ASSUME ChatInv, NEW k \in Chat!Kind, NEW c \in Caller, NEW r \in ChatState,
           caller' = [Chat!Outdated(k) EXCEPT ![c] = r],
           \A h \in Chat!Kind \ {k} : store'[h] = store[h],
           UNCHANGED <<turns, owned, completed, repeated>>,
           r.turn \in {0, caller[c].turn}, r.pc # "shorten",
           caller[c].pc \in {"recorded", "end"} => r.pc = "recorded" /\ r.turn = caller[c].turn
    PROVE  /\ caller' \in [Caller -> ChatState] /\ caller'[c] = r
           /\ \A d \in Caller \ {c} : ChatAt(d)'
           /\ \A d \in Caller : ChatFresh(d)'
           /\ ChatAlone'
           /\ Recorded \subseteq Recorded'
<1>1. /\ caller' \in [Caller -> ChatState] /\ caller'[c] = r
      /\ \A d \in Caller \ {c} : caller'[d] = Chat!Outdated(k)[d]
    BY ChatOutdates
<1>2. \A d \in Caller \ {c} : ChatAt(d)'
    BY <1>1, ChatOutdates DEF ChatInv, ChatAt
<1>3. ASSUME NEW d \in Caller PROVE ChatFresh(d)'
  <2>1. CASE d = c
    BY <1>1, <2>1 DEF ChatFresh
  <2>2. CASE d # c
    <3>1. caller[d].kind \in Chat!Kind
      BY DEF ChatInv, ChatTypes, ChatState
    <3>. QED
      BY <1>1, <2>2, <3>1, ChatOutdates DEF ChatInv, ChatFresh
  <2>. QED
    BY <2>1, <2>2
<1>4. \A d \in Caller : caller'[d].turn \in {0, caller[d].turn}
    BY <1>1, ChatOutdates
<1>5. ChatAlone'
    BY <1>4 DEF ChatInv, ChatAlone
<1>6. ASSUME NEW t \in Recorded PROVE t \in Recorded'
  <2>1. ASSUME NEW d \in Caller, caller[d].pc \in {"recorded", "end"}, caller[d].turn = t
        PROVE  caller'[d].pc \in {"recorded", "end"} /\ caller'[d].turn = t
    BY <1>1, <2>1, ChatOutdates
  <2>. QED
    BY <1>6, <2>1 DEF Recorded
<1>. QED
    BY <1>1, <1>2, <1>3, <1>5, <1>6

Roles == {<<"user", "assistant">>, <<"system", "user", "assistant">>, <<"user">>}

LEMMA ExchangeIsDistinct ==
    ASSUME NEW t \in Chat!Turn, NEW roles \in Roles
    PROVE  LET m == Chat!Exchange(t, roles) IN
           /\ m \in Seq(Chat!Message) /\ Len(m) = Len(roles)
           /\ \A i \in 1..Len(m) : m[i].turn = t
           /\ \A i, j \in 1..Len(m) : m[i] = m[j] => i = j
<1> DEFINE m == Chat!Exchange(t, roles)
<1>1. /\ roles \in Seq(Chat!Role) /\ Len(roles) \in 1..3 /\ DOMAIN roles = 1..Len(roles)
      /\ \A i, j \in 1..Len(roles) : roles[i] = roles[j] => i = j
      /\ \A i \in 1..Len(roles) : roles[i] \in Chat!Role
  <2>1. CASE roles = <<"user", "assistant">>
    BY <2>1 DEF Chat!Role
  <2>2. CASE roles = <<"system", "user", "assistant">>
    BY <2>2 DEF Chat!Role
  <2>3. CASE roles = <<"user">>
    BY <2>3 DEF Chat!Role
  <2>. QED
    BY <2>1, <2>2, <2>3, Zenon DEF Roles
<1>2. m = [i \in 1..Len(roles) |-> [turn |-> t, role |-> roles[i]]]
    BY <1>1 DEF Chat!Exchange
<1>3. \A i \in 1..Len(roles) : [turn |-> t, role |-> roles[i]] \in Chat!Message
    BY <1>1 DEF Chat!Message
<1>4. m \in Seq(Chat!Message) /\ Len(m) = Len(roles)
    BY <1>1, <1>2, <1>3
<1>5. \A i \in 1..Len(roles) : m[i].turn = t /\ m[i].role = roles[i]
    BY <1>2
<1> HIDE DEF m
<1>. QED
    BY <1>1, <1>4, <1>5 DEF m

\* append_and_trim of the exchange of a caller, whose step or run it ends.
LEMMA ChatAppends ==
    ASSUME ChatInv, NEW c \in Caller, NEW r \in ChatState,
           NEW k \in Chat!Kind, k = caller[c].kind, NEW t \in Chat!Turn, t = caller[c].turn,
           NEW limit \in Nat \ {0},
           NEW m \in Seq(Chat!Message), Len(m) # 0, \A i \in 1..Len(m) : m[i].turn = t,
           \A i, j \in 1..Len(m) : m[i] = m[j] => i = j,
           Chat!AppendAndTrim(k, limit, m),
           caller' = [Chat!Outdated(k) EXCEPT ![c] = r],
           UNCHANGED <<turns, owned, completed, raced, repeated>>,
           \/ caller[c].pc = "model" /\ caller[c].use = "node" /\ r.pc = "idle" /\ r.turn = 0
           \/ /\ caller[c].pc \in {"model", "end"} /\ caller[c].use = "chat"
              /\ r.pc = "recorded" /\ r.use = "chat" /\ r.turn = t
    PROVE  ChatInv'
<1> DEFINE before == log[k]
           kept   == store[k]
<1>1. /\ ChatAt(c) /\ t \in 1..turns /\ t \notin completed /\ turns \in Nat
      /\ before \in Seq(Chat!Message) /\ kept \in Seq(Chat!Message)
      /\ Len(before) \in Nat /\ Len(m) \in Nat \ {0}
  <2>1. turns \in Nat /\ t \in Nat \ {0}
    BY BoundsAssumption DEF ChatInv, ChatTypes, Chat!Turn
  <2>2. ChatAt(c) /\ t \in 0..turns \ completed
    BY DEF ChatInv, ChatAt
  <2>3. before \in Seq(Chat!Message) /\ kept \in Seq(Chat!Message)
    BY DEF ChatInv, ChatTypes
  <2>. QED
    BY <2>1, <2>2, <2>3
<1>2. /\ \A i \in 1..Len(m) : m[i].turn = t
      /\ \A i, j \in 1..Len(m) : m[i] = m[j] => i = j
    OBVIOUS
<1>3. log' = [log EXCEPT ![k] = @ \o m]
      /\ store' = [store EXCEPT ![k] = Chat!Trimmed(@ \o m, limit)]
    BY DEF Chat!AppendAndTrim
<1>4. /\ kept \o m \in Seq(Chat!Message) /\ before \o m \in Seq(Chat!Message)
      /\ kept \o m # <<>> /\ Len(before \o m) = Len(before) + Len(m)
      /\ \A i \in 1..Len(before) : (before \o m)[i] = before[i]
      /\ \A i \in 1..Len(m) : (before \o m)[Len(before) + i] = m[i]
    BY <1>1, <1>2
<1>5. Chat!Trimmed(kept \o m, limit) \in Seq(Chat!Message)
    BY <1>1, <1>4, TrimmedKeeps
<1>6. /\ store' \in [Chat!Kind -> Seq(Chat!Message)] /\ log' \in [Chat!Kind -> Seq(Chat!Message)]
      /\ log'[k] = before \o m /\ store'[k] = Chat!Trimmed(kept \o m, limit)
      /\ \A h \in Chat!Kind \ {k} : log'[h] = log[h] /\ store'[h] = store[h]
    BY <1>1, <1>3, <1>4, <1>5 DEF ChatInv, ChatTypes
<1>. HIDE DEF before, kept
<1>7. /\ caller' \in [Caller -> ChatState] /\ caller'[c] = r
      /\ \A d \in Caller \ {c} : ChatAt(d)'
      /\ \A d \in Caller : ChatFresh(d)'
      /\ ChatAlone'
      /\ Recorded \subseteq Recorded'
    BY <1>1, <1>6, ChatOthers
<1>8. ChatTypes'
    BY <1>6, <1>7 DEF ChatInv, ChatTypes
<1>9. ChatAt(c)'
    BY <1>1, <1>7 DEF ChatAt, ChatInv, ChatTypes
<1>10. \A h \in Chat!Kind \ raced : ChatKept(h)'
  <2>1. ASSUME k \notin raced PROVE ChatKept(k)'
    <3>1. NewestEnd(kept \o m, before \o m)
      BY <1>1, <1>2, <2>1, NewestEndAppended DEF ChatInv, ChatKept, before, kept
    <3>2. NewestEnd(store'[k], kept \o m) /\ store'[k] # <<>>
      <4>1. NewestEnd(Chat!Trimmed(kept \o m, limit), kept \o m)
            /\ Chat!Trimmed(kept \o m, limit) # <<>>
        BY <1>4, TrimmedKeeps
      <4>. QED
        BY <1>6, <4>1
    <3>3. NewestEnd(store'[k], before \o m)
      BY <1>4, <1>5, <1>6, <3>1, <3>2, NewestEndTransitive
    <3>. QED
      BY <1>6, <3>2, <3>3 DEF ChatKept
  <2>. QED
    BY <1>6, <2>1 DEF ChatInv, ChatKept
<1>11. ChatEntries(k)'
  <2>1. ASSUME t \in owned PROVE t \in Recorded' /\ r.pc = "recorded"
    BY <1>1, <1>7, <2>1 DEF Recorded, ChatAt
  <2>2. ASSUME t \in owned \ repeated, NEW i \in 1..Len(before) PROVE before[i].turn # t
    <3> SUFFICES ASSUME before[i].turn = t PROVE FALSE
      OBVIOUS
    <3>1. t \in Recorded
      BY <2>2 DEF ChatInv, ChatEntries, before
    <3>2. PICK d \in Caller : caller[d].pc \in {"recorded", "end"} /\ caller[d].turn = t
      BY <1>1, <3>1 DEF Recorded
    <3>3. d = c
      BY <1>1, <3>2 DEF ChatInv, ChatAlone
    <3>. QED
      BY <1>1, <2>2, <3>2, <3>3 DEF ChatAt
  <2>3. ASSUME NEW i \in 1..Len(before)
        PROVE  /\ before[i].turn \in 1..turns
               /\ before[i].turn \in owned => before[i].turn \in Recorded'
               /\ before[i].turn \in owned \ repeated =>
                    \A j \in 1..Len(before) : before[i] = before[j] => i = j
    <3>1. ChatEntries(k)
      BY DEF ChatInv
    <3>. QED
      BY <1>7, <3>1, Zenon DEF ChatEntries, before
  <2>4. ASSUME NEW i \in 1..Len(before) + Len(m)
        PROVE  /\ log'[k][i].turn \in 1..turns
               /\ log'[k][i].turn \in owned => log'[k][i].turn \in Recorded'
    <3>1. CASE i \in 1..Len(before)
      <4>1. log'[k][i] = before[i]
        BY <1>4, <1>6, <3>1
      <4>. QED
        BY <2>3, <3>1, <4>1, Zenon
    <3>2. CASE i \notin 1..Len(before)
      <4>1. i - Len(before) \in 1..Len(m) /\ i = Len(before) + (i - Len(before))
        BY <1>1, <1>2, <3>2
      <4>2. log'[k][i] = m[i - Len(before)] /\ log'[k][i].turn = t
        BY <1>2, <1>4, <1>6, <4>1
      <4>. QED
        BY <1>1, <2>1, <4>2, Zenon
    <3>. QED
      BY <3>1, <3>2
  <2>5. ASSUME NEW i \in 1..Len(before) + Len(m), NEW j \in 1..Len(before) + Len(m),
               log'[k][i].turn \in owned \ repeated, log'[k][i] = log'[k][j]
        PROVE  i = j
    <3>1. ASSUME NEW h \in 1..Len(before) + Len(m), h \notin 1..Len(before)
          PROVE  /\ h - Len(before) \in 1..Len(m)
                 /\ log'[k][h] = m[h - Len(before)] /\ log'[k][h].turn = t
      <4>1. h - Len(before) \in 1..Len(m) /\ h = Len(before) + (h - Len(before))
        BY <1>1, <1>2, <3>1
      <4>. QED
        BY <1>2, <1>4, <1>6, <4>1
    <3>2. CASE i \in 1..Len(before) /\ j \in 1..Len(before)
      BY <1>4, <1>6, <2>3, <2>5, <3>2
    <3>3. CASE i \notin 1..Len(before) /\ j \notin 1..Len(before)
      BY <1>1, <1>2, <2>5, <3>1, <3>3
    <3>4. CASE i \in 1..Len(before) /\ j \notin 1..Len(before)
      BY <1>4, <1>6, <2>2, <2>5, <3>1, <3>4
    <3>5. CASE i \notin 1..Len(before) /\ j \in 1..Len(before)
      BY <1>4, <1>6, <2>2, <2>5, <3>1, <3>5
    <3>. QED
      BY <3>2, <3>3, <3>4, <3>5
  <2>. QED
    <3>1. Len(log'[k]) = Len(before) + Len(m) /\ owned' = owned /\ repeated' = repeated
          /\ turns' = turns
      BY <1>4, <1>6
    <3>. QED
      BY <2>4, <2>5, <3>1, Zenon DEF ChatEntries
<1>12. \A h \in Chat!Kind : ChatEntries(h)'
  <2>1. turns \in Nat
    BY BoundsAssumption DEF ChatInv, ChatTypes
  <2>. QED
    <3>1. turns' = turns /\ turns <= turns /\ owned' = owned /\ repeated' = repeated
      BY <2>1
    <3>2. \A h \in Chat!Kind \ {k} : log'[h] = log[h]
      BY <1>6
    <3>3. \A h \in Chat!Kind \ {k} : ChatEntries(h)'
      BY <1>7, <2>1, <3>1, <3>2, ChatEntriesStay
    <3>. QED
      BY <1>11, <3>3
<1>. QED
    BY <1>7, <1>8, <1>9, <1>10, <1>12 DEF ChatInv

\* A step of a caller that leaves the scopes alone.
LEMMA ChatWalks ==
    ASSUME ChatInv, NEW c \in Caller, NEW r \in ChatState,
           caller' = [caller EXCEPT ![c] = r],
           UNCHANGED <<store, log, raced, repeated>>,
           turns' \in 0..MaxTurns, turns <= turns', owned \subseteq owned', owned' \subseteq 1..turns',
           owned' \ owned \subseteq {turns + 1},
           completed \subseteq completed', completed' \subseteq owned',
           completed' \ completed \subseteq {caller[c].turn},
           ChatAt(c)', ChatFresh(c)',
           r.turn \in {0, caller[c].turn} \/ r.turn > turns,
           caller[c].pc \in {"recorded", "end"} => caller[c].turn \in completed'
    PROVE  ChatInv'
<1>1. /\ caller'[c] = r /\ \A d \in Caller \ {c} : caller'[d] = caller[d]
      /\ turns \in Nat /\ turns' \in Nat
      /\ \A d \in Caller : caller[d].turn \in 0..turns
    BY BoundsAssumption DEF ChatInv, ChatTypes, ChatAt
<1>2. ChatTypes'
    BY <1>1 DEF ChatInv, ChatTypes
<1>3. ChatAlone'
    BY <1>1 DEF ChatInv, ChatAlone
<1>4. ASSUME NEW d \in Caller PROVE ChatAt(d)' /\ ChatFresh(d)'
  <2>1. CASE d = c
    BY <2>1
  <2>2. CASE d # c
    <3>1. ChatAt(d) /\ ChatFresh(d) /\ caller'[d] = caller[d]
      BY <1>1, <2>2 DEF ChatInv
    <3>2. caller[d].turn \notin completed'
      BY <1>1, <2>2, <3>1 DEF ChatInv, ChatTypes, ChatAlone, ChatAt
    <3>3. caller[d].turn \in owned' <=> caller[d].turn \in owned
      BY <1>1
    <3>. QED
      BY <1>1, <3>1, <3>2, <3>3 DEF ChatAt, ChatFresh
  <2>. QED
    BY <2>1, <2>2
<1>5. Recorded \subseteq Recorded'
  <2> SUFFICES ASSUME NEW t \in Recorded PROVE t \in Recorded'
    OBVIOUS
  <2>1. t \in owned' /\ t \in owned
    BY DEF Recorded
  <2>2. CASE t \in completed
    BY <2>1, <2>2 DEF Recorded
  <2>3. CASE \E d \in Caller : caller[d].pc \in {"recorded", "end"} /\ caller[d].turn = t
    <3>1. PICK d \in Caller : caller[d].pc \in {"recorded", "end"} /\ caller[d].turn = t
      BY <2>3
    <3>. QED
      BY <1>1, <2>1, <3>1 DEF Recorded
  <2>. QED
    BY <2>2, <2>3 DEF Recorded
<1>6. \A k \in Chat!Kind : ChatEntries(k)'
  <2>1. \A t \in 1..turns : t \in owned' => t \in owned
    BY <1>1
  <2>. QED
    BY <1>1, <1>5, <2>1, ChatEntriesStay
<1>7. \A k \in Chat!Kind \ raced' : ChatKept(k)'
    BY DEF ChatInv, ChatKept
<1>. QED
    BY <1>2, <1>3, <1>4, <1>6, <1>7 DEF ChatInv

LEMMA ChatFields ==
    ASSUME ChatInv, NEW c \in Caller
    PROVE  /\ caller[c] \in ChatState /\ ChatAt(c) /\ ChatFresh(c)
           /\ caller[c].kind \in Chat!Kind /\ caller[c].limit \in Nat \ {0}
           /\ turns \in Nat /\ turns <= MaxTurns
<1>1. caller[c] \in ChatState /\ ChatAt(c) /\ ChatFresh(c) /\ turns \in 0..MaxTurns
    BY DEF ChatInv, ChatTypes
<1>2. caller[c].kind \in Chat!Kind /\ caller[c].limit \in ChatLimit \cup {1}
    BY <1>1, Zenon DEF ChatState
<1>3. ChatLimit \cup {1} \subseteq Nat \ {0} /\ 0..MaxTurns \subseteq Nat
    BY BoundsAssumption
<1>4. turns \in Nat /\ turns <= MaxTurns
    BY <1>1, BoundsAssumption
<1>. QED
    BY <1>1, <1>2, <1>3, <1>4, Zenon

LEMMA ChatIdle ==
    /\ Chat!Idle \in ChatState /\ Chat!Idle.pc = "idle" /\ Chat!Idle.turn = 0
    /\ Chat!Idle.use = "view"
    BY BoundsAssumption DEF Chat!Idle, ChatState, ChatPc, Chat!Use, Chat!Kind

LEMMA ChatBegins ==
    ASSUME ChatInv, NEW c \in Caller, NEW use \in Chat!Use, NEW kind \in Chat!Kind,
           NEW limit \in ChatLimit, Chat!Begin(c, use, kind, limit)
    PROVE  ChatInv'
<1>0. turns \in Nat /\ turns <= MaxTurns /\ owned \subseteq 1..turns /\ completed \subseteq owned
    BY ChatFields DEF ChatInv, ChatTypes
<1> DEFINE t == IF use = "view" THEN 0 ELSE turns + 1
           r == [Chat!Idle EXCEPT !.pc = "load", !.use = use, !.kind = kind, !.limit = limit,
                                  !.turn = turns' * (IF use = "view" THEN 0 ELSE 1)]
<1>1. /\ turns' = IF use = "view" THEN turns ELSE turns + 1
      /\ owned' = IF use = "chat" THEN owned \cup {turns'} ELSE owned
      /\ caller' = [caller EXCEPT ![c] = r] /\ caller[c].pc = "idle"
      /\ use # "view" => turns < MaxTurns
      /\ UNCHANGED <<store, log, completed, raced, repeated>>
    BY DEF Chat!Begin
<1>2. turns' * (IF use = "view" THEN 0 ELSE 1) = t /\ t \in 0..MaxTurns /\ turns' \in 0..MaxTurns
    BY <1>0, <1>1, BoundsAssumption
<1>3. r = [Chat!Idle EXCEPT !.pc = "load", !.use = use, !.kind = kind, !.limit = limit, !.turn = t]
    BY <1>2, Zenon
<1> HIDE DEF r
<1>4. /\ r \in ChatState /\ r.pc = "load" /\ r.use = use /\ r.turn = t
    <2>1. "load" \in ChatPc /\ limit \in ChatLimit \cup {1}
        BY DEF ChatPc
    <2>2. r \in ChatState
        BY <1>2, <1>3, <2>1, ChatIdle, Zenon DEF ChatState
    <2>. QED
        BY <1>3, <2>2, ChatIdle DEF ChatState
<1>5. caller'[c] = r
    BY <1>1 DEF ChatInv, ChatTypes
<1>6. ChatAt(c)' /\ ChatFresh(c)'
    BY <1>0, <1>1, <1>2, <1>4, <1>5 DEF ChatAt, ChatFresh, Chat!Use
<1>7. r.turn = 0 \/ r.turn > turns
    BY <1>0, <1>4
<1>8. /\ turns <= turns' /\ owned \subseteq owned' /\ owned' \subseteq 1..turns'
      /\ owned' \ owned \subseteq {turns + 1} /\ completed' = completed
    BY <1>0, <1>1
<1>. QED
    BY <1>0, <1>1, <1>2, <1>4, <1>6, <1>7, <1>8, ChatWalks

LEMMA ChatGoes ==
    ASSUME NEW q \in ChatState, NEW pc \in ChatPc
    PROVE  LET r == [q EXCEPT !.pc = pc] IN
           /\ r \in ChatState /\ r.pc = pc /\ r.use = q.use /\ r.kind = q.kind /\ r.turn = q.turn
<1>1. [q EXCEPT !.pc = pc] \in ChatState
    BY Zenon DEF ChatState
<1>2. DOMAIN q = {"pc", "use", "kind", "limit", "turn", "read", "stale"}
    BY DEF ChatState
<1>. QED
    BY <1>1, <1>2

LEMMA ChatLoaded ==
    ASSUME ChatInv, NEW c \in Caller, caller[c].pc \in {"load", "shorten"}
    PROVE  /\ Chat!Loaded(c) \in ChatState /\ Chat!Loaded(c).turn = caller[c].turn
           /\ \/ Chat!Loaded(c).pc = "idle" /\ caller[c].use = "view"
              \/ /\ Chat!Loaded(c).pc = "model" /\ caller[c].use # "view"
                 /\ Chat!Loaded(c).use = caller[c].use
<1>1. caller[c] \in ChatState /\ ChatAt(c)
    BY ChatFields
<1>2. CASE caller[c].use = "view"
    BY <1>1, <1>2, ChatIdle DEF Chat!Loaded, ChatAt
<1>3. CASE caller[c].use # "view"
  <2>1. Chat!Loaded(c) = [caller[c] EXCEPT !.pc = "model"]
    BY <1>3 DEF Chat!Loaded
  <2>. QED
    <3>1. "model" \in ChatPc
      BY DEF ChatPc
    <3>2. Chat!Loaded(c) \in ChatState /\ Chat!Loaded(c).pc = "model"
          /\ Chat!Loaded(c).use = caller[c].use /\ Chat!Loaded(c).turn = caller[c].turn
      BY <1>1, <2>1, <3>1, ChatGoes
    <3>. QED
      BY <1>3, <3>2
<1>. QED
    BY <1>2, <1>3

\* The steps of a caller that change nothing but the caller.
LEMMA ChatPasses ==
    ASSUME ChatInv, NEW c \in Caller, NEW r \in ChatState,
           caller' = [caller EXCEPT ![c] = r],
           UNCHANGED <<store, log, turns, completed, owned, raced, repeated>>,
           caller[c].pc \in {"load", "shorten", "model"},
           \/ r.pc = "idle" /\ r.turn = 0
           \/ /\ r.pc \in {"load", "shorten", "model"} /\ r.use = caller[c].use
              /\ r.turn = caller[c].turn /\ (r.pc = "model" => r.use # "view")
              /\ r.pc = "shorten" => r.read = store[r.kind]
    PROVE  ChatInv'
<1>1. /\ caller'[c] = r /\ ChatAt(c) /\ turns \in 0..MaxTurns
      /\ owned \subseteq 1..turns /\ completed \subseteq owned
    BY ChatFields DEF ChatInv, ChatTypes
<1>2. ChatAt(c)' /\ ChatFresh(c)'
    BY <1>1, BoundsAssumption DEF ChatAt, ChatFresh
<1>3. turns <= turns' /\ owned' \ owned \subseteq {turns + 1} /\ r.turn \in {0, caller[c].turn}
    BY <1>1, BoundsAssumption
<1>. QED
    BY <1>1, <1>2, <1>3, ChatWalks

LEMMA ChatLoads ==
    ASSUME ChatInv, NEW c \in Caller, Chat!Load(c)
    PROVE  ChatInv'
<1> DEFINE messages == store[caller[c].kind]
<1>1. /\ caller[c] \in ChatState /\ ChatAt(c) /\ caller[c].kind \in Chat!Kind
      /\ messages \in Seq(Chat!Message)
    BY ChatFields DEF ChatInv, ChatTypes
<1>2. /\ caller[c].pc = "load" /\ UNCHANGED <<store, log, turns, completed, owned, raced, repeated>>
      /\ caller' = [caller EXCEPT ![c] = IF Len(messages) > caller[c].limit
                        THEN [caller[c] EXCEPT !.pc = "shorten", !.read = messages]
                        ELSE Chat!Loaded(c)]
    BY DEF Chat!Load
<1>3. CASE Len(messages) > caller[c].limit
  <2> DEFINE r == [caller[c] EXCEPT !.pc = "shorten", !.read = messages]
  <2>1. r \in ChatState
    BY <1>1, Zenon DEF ChatState, ChatPc
  <2>2. r.pc = "shorten" /\ r.use = caller[c].use /\ r.turn = caller[c].turn /\ r.read = store[r.kind]
    BY <1>1 DEF ChatState
  <2>3. caller' = [caller EXCEPT ![c] = r]
    BY <1>2, <1>3
  <2> HIDE DEF r
  <2>. QED
    BY <1>2, <2>1, <2>2, <2>3, ChatPasses
<1>4. CASE ~(Len(messages) > caller[c].limit)
  <2>1. caller' = [caller EXCEPT ![c] = Chat!Loaded(c)]
    BY <1>2, <1>4
  <2>2. caller[c].use = "view" => caller[c].turn = 0
    BY <1>1, <1>2 DEF ChatAt
  <2>. QED
    <3>1. /\ Chat!Loaded(c) \in ChatState
          /\ \/ Chat!Loaded(c).pc = "idle" /\ Chat!Loaded(c).turn = 0
             \/ /\ Chat!Loaded(c).pc = "model" /\ Chat!Loaded(c).use = caller[c].use
                /\ Chat!Loaded(c).turn = caller[c].turn /\ Chat!Loaded(c).use # "view"
      BY <1>2, <2>2, ChatLoaded
    <3>. QED
      BY <1>2, <2>1, <3>1, ChatPasses
<1>. QED
    BY <1>3, <1>4

LEMMA ChatShortens ==
    ASSUME ChatInv, NEW c \in Caller, Chat!Shorten(c)
    PROVE  ChatInv'
<1> DEFINE k == caller[c].kind
           r == [Chat!Loaded(c) EXCEPT !.read = <<>>, !.stale = FALSE]
           kept == Chat!Trimmed(caller[c].read, caller[c].limit)
<1>1. /\ caller[c] \in ChatState /\ ChatAt(c) /\ ChatFresh(c) /\ k \in Chat!Kind
      /\ caller[c].limit \in Nat \ {0} /\ caller[c].read \in Seq(Chat!Message)
    BY ChatFields DEF ChatState
<1>2. /\ caller[c].pc = "shorten" /\ store' = [store EXCEPT ![k] = kept]
      /\ raced' = IF caller[c].stale THEN raced \cup {k} ELSE raced
      /\ caller' = [Chat!Outdated(k) EXCEPT ![c] = r]
      /\ UNCHANGED <<log, turns, completed, owned, repeated>>
    BY DEF Chat!Shorten
<1>3. kept \in Seq(Chat!Message) /\ NewestEnd(kept, caller[c].read)
      /\ (caller[c].read # <<>> => kept # <<>>)
    BY <1>1, TrimmedKeeps
<1>4. /\ r \in ChatState /\ r.pc = Chat!Loaded(c).pc /\ r.use = Chat!Loaded(c).use
      /\ r.turn = Chat!Loaded(c).turn
  <2>1. Chat!Loaded(c) \in ChatState
    BY <1>2, ChatLoaded
  <2>2. r \in ChatState
    <3>1. <<>> \in Seq(Chat!Message)
      OBVIOUS
    <3>. QED
      BY <2>1, <3>1, Zenon DEF ChatState
  <2>3. DOMAIN Chat!Loaded(c) = {"pc", "use", "kind", "limit", "turn", "read", "stale"}
    BY <2>1 DEF ChatState
  <2>. QED
    BY <2>2, <2>3
<1> HIDE DEF r, kept
<1>5. /\ \/ r.pc = "idle" /\ caller[c].use = "view"
         \/ r.pc = "model" /\ caller[c].use # "view" /\ r.use = caller[c].use
      /\ r.turn = caller[c].turn
    BY <1>2, <1>4, ChatLoaded
<1>6. /\ store' \in [Chat!Kind -> Seq(Chat!Message)] /\ store'[k] = kept
      /\ \A h \in Chat!Kind \ {k} : store'[h] = store[h]
    BY <1>1, <1>2, <1>3 DEF ChatInv, ChatTypes
<1>7. /\ caller' \in [Caller -> ChatState] /\ caller'[c] = r
      /\ \A d \in Caller \ {c} : ChatAt(d)'
      /\ \A d \in Caller : ChatFresh(d)'
      /\ ChatAlone' /\ Recorded \subseteq Recorded'
    BY <1>1, <1>2, <1>4, <1>5, <1>6, ChatOthers
<1>8. ChatAt(c)'
    BY <1>1, <1>2, <1>5, <1>7 DEF ChatAt
<1>9. ChatTypes'
    BY <1>1, <1>2, <1>6, <1>7 DEF ChatInv, ChatTypes
<1>10. \A h \in Chat!Kind : ChatEntries(h)'
  <2>1. turns' \in Nat /\ turns <= turns' /\ owned' = owned /\ repeated' = repeated
    BY <1>2, ChatFields
  <2>. QED
    BY <1>2, <1>7, <2>1, ChatEntriesStay
<1>11. \A h \in Chat!Kind \ raced' : ChatKept(h)'
  <2> SUFFICES ASSUME NEW h \in Chat!Kind \ raced' PROVE ChatKept(h)'
    OBVIOUS
  <2>1. h \notin raced /\ ChatKept(h)
    BY <1>2 DEF ChatInv
  <2>2. CASE h # k
    BY <1>2, <1>6, <2>1, <2>2 DEF ChatKept
  <2>3. CASE h = k
    <3>1. caller[c].read = store[k]
      BY <1>1, <1>2, <2>3 DEF ChatFresh
    <3>2. /\ store[k] \in Seq(Chat!Message) /\ log[k] \in Seq(Chat!Message)
          /\ NewestEnd(store[k], log[k])
      BY <1>1, <2>1, <2>3 DEF ChatInv, ChatTypes, ChatKept
    <3>3. NewestEnd(kept, log[k])
      BY <1>3, <3>1, <3>2, NewestEndTransitive
    <3>. QED
      BY <1>2, <1>3, <1>6, <2>1, <2>3, <3>1, <3>3 DEF ChatKept
  <2>. QED
    BY <2>2, <2>3
<1>. QED
    BY <1>7, <1>8, <1>9, <1>10, <1>11 DEF ChatInv

LEMMA ChatRecords ==
    ASSUME ChatInv, NEW c \in Caller, Chat!AppendExchange(c) \/ Chat!AppendChatResult(c)
    PROVE  ChatInv'
<1> DEFINE k == caller[c].kind
           t == caller[c].turn
<1>1. /\ caller[c] \in ChatState /\ ChatAt(c) /\ k \in Chat!Kind
      /\ caller[c].limit \in Nat \ {0} /\ turns \in Nat /\ turns <= MaxTurns
    BY ChatFields
<1>2. /\ caller[c].pc \in {"model", "end"} /\ t \in Chat!Turn
      /\ UNCHANGED <<turns, owned, completed, raced, repeated>>
  <2>1. caller[c].pc \in {"model", "end"} /\ caller[c].use \in {"node", "chat"}
        /\ UNCHANGED <<turns, owned, completed, raced, repeated>>
    BY DEF Chat!AppendExchange, Chat!AppendChatResult
  <2>2. t # 0 /\ t \in 0..turns
    BY <1>1, <2>1 DEF ChatAt
  <2>3. t \in Chat!Turn
    BY <1>1, <2>2, BoundsAssumption DEF Chat!Turn
  <2>. QED
    BY <2>1, <2>3
<1>3. PICK roles \in Roles : Chat!AppendAndTrim(k, caller[c].limit, Chat!Exchange(t, roles))
    BY DEF Chat!AppendExchange, Chat!AppendChatResult, Roles
<1> DEFINE m == Chat!Exchange(t, roles)
<1>4. /\ m \in Seq(Chat!Message) /\ Len(m) # 0
      /\ \A i \in 1..Len(m) : m[i].turn = t
      /\ \A i, j \in 1..Len(m) : m[i] = m[j] => i = j
  <2>1. Len(roles) # 0
    BY DEF Roles
  <2>. QED
    BY <1>2, <2>1, ExchangeIsDistinct
<1> HIDE DEF m
<1>5. CASE Chat!AppendExchange(c)
  <2>1. /\ caller[c].pc = "model" /\ caller[c].use = "node"
        /\ caller' = [Chat!Outdated(k) EXCEPT ![c] = Chat!Idle]
    BY <1>5 DEF Chat!AppendExchange
  <2>. QED
    BY <1>1, <1>2, <1>3, <1>4, <2>1, ChatIdle, ChatAppends, ZenonT(60) DEF m
<1>6. CASE Chat!AppendChatResult(c)
  <2> DEFINE r == [caller[c] EXCEPT !.pc = "recorded"]
  <2>1. caller[c].use = "chat" /\ caller' = [Chat!Outdated(k) EXCEPT ![c].pc = "recorded"]
    BY <1>6 DEF Chat!AppendChatResult
  <2>2. Chat!Outdated(k)[c] = caller[c]
    BY <1>1, <1>2, ChatOutdates
  <2>3. caller' = [Chat!Outdated(k) EXCEPT ![c] = r]
    BY <2>1, <2>2, Zenon
  <2>4. r \in ChatState /\ r.pc = "recorded" /\ r.use = "chat" /\ r.turn = t
    <3>1. "recorded" \in ChatPc
      BY DEF ChatPc
    <3>. QED
      BY <1>1, <2>1, <3>1, ChatGoes
  <2> HIDE DEF r
  <2>. QED
    BY <1>1, <1>2, <1>3, <1>4, <2>1, <2>3, <2>4, ChatAppends, SMTT(30) DEF m
<1>. QED
    BY <1>5, <1>6

LEMMA ChatCompletes ==
    ASSUME ChatInv, NEW c \in Caller, Chat!Complete(c)
    PROVE  ChatInv'
<1>1. /\ ChatAt(c) /\ caller[c].pc = "recorded" /\ caller' = [caller EXCEPT ![c] = Chat!Idle]
      /\ completed' = completed \cup {caller[c].turn}
      /\ UNCHANGED <<store, log, turns, owned, raced, repeated>>
      /\ turns \in Nat /\ turns <= MaxTurns /\ owned \subseteq 1..turns /\ completed \subseteq owned
    BY ChatFields DEF Chat!Complete, ChatInv, ChatTypes
<1>2. caller[c].turn \in owned
    BY <1>1 DEF ChatAt
<1>3. caller'[c] = Chat!Idle
    BY <1>1 DEF ChatInv, ChatTypes
<1>4. ChatAt(c)' /\ ChatFresh(c)'
    BY <1>1, <1>2, <1>3, ChatIdle DEF ChatAt, ChatFresh
<1>5. turns' \in 0..MaxTurns /\ turns <= turns' /\ completed' \subseteq owned'
      /\ completed \subseteq completed' /\ completed' \ completed \subseteq {caller[c].turn}
  <2>1. turns' \in 0..MaxTurns /\ turns <= turns'
    BY <1>1, BoundsAssumption
  <2>. QED
    BY <1>1, <1>2, <2>1, Zenon
<1>. QED
    BY <1>1, <1>4, <1>5, ChatIdle, ChatWalks

LEMMA ChatClears ==
    ASSUME ChatInv, NEW k \in Chat!Kind, Chat!ClearMessages(k)
    PROVE  ChatInv'
<1>1. /\ caller' = Chat!Outdated(k) /\ store' = [store EXCEPT ![k] = <<>>]
      /\ log' = [log EXCEPT ![k] = <<>>]
      /\ UNCHANGED <<turns, owned, completed, raced, repeated>>
    BY DEF Chat!ClearMessages
<1>2. /\ store' \in [Chat!Kind -> Seq(Chat!Message)] /\ log' \in [Chat!Kind -> Seq(Chat!Message)]
      /\ store'[k] = <<>> /\ log'[k] = <<>>
      /\ \A h \in Chat!Kind \ {k} : store'[h] = store[h] /\ log'[h] = log[h]
    BY <1>1 DEF ChatInv, ChatTypes
<1>3. ChatTypes'
    BY <1>1, <1>2, ChatOutdates DEF ChatInv, ChatTypes
<1>4. \A c \in Caller : caller'[c].turn = caller[c].turn /\ caller'[c].pc = caller[c].pc
    BY <1>1, ChatOutdates
<1>5. ChatAlone'
    BY <1>4 DEF ChatInv, ChatAlone
<1>6. Recorded \subseteq Recorded'
    BY <1>1, <1>4 DEF Recorded
<1>7. ASSUME NEW c \in Caller PROVE ChatAt(c)' /\ ChatFresh(c)'
  <2>1. ChatAt(c)'
    BY <1>1, ChatOutdates DEF ChatInv, ChatAt
  <2>2. ChatFresh(c)'
    BY <1>1, <1>2, ChatOutdates, ChatFields DEF ChatInv, ChatFresh
  <2>. QED
    BY <2>1, <2>2
<1>8. \A h \in Chat!Kind : ChatEntries(h)'
  <2>1. ChatEntries(k)'
    BY <1>2 DEF ChatEntries
  <2>2. turns' \in Nat /\ turns <= turns' /\ owned' = owned /\ repeated' = repeated
    BY <1>1, BoundsAssumption DEF ChatInv, ChatTypes
  <2>3. \A h \in Chat!Kind \ {k} : ChatEntries(h)'
    BY <1>2, <1>6, <2>2, ChatEntriesStay
  <2>. QED
    BY <2>1, <2>3
<1>9. \A h \in Chat!Kind \ raced' : ChatKept(h)'
    BY <1>1, <1>2 DEF ChatInv, ChatKept, NewestEnd
<1>. QED
    BY <1>3, <1>5, <1>7, <1>8, <1>9 DEF ChatInv

LEMMA ChatCrashes ==
    ASSUME ChatInv, Chat!Crash
    PROVE  ChatInv'
<1> DEFINE betweenSteps == {c \in Caller : caller[c].use = "chat" /\ caller[c].pc = "model"}
           recorded     == {c \in Caller : caller[c].pc = "recorded"}
           atTheEnd     == {c \in Caller : caller[c].pc = "end"}
<1>1. /\ store' = [store EXCEPT !["memory"] = <<>>] /\ log' = [log EXCEPT !["memory"] = <<>>]
      /\ raced' = raced \ {"memory"}
      /\ repeated' = repeated \cup {caller[c].turn : c \in recorded}
      /\ UNCHANGED <<turns, completed, owned>>
    BY DEF Chat!Crash
<1>2. PICK requeued \in SUBSET betweenSteps :
          caller' = [c \in Caller |-> IF c \in requeued \cup recorded \cup atTheEnd
                                      THEN Chat!Recovered(c) ELSE Chat!Idle]
    BY DEF Chat!Crash
<1>3. /\ store' \in [Chat!Kind -> Seq(Chat!Message)] /\ log' \in [Chat!Kind -> Seq(Chat!Message)]
      /\ store'["memory"] = <<>> /\ log'["memory"] = <<>>
      /\ \A h \in Chat!Kind \ {"memory"} : store'[h] = store[h] /\ log'[h] = log[h]
    BY <1>1 DEF ChatInv, ChatTypes, Chat!Kind
<1>4. ASSUME NEW c \in Caller
      PROVE  /\ caller'[c] \in ChatState
             /\ \/ caller'[c] = Chat!Idle /\ caller[c].pc \notin {"recorded", "end"}
                \/ /\ caller'[c].turn = caller[c].turn /\ caller'[c].use = caller[c].use
                   /\ \/ caller[c].pc = "model" /\ caller'[c].pc = "model"
                      \/ caller[c].pc \in {"recorded", "end"} /\ caller'[c].pc = "end"
  <2>1. caller[c] \in ChatState /\ "end" \in ChatPc /\ "model" \in ChatPc
    BY ChatFields DEF ChatPc
  <2>2. CASE c \in recorded
    <3>1. caller'[c] = [caller[c] EXCEPT !.pc = "end"]
      BY <1>2, <2>2 DEF Chat!Recovered
    <3>. QED
      BY <2>1, <2>2, <3>1, ChatGoes
  <2>3. CASE c \in atTheEnd
    BY <1>2, <2>1, <2>3 DEF Chat!Recovered
  <2>4. CASE c \in requeued
    <3>1. caller[c].pc = "model" /\ caller'[c] = [caller[c] EXCEPT !.pc = "model"]
      BY <1>2, <2>4 DEF Chat!Recovered
    <3>. QED
      BY <2>1, <3>1, ChatGoes
  <2>5. CASE c \notin requeued \cup recorded \cup atTheEnd
    BY <1>2, <2>5, ChatIdle
  <2>. QED
    BY <2>2, <2>3, <2>4, <2>5
<1>5. ChatTypes'
  <2>1. caller' \in [Caller -> ChatState]
    <3>1. DOMAIN caller' = Caller /\ caller' = [c \in Caller |-> caller'[c]]
      BY <1>2
    <3>. QED
      BY <1>4, <3>1
  <2>. QED
    BY <1>1, <1>3, <2>1 DEF ChatInv, ChatTypes
<1>6. ChatAlone'
    BY <1>4, ChatIdle DEF ChatInv, ChatAlone
<1>7. Recorded \subseteq Recorded'
    BY <1>1, <1>4 DEF Recorded
<1>8. ASSUME NEW c \in Caller PROVE ChatAt(c)' /\ ChatFresh(c)'
  <2>1. ChatAt(c) /\ turns \in Nat /\ completed \subseteq 1..turns
    BY ChatFields DEF ChatInv, ChatTypes
  <2>2. caller[c].pc = "recorded" => caller[c].turn \in repeated'
    BY <1>1
  <2>3. CASE caller'[c] = Chat!Idle
    BY <1>1, <2>1, <2>3, ChatIdle DEF ChatAt, ChatFresh
  <2>4. CASE caller'[c] # Chat!Idle
    BY <1>1, <1>4, <2>1, <2>2, <2>4 DEF ChatAt, ChatFresh
  <2>. QED
    BY <2>3, <2>4
<1>9. \A h \in Chat!Kind : ChatEntries(h)'
  <2>1. ChatEntries("memory")'
    BY <1>3 DEF ChatEntries
  <2>2. turns' \in Nat /\ turns <= turns' /\ owned' = owned /\ repeated \subseteq repeated'
    BY <1>1, BoundsAssumption DEF ChatInv, ChatTypes
  <2>3. \A h \in Chat!Kind \ {"memory"} : ChatEntries(h)'
    BY <1>3, <1>7, <2>2, ChatEntriesStay
  <2>. QED
    BY <2>1, <2>3
<1>10. \A h \in Chat!Kind \ raced' : ChatKept(h)'
    BY <1>1, <1>3 DEF ChatInv, ChatKept, NewestEnd
<1>. QED
    BY <1>5, <1>6, <1>8, <1>9, <1>10 DEF ChatInv

LEMMA ChatSteps == ChatInv /\ [Chat!Next]_(Chat!vars) => ChatInv'
<1> SUFFICES ASSUME ChatInv, [Chat!Next]_(Chat!vars) PROVE ChatInv'
    OBVIOUS
<1>1. ASSUME NEW c \in Caller, NEW use \in Chat!Use, NEW kind \in Chat!Kind,
             NEW limit \in ChatLimit, Chat!Begin(c, use, kind, limit)
      PROVE  ChatInv'
    BY <1>1, ChatBegins
<1>2. ASSUME NEW c \in Caller, Chat!Load(c) \/ Chat!Shorten(c) \/ Chat!Complete(c)
                               \/ Chat!AppendExchange(c) \/ Chat!AppendChatResult(c)
      PROVE  ChatInv'
    BY <1>2, ChatLoads, ChatShortens, ChatCompletes, ChatRecords
<1>3. ASSUME NEW c \in Caller, Chat!NextNode(c) PROVE ChatInv'
  <2> DEFINE r == [caller[c] EXCEPT !.pc = "load"]
  <2>1. r \in ChatState /\ r.pc = "load" /\ r.use = caller[c].use /\ r.turn = caller[c].turn
    <3>1. "load" \in ChatPc
      BY DEF ChatPc
    <3>. QED
      BY <3>1, ChatFields, ChatGoes
  <2>2. caller' = [caller EXCEPT ![c] = r]
    BY <1>3 DEF Chat!NextNode
  <2> HIDE DEF r
  <2>. QED
    BY <1>3, <2>1, <2>2, ChatPasses DEF Chat!NextNode
<1>4. ASSUME NEW c \in Caller, Chat!Fail(c) PROVE ChatInv'
    BY <1>4, ChatIdle, ChatPasses DEF Chat!Fail
<1>5. ASSUME NEW k \in Chat!Kind, Chat!ClearMessages(k) PROVE ChatInv'
    BY <1>5, ChatClears
<1>6. CASE Chat!Crash
    BY <1>6, ChatCrashes
<1>7. CASE UNCHANGED Chat!vars
    BY <1>7 DEF Chat!vars, ChatInv, ChatTypes, ChatAlone, ChatAt, ChatFresh, ChatEntries, Recorded,
                ChatKept
<1>. QED
    BY <1>1, <1>2, <1>3, <1>4, <1>5, <1>6, <1>7 DEF Chat!Next

\* chat_history.py: what is stored of a conversation is the newest end of what was
\* recorded, and a chat run records its turn once, unless the process ends in between.
THEOREM HistoryIsAlwaysKept == ServicesSpec => []HistoryIsKept
<1> DEFINE Inv == which = "chat" => ChatInv
<1>1. ServicesInit => Inv
    BY ChatStarts DEF ServicesInit, JobsInit, DownloadsInit, CatalogInit, ChatInit, RegistryInit,
                      SchemaInit, SettingsInit
<1>2. Inv /\ [ServicesNext]_all => Inv'
  <2> SUFFICES ASSUME Inv, [ServicesNext]_all, which' = "chat" PROVE ChatInv'
    OBVIOUS
  <2>1. which = "chat" /\ (ChatNext \/ UNCHANGED all)
    BY DEF ServicesNext, JobsNext, DownloadsNext, CatalogNext, ChatNext, RegistryNext,
           SchemaNext, SettingsNext, Stopped, all
  <2>2. [Chat!Next]_(Chat!vars)
    BY <2>1 DEF ChatNext, all, Chat!vars
  <2>. QED
    BY <2>1, <2>2, ChatSteps
<1>3. Inv => HistoryIsKept
    BY ChatIsKept DEF HistoryIsKept
<1>. QED
    BY <1>1, <1>2, <1>3, PTL DEF ServicesSpec
------------------------------------------------------------------------------
(* migration.py *)

SchemaPc == {"start", "waiting", "check", "upgrade", "verify", "ready", "refused", "dead"}

SchemaTypes ==
    /\ database \in Schema!Schema /\ head \in [Process -> Schema!Revision]
    /\ process \in [Process -> [pc : SchemaPc, schema : Schema!Schema]]

\* A schema that a migration may have produced: of one revision, or of none and empty.
Migrated(schema, c) ==
    \/ c = 0 /\ schema.revisions = {} /\ schema.tables = {}
    \/ c \in Schema!Revision /\ schema.revisions = {c} /\ schema.tables \subseteq 1..c

\* The file was never of one revision with the tables of a later one.
FileIsOld ==
    \A r \in Schema!Revision : database.revisions = {r} => database.tables \subseteq 1..r

\* Who migrates holds the lock, and is between the revision of the file and its own head.
SchemaAt(p) ==
    /\ process[p].pc \in {"check", "upgrade", "verify"} => lock = p
    /\ process[p].pc = "check" => process[p].schema = database
    /\ process[p].pc \in {"upgrade", "verify"} =>
         \E c \in 0..head[p] :
            /\ Migrated(process[p].schema, c)
            /\ \A r \in Schema!Revision : database.revisions = {r} => r <= c
            /\ process[p].pc = "verify" => c = head[p]

SchemaInv == SchemaTypes /\ FileIsOld /\ (\A p \in Process : SchemaAt(p)) /\ Schema!ReadyIsServed

LEMMA SchemaStarts == Schema!Init => SchemaInv
<1> SUFFICES ASSUME Schema!Init PROVE SchemaInv
    OBVIOUS
<1> USE BoundsAssumption DEF Schema!Init
<1>1. SchemaTypes
    BY DEF SchemaTypes, SchemaPc
<1>2. FileIsOld
    BY DEF FileIsOld, Schema!Revision, Schema!Foreign
<1>3. (\A p \in Process : SchemaAt(p)) /\ Schema!ReadyIsServed
    BY DEF SchemaAt, Schema!ReadyIsServed, Schema!At
<1>. QED
    BY <1>1, <1>2, <1>3 DEF SchemaInv

\* The instance counts as the finite sets do.
LEMMA SchemaCounts == ASSUME NEW S PROVE Schema!Cardinality(S) = Cardinality(S)
  BY DEF Schema!Cardinality, Cardinality

\* What may be migrated has one revision, not beyond the head, or none and no table.
LEMMA AcceptableIsMigrated ==
    ASSUME SchemaInv, NEW p \in Process, Schema!Acceptable(database, head[p])
    PROVE  \E c \in 0..head[p] : /\ Migrated(database, c)
                                 /\ \A r \in Schema!Revision : database.revisions = {r} => r <= c
<1> DEFINE revisions == database.revisions
<1>1. head[p] \in Nat /\ head[p] <= MaxHead /\ revisions \subseteq 1..MaxHead + 1
      /\ (\A r \in revisions : r <= head[p]) /\ Cardinality(revisions) <= 1
      /\ (revisions = {} => database.tables = {})
  <2>1. head[p] \in Schema!Revision /\ database \in Schema!Schema
    BY DEF SchemaInv, SchemaTypes
  <2>2. head[p] \in Nat /\ head[p] <= MaxHead /\ revisions \subseteq 1..MaxHead + 1
    BY <2>1, BoundsAssumption DEF Schema!Schema, Schema!Revision, Schema!Foreign
  <2>3. /\ \A r \in revisions : r <= head[p]
        /\ Cardinality(revisions) <= 1
        /\ revisions = {} => database.tables = {}
    BY SchemaCounts, Zenon DEF Schema!Acceptable
  <2>. QED
    BY <2>2, <2>3
<1>2. IsFiniteSet(revisions) /\ Cardinality(revisions) \in Nat
  <2>1. IsFiniteSet(1..MaxHead + 1)
    <3>1. 1 \in Int /\ MaxHead + 1 \in Int
      BY BoundsAssumption
    <3>. QED
      BY <3>1, FS_Interval
  <2>. QED
    BY <1>1, <2>1, FS_Subset, FS_CardinalityType
<1>3. CASE Cardinality(revisions) = 0
  <2>1. revisions = {}
    BY <1>2, <1>3, FS_EmptySet
  <2>2. Migrated(database, 0) /\ 0 \in 0..head[p]
    BY <1>1, <2>1 DEF Migrated
  <2>. QED
    BY <2>1, <2>2
<1>4. CASE Cardinality(revisions) = 1
  <2>1. PICK c : revisions = {c}
    BY <1>2, <1>4, FS_Singleton
  <2>2. c \in Schema!Revision /\ c \in 0..head[p]
    BY <1>1, <2>1, BoundsAssumption DEF Schema!Revision
  <2>3. Migrated(database, c)
    BY <2>1, <2>2 DEF Migrated, SchemaInv, FileIsOld
  <2>. QED
    BY <2>1, <2>2, <2>3
<1>. QED
    BY <1>1, <1>2, <1>3, <1>4

\* A step of one process that leaves the file as it is.
LEMMA SchemaWalks ==
    ASSUME SchemaInv, NEW p \in Process, NEW q \in [pc : SchemaPc, schema : Schema!Schema],
           process' = [process EXCEPT ![p] = q], UNCHANGED <<database, head>>,
           SchemaAt(p)', q.pc = "ready" => process[p].pc = "ready",
           \A o \in Process \ {p} : lock = o => lock' = o
    PROVE  SchemaInv'
<1>1. process'[p] = q /\ \A o \in Process \ {p} : process'[o] = process[o]
    BY DEF SchemaInv, SchemaTypes
<1>2. SchemaTypes' /\ FileIsOld'
    BY DEF SchemaInv, SchemaTypes, FileIsOld
<1>3. ASSUME NEW o \in Process PROVE SchemaAt(o)'
  <2>1. CASE o # p
    BY <1>1, <2>1 DEF SchemaInv, SchemaAt
  <2>. QED
    BY <2>1
<1>4. Schema!ReadyIsServed'
    BY <1>1 DEF SchemaInv, Schema!ReadyIsServed, Schema!At, Schema!Complete
<1>. QED
    BY <1>2, <1>3, <1>4 DEF SchemaInv

LEMMA SchemaSteps == SchemaInv /\ [Schema!Next]_(Schema!vars) => SchemaInv'
<1> SUFFICES ASSUME SchemaInv, [Schema!Next]_(Schema!vars) PROVE SchemaInv'
    OBVIOUS
<1>0. /\ SchemaTypes /\ database \in Schema!Schema
      /\ \A p \in Process : SchemaAt(p) /\ process[p] \in [pc : SchemaPc, schema : Schema!Schema]
                            /\ process[p].schema \in Schema!Schema
                            /\ head[p] \in Nat \ {0} /\ head[p] <= MaxHead
    BY BoundsAssumption DEF SchemaInv, SchemaTypes, Schema!Revision
<1>1. ASSUME NEW p \in Process, NEW pc \in SchemaPc, Schema!Go(p, pc),
             pc \notin {"check", "upgrade", "verify", "ready"},
             UNCHANGED <<database, head, lock>>
      PROVE  SchemaInv'
  <2> DEFINE q == [process[p] EXCEPT !.pc = pc]
  <2>1. process' = [process EXCEPT ![p] = q] /\ q \in [pc : SchemaPc, schema : Schema!Schema]
        /\ q.pc = pc
    BY <1>0, <1>1 DEF Schema!Go
  <2>2. process'[p].pc = pc
    BY <1>0, <2>1 DEF SchemaTypes
  <2>3. SchemaAt(p)'
    BY <1>1, <2>2 DEF SchemaAt
  <2> HIDE DEF q
  <2>. QED
    BY <1>1, <2>1, <2>3, SchemaWalks
<1>2. ASSUME NEW p \in Process, NEW q \in [pc : SchemaPc, schema : Schema!Schema],
             process' = [process EXCEPT ![p] = q], q.pc \in {"refused", "dead"},
             lock' = Schema!Nobody \/ (lock' = lock /\ lock # p), lock' = Schema!Nobody => lock = p \/ lock = Schema!Nobody,
             UNCHANGED <<database, head>>
      PROVE  SchemaInv'
  <2>1. process'[p].pc \in {"refused", "dead"}
    BY <1>0, <1>2 DEF SchemaTypes
  <2>2. SchemaAt(p)'
    BY <2>1 DEF SchemaAt
  <2>3. \A o \in Process \ {p} : lock = o => lock' = o
    BY <1>2, NamesAssumption DEF Schema!Nobody
  <2>. QED
    BY <1>2, <2>2, <2>3, SchemaWalks
<1>3. ASSUME NEW p \in Process, Schema!Refuse(p), lock = p PROVE SchemaInv'
  <2>1. [pc |-> "refused", schema |-> database] \in [pc : SchemaPc, schema : Schema!Schema]
    BY <1>0 DEF SchemaPc
  <2>. QED
    BY <1>2, <1>3, <2>1 DEF Schema!Refuse
<1>4. ASSUME NEW p \in Process, Schema!Wait(p) \/ Schema!TimeOut(p) PROVE SchemaInv'
    BY <1>1, <1>4 DEF Schema!Wait, Schema!TimeOut, SchemaPc
<1>5. ASSUME NEW p \in Process, Schema!Acquire(p) PROVE SchemaInv'
  <2> DEFINE q == [pc |-> "check", schema |-> database]
  <2>1. q \in [pc : SchemaPc, schema : Schema!Schema] /\ process' = [process EXCEPT ![p] = q]
        /\ lock' = p /\ lock = Schema!Nobody /\ UNCHANGED <<database, head>>
    BY <1>0, <1>5 DEF SchemaPc, Schema!Acquire
  <2>2. process'[p] = q
    BY <1>0, <2>1 DEF SchemaTypes
  <2>3. SchemaAt(p)'
    BY <2>1, <2>2 DEF SchemaAt
  <2>4. \A o \in Process \ {p} : lock # o
    BY <2>1, NamesAssumption DEF Schema!Nobody
  <2>. QED
    BY <2>1, <2>3, <2>4, SchemaWalks
<1>6. ASSUME NEW p \in Process, Schema!Check(p) PROVE SchemaInv'
  <2>1. lock = p /\ process[p].schema = database
    BY <1>0, <1>6 DEF SchemaAt, Schema!Check, Schema!At
  <2>2. CASE ~Schema!Acceptable(process[p].schema, head[p])
    BY <1>3, <1>6, <2>1, <2>2 DEF Schema!Check
  <2>3. CASE Schema!Acceptable(process[p].schema, head[p])
    <3> DEFINE q == [process[p] EXCEPT !.pc = "upgrade"]
    <3>1. q \in [pc : SchemaPc, schema : Schema!Schema] /\ process' = [process EXCEPT ![p] = q]
          /\ UNCHANGED <<database, head, lock>>
      BY <1>0, <1>6, <2>3 DEF SchemaPc, Schema!Check, Schema!Go
    <3>2. process'[p] = q /\ q.pc = "upgrade" /\ q.schema = database
      BY <1>0, <2>1, <3>1 DEF SchemaTypes
    <3> HIDE DEF q
    <3>3. SchemaAt(p)'
      BY <2>1, <2>3, <3>1, <3>2, AcceptableIsMigrated DEF SchemaAt, Migrated
    <3>. QED
      BY <3>1, <3>2, <3>3, SchemaWalks
  <2>. QED
    BY <2>2, <2>3
<1>7. ASSUME NEW p \in Process, Schema!Upgrade(p) PROVE SchemaInv'
  <2> DEFINE schema == process[p].schema
             next   == Schema!Current(schema) + 1
  <2>1. lock = p /\ process[p].pc = "upgrade" /\ schema \in Schema!Schema
    BY <1>0, <1>7 DEF SchemaAt, Schema!Upgrade, Schema!At
  <2>2. PICK c \in 0..head[p] :
            /\ Migrated(schema, c)
            /\ \A r \in Schema!Revision : database.revisions = {r} => r <= c
    BY <1>0, <2>1 DEF SchemaAt
  <2>3. next = c + 1
    BY <1>0, <2>2 DEF Migrated, Schema!Current, Schema!Revision
  <2> HIDE DEF next
  <2>4. CASE next <= head[p] /\ next \notin schema.tables
             /\ process' = [process EXCEPT ![p].schema =
                   [revisions |-> {next}, tables |-> schema.tables \cup {next}]]
             /\ UNCHANGED <<database, head, lock>>
    <3> DEFINE s == [revisions |-> {next}, tables |-> schema.tables \cup {next}]
               q == [process[p] EXCEPT !.schema = s]
    <3>1. next \in Schema!Revision /\ next \in 0..head[p] /\ schema.tables \subseteq 1..next
      <4>1. c \in Nat /\ next \in 1..MaxHead /\ next \in 0..head[p]
        BY <1>0, <2>2, <2>3, <2>4, BoundsAssumption
      <4>2. 1..c \subseteq 1..next
        BY <4>1, <2>3
      <4>3. schema.tables \subseteq 1..c
        BY <2>2 DEF Migrated
      <4>. QED
        BY <4>1, <4>2, <4>3 DEF Schema!Revision
    <3>2. s \in Schema!Schema /\ Migrated(s, next)
      BY <2>1, <3>1 DEF Migrated, Schema!Schema, Schema!Revision
    <3>3. q \in [pc : SchemaPc, schema : Schema!Schema] /\ q.pc = "upgrade" /\ q.schema = s
          /\ process' = [process EXCEPT ![p] = q]
      BY <1>0, <2>1, <2>4, <3>2
    <3> HIDE DEF s, q
    <3>4. process'[p] = q
      BY <1>0, <3>3 DEF SchemaTypes
    <3>5. \A r \in Schema!Revision : database.revisions = {r} => r <= next
      BY <1>0, <2>2, <2>3 DEF Schema!Revision
    <3>6. SchemaAt(p)'
      BY <2>1, <2>4, <3>1, <3>2, <3>3, <3>4, <3>5 DEF SchemaAt, Migrated
    <3>. QED
      BY <2>4, <3>3, <3>6, SchemaWalks
  <2>5. CASE Schema!Refuse(p)
    BY <1>3, <2>1, <2>5
  <2>6. CASE next > head[p] /\ Schema!Go(p, "verify") /\ UNCHANGED <<database, head, lock>>
    <3> DEFINE q == [process[p] EXCEPT !.pc = "verify"]
    <3>1. q \in [pc : SchemaPc, schema : Schema!Schema] /\ process' = [process EXCEPT ![p] = q]
          /\ q.pc = "verify" /\ q.schema = schema
      BY <1>0, <2>6 DEF SchemaPc, Schema!Go
    <3> HIDE DEF q
    <3>2. process'[p] = q /\ c = head[p]
      <4>1. process'[p] = q
        BY <1>0, <3>1 DEF SchemaTypes
      <4>2. c \in Nat /\ c <= head[p] /\ c + 1 > head[p]
        BY <1>0, <2>2, <2>3, <2>6
      <4>. QED
        BY <1>0, <4>1, <4>2
    <3>3. SchemaAt(p)'
      BY <2>1, <2>2, <2>6, <3>1, <3>2 DEF SchemaAt, Migrated
    <3>. QED
      BY <2>6, <3>1, <3>3, SchemaWalks
  <2>. QED
    BY <1>7, <2>4, <2>5, <2>6 DEF Schema!Upgrade, next
<1>8. ASSUME NEW p \in Process, Schema!Commit(p) PROVE SchemaInv'
  <2> DEFINE schema == process[p].schema
  <2>1. lock = p /\ process[p].pc = "verify" /\ schema \in Schema!Schema
    BY <1>0, <1>8 DEF SchemaAt, Schema!Commit, Schema!At
  <2>2. /\ Migrated(schema, head[p])
        /\ \A r \in Schema!Revision : database.revisions = {r} => r <= head[p]
    BY <1>0, <2>1 DEF SchemaAt
  <2>3. CASE ~(1..head[p] \subseteq schema.tables)
    BY <1>3, <1>8, <2>1, <2>3 DEF Schema!Commit
  <2>4. CASE 1..head[p] \subseteq schema.tables
    <3>1. database' = schema /\ head' = head /\ process' = [process EXCEPT ![p].pc = "ready"]
      BY <1>8, <2>4 DEF Schema!Commit, Schema!Go
    <3>2. Schema!Complete(schema, head[p]) /\ head[p] \in Schema!Revision
      BY <1>0, <2>2, <2>4 DEF Migrated, Schema!Complete, Schema!Revision
    <3>3. process'[p].pc = "ready" /\ \A o \in Process \ {p} : process'[o] = process[o]
      BY <1>0, <3>1 DEF SchemaTypes
    <3>4. SchemaTypes'
      BY <1>0, <2>1, <3>1 DEF SchemaTypes, SchemaPc
    <3>5. FileIsOld'
      BY <3>1, <3>2 DEF FileIsOld, Schema!Complete, Schema!Revision
    <3>6. \A o \in Process : SchemaAt(o)'
      BY <1>0, <2>1, <3>3 DEF SchemaAt
    <3>7. Schema!ReadyIsServed'
      <4>1. ASSUME NEW o \in Process, o # p, process[o].pc = "ready" PROVE head[p] >= head[o]
        BY <1>0, <2>2, <4>1 DEF SchemaInv, Schema!ReadyIsServed, Schema!At, Schema!Complete,
                                Schema!Revision
      <4>. QED
        BY <1>0, <3>1, <3>2, <3>3, <4>1 DEF Schema!ReadyIsServed, Schema!At, Schema!Complete
    <3>. QED
      BY <3>4, <3>5, <3>6, <3>7 DEF SchemaInv
  <2>. QED
    BY <2>3, <2>4
<1>9. ASSUME NEW p \in Process, Schema!Crash(p) PROVE SchemaInv'
  <2>1. [pc |-> "dead", schema |-> database] \in [pc : SchemaPc, schema : Schema!Schema]
    BY <1>0 DEF SchemaPc
  <2>. QED
    BY <1>2, <1>9, <2>1 DEF Schema!Crash
<1>10. CASE UNCHANGED Schema!vars
    BY <1>10 DEF Schema!vars, SchemaInv, SchemaTypes, FileIsOld, SchemaAt, Schema!ReadyIsServed,
                 Schema!At, Schema!Complete
<1>. QED
    BY <1>4, <1>5, <1>6, <1>7, <1>8, <1>9, <1>10 DEF Schema!Next
------------------------------------------------------------------------------
(* registry.py *)

RegistryPc == {"idle", "done", "failed", "broken"} \cup Registry!Steps

ImporterState == [pc : RegistryPc, manifest : NodeId \cup {Registry!Nothing},
                  read : SUBSET NodeId, late : BOOLEAN]

RegistryTypes ==
    /\ files \in [Registry!File -> NodeId \cup {Registry!Nothing, Registry!Torn}]
    /\ registry \subseteq NodeId
    /\ importer \in [Importer -> ImporterState]
    /\ overlap \in BOOLEAN

\* An import whose file is its own finds it as it left it, from its close to its delete.
ImporterAt(i) ==
    LET m == importer[i].manifest IN
    /\ importer[i].pc = "idle" <=> m = Registry!Nothing
    /\ m \in NodeId /\ Registry!Alone(m) /\ Registry!Sole(i) =>
         /\ importer[i].pc \in {"read", "assign", "created", "done"} =>
              files[ManifestFile(m)] = m
         /\ \/ importer[i].pc \in {"reread", "reassign", "broken"}
            \/ importer[i].pc = "failed" /\ ~importer[i].late
            => files[ManifestFile(m)] = Registry!Nothing

\* Where one import after the other is, between the disk and the memory.
ImportOrder(i) ==
    /\ \A j \in Registry!Busy : i \in Registry!Busy => i = j
    /\ importer[i].pc \in {"assign", "reassign"} => importer[i].read = Registry!OnDisk
    /\ importer[i].pc = "created" => registry = Registry!OnDisk
    /\ importer[i].pc # "broken"

\* Without an overlap only the import at its close has a torn file.
OneByOne ==
    ~overlap =>
      /\ \A i \in Importer : ImportOrder(i)
      /\ Registry!Busy = {} => registry = Registry!OnDisk
      /\ \A f \in Registry!File : files[f] = Registry!Torn =>
           \E i \in Importer : importer[i].pc = "close" /\ ManifestFile(importer[i].manifest) = f

RegistryInv == RegistryTypes /\ (\A i \in Importer : ImporterAt(i)) /\ OneByOne

LEMMA RegistryStarts == Registry!Init => RegistryInv
<1> SUFFICES ASSUME Registry!Init PROVE RegistryInv
    OBVIOUS
<1>1. PICK there \in SUBSET NodeId :
          /\ \A m, n \in there : ManifestFile(m) = ManifestFile(n) => m = n
          /\ files = [f \in Registry!File |-> IF \E m \in there : ManifestFile(m) = f
                          THEN CHOOSE m \in there : ManifestFile(m) = f ELSE Registry!Nothing]
          /\ registry = there
    BY DEF Registry!Init
<1>2. /\ importer = [i \in Importer |-> [pc |-> "idle", manifest |-> Registry!Nothing,
                                         read |-> {}, late |-> FALSE]]
      /\ overlap = FALSE
    BY DEF Registry!Init
<1>3. ASSUME NEW f \in Registry!File
      PROVE  \/ files[f] \in there /\ ManifestFile(files[f]) = f
             \/ files[f] = Registry!Nothing /\ ~\E m \in there : ManifestFile(m) = f
  <2>1. CASE \E m \in there : ManifestFile(m) = f
    <3>1. files[f] = CHOOSE m \in there : ManifestFile(m) = f
      BY <1>1, <2>1
    <3>2. PICK m \in there : ManifestFile(m) = f
      BY <2>1
    <3>. QED
      BY <3>1, <3>2
  <2>2. CASE ~\E m \in there : ManifestFile(m) = f
    BY <1>1, <2>2
  <2>. QED
    BY <2>1, <2>2
<1>4. files \in [Registry!File -> NodeId \cup {Registry!Nothing, Registry!Torn}]
  <2>1. \A f \in Registry!File : files[f] \in NodeId \cup {Registry!Nothing, Registry!Torn}
    BY <1>3
  <2>. QED
    BY <1>1, <2>1
<1>5. registry = Registry!OnDisk
  <2>1. ASSUME NEW m \in there PROVE m \in Registry!OnDisk
    <3>1. ManifestFile(m) \in Registry!File
      BY DEF Registry!File
    <3>2. files[ManifestFile(m)] = m
      BY <1>1, <1>3, <3>1
    <3>. QED
      BY <3>1, <3>2 DEF Registry!OnDisk
  <2>2. ASSUME NEW m \in Registry!OnDisk PROVE m \in there
    BY <1>3, NamesAssumption DEF Registry!OnDisk, Registry!Nothing
  <2>. QED
    BY <1>1, <2>1, <2>2
<1>6. \A f \in Registry!File : files[f] # Registry!Torn
    BY <1>1, <1>3, NamesAssumption DEF Registry!Nothing, Registry!Torn
<1>7. \A i \in Importer : importer[i].pc = "idle" /\ importer[i].manifest = Registry!Nothing
    BY <1>2
<1>8. [pc |-> "idle", manifest |-> Registry!Nothing, read |-> {}, late |-> FALSE] \in ImporterState
    BY DEF ImporterState, RegistryPc
<1>9. RegistryTypes
    BY <1>1, <1>2, <1>4, <1>8 DEF RegistryTypes
<1>10. \A i \in Importer : ImporterAt(i)
    BY <1>7 DEF ImporterAt
<1>11. OneByOne
    BY <1>5, <1>6, <1>7 DEF OneByOne, ImportOrder, Registry!Busy, Registry!Steps
<1>. QED
    BY <1>9, <1>10, <1>11 DEF RegistryInv

LEMMA RegistryIsServed ==
    RegistryInv => Registry!ImportIsAllOrNothing /\ Registry!MemoryIsDisk
<1>1. RegistryInv => Registry!ImportIsAllOrNothing
    BY DEF RegistryInv, ImporterAt, Registry!ImportIsAllOrNothing, Registry!At
<1>2. RegistryInv => Registry!MemoryIsDisk
    BY DEF RegistryInv, RegistryTypes, OneByOne, Registry!MemoryIsDisk
<1>. QED
    BY <1>1, <1>2

\* What a step of the import i to pc leaves in its file, if the file is its own.
LeavesFile(i, pc, x) ==
    LET m == importer[i].manifest IN
    Registry!Alone(m) /\ Registry!Sole(i) =>
      /\ pc \in {"read", "assign", "created", "done"} => x = m
      /\ pc \in {"reread", "reassign", "broken", "failed"} => x = Registry!Nothing

\* What it leaves in memory and on disk, if it is the only one.
KeepsOrder(pc, read, x) ==
    ~overlap =>
      /\ x = Registry!Torn => pc = "close"
      /\ pc \in {"assign", "reassign"} => read = Registry!OnDisk'
      /\ pc = "created" \/ pc \notin Registry!Steps => registry' = Registry!OnDisk'
      /\ pc # "broken"

\* A step of the import i of a manifest, which may write to the file of that manifest.
LEMMA ImportMoves ==
    ASSUME RegistryInv, NEW i \in Importer, NEW q \in ImporterState,
           importer' = [importer EXCEPT ![i] = q], importer[i].pc \in Registry!Steps,
           q.manifest = importer[i].manifest, q.pc # "idle",
           q.manifest \in NodeId,
           registry' \in SUBSET NodeId, overlap' = overlap,
           NEW x \in NodeId \cup {Registry!Nothing, Registry!Torn},
           files' = [files EXCEPT ![ManifestFile(q.manifest)] = x],
           LeavesFile(i, q.pc, x)
    PROVE  /\ RegistryTypes' /\ \A j \in Importer : ImporterAt(j)'
           /\ importer'[i] = q /\ \A j \in Importer \ {i} : importer'[j] = importer[j]
           /\ ManifestFile(q.manifest) \in Registry!File
           /\ files'[ManifestFile(q.manifest)] = x
           /\ \A f \in Registry!File \ {ManifestFile(q.manifest)} : files'[f] = files[f]
<1>1. importer'[i] = q /\ \A j \in Importer \ {i} : importer'[j] = importer[j]
    BY DEF RegistryInv, RegistryTypes
<1>2. /\ ManifestFile(q.manifest) \in Registry!File
      /\ files'[ManifestFile(q.manifest)] = x
      /\ \A f \in Registry!File \ {ManifestFile(q.manifest)} : files'[f] = files[f]
    BY DEF RegistryInv, RegistryTypes, Registry!File
<1>3. RegistryTypes'
    BY <1>2 DEF RegistryInv, RegistryTypes
<1>4. ImporterAt(i)'
  <2>1. Registry!Sole(i)' => Registry!Sole(i)
    BY <1>1 DEF Registry!Sole
  <2>. QED
    BY <1>1, <1>2, <2>1, NamesAssumption
       DEF ImporterAt, Registry!Alone, Registry!Nothing, LeavesFile
<1>5. ASSUME NEW j \in Importer \ {i} PROVE ImporterAt(j)'
  <2> DEFINE m == importer[j].manifest
  <2>1. importer'[j] = importer[j] /\ ImporterAt(j)
    BY <1>1 DEF RegistryInv
  <2>2. ASSUME m \in NodeId, Registry!Alone(m), Registry!Sole(j)'
        PROVE  Registry!Sole(j) /\ files'[ManifestFile(m)] = files[ManifestFile(m)]
    <3>1. \A o \in Importer : importer'[o].manifest = importer[o].manifest
      BY <1>1
    <3>2. q.manifest # m
      BY <1>1, <2>2, <2>1 DEF Registry!Sole
    <3>3. Registry!Sole(j)
      BY <2>2, <3>1 DEF Registry!Sole
    <3>4. ManifestFile(m) # ManifestFile(q.manifest) /\ ManifestFile(m) \in Registry!File
      BY <2>2, <3>2 DEF Registry!Alone, Registry!File
    <3>. QED
      BY <1>2, <3>3, <3>4
  <2>. QED
    BY <2>1, <2>2 DEF ImporterAt, Registry!Alone
<1>. QED
    BY <1>1, <1>2, <1>3, <1>4, <1>5

\* What is left to show of such a step while the imports come one after the other.
LEMMA ImportKeeps ==
    ASSUME RegistryInv, NEW i \in Importer, NEW q \in ImporterState,
           importer' = [importer EXCEPT ![i] = q], importer[i].pc \in Registry!Steps,
           q.manifest = importer[i].manifest, q.pc # "idle",
           registry' \in SUBSET NodeId, overlap' = overlap,
           NEW x \in NodeId \cup {Registry!Nothing, Registry!Torn},
           files' = [files EXCEPT ![ManifestFile(q.manifest)] = x],
           LeavesFile(i, q.pc, x), KeepsOrder(q.pc, q.read, x)
    PROVE  RegistryInv'
<1>1. q.manifest \in NodeId
    BY DEF RegistryInv, RegistryTypes, ImporterState, ImporterAt, Registry!Steps
<1>2. /\ RegistryTypes' /\ \A j \in Importer : ImporterAt(j)'
      /\ importer'[i] = q /\ \A j \in Importer \ {i} : importer'[j] = importer[j]
      /\ ManifestFile(q.manifest) \in Registry!File
      /\ files'[ManifestFile(q.manifest)] = x
      /\ \A f \in Registry!File \ {ManifestFile(q.manifest)} : files'[f] = files[f]
    BY <1>1, ImportMoves, ZenonT(60)
<1>3. ASSUME ~overlap PROVE OneByOne'
  <2>1. i \in Registry!Busy /\ \A j \in Registry!Busy : j = i
    BY <1>3 DEF RegistryInv, OneByOne, ImportOrder, Registry!Busy
  <2>2. \A j \in Importer \ {i} : importer'[j].pc \notin Registry!Steps
    BY <1>2, <2>1 DEF Registry!Busy
  <2>3. \A j \in Importer : ImportOrder(j)'
    <3>1. ASSUME NEW j \in Importer \ {i} PROVE ImportOrder(j)'
      <4>1. importer'[j].pc # "broken"
        BY <1>2, <1>3 DEF RegistryInv, OneByOne, ImportOrder
      <4>. QED
        BY <2>2, <4>1 DEF ImportOrder, Registry!Busy, Registry!Steps
    <3>2. ImportOrder(i)'
      BY <1>2, <1>3, <2>2 DEF ImportOrder, Registry!Busy, KeepsOrder
    <3>. QED
      BY <3>1, <3>2
  <2>4. Registry!Busy' = {} => registry' = Registry!OnDisk'
    BY <1>2, <1>3 DEF Registry!Busy, KeepsOrder
  <2>5. ASSUME NEW f \in Registry!File, files'[f] = Registry!Torn
        PROVE  \E j \in Importer : importer'[j].pc = "close" /\ ManifestFile(importer'[j].manifest) = f
    <3>1. CASE f = ManifestFile(q.manifest)
      BY <1>2, <1>3, <2>5, <3>1 DEF KeepsOrder
    <3>2. CASE f # ManifestFile(q.manifest)
      <4>1. PICK j \in Importer : importer[j].pc = "close" /\ ManifestFile(importer[j].manifest) = f
        BY <1>2, <1>3, <2>5, <3>2 DEF RegistryInv, OneByOne
      <4>2. j = i
        BY <2>1, <4>1 DEF Registry!Busy, Registry!Steps
      <4>. QED
        BY <3>2, <4>1, <4>2
    <3>. QED
      BY <3>1, <3>2
  <2>6. Registry!File' = Registry!File
    BY DEF Registry!File
  <2>. QED
    BY <2>3, <2>4, <2>5, <2>6 DEF OneByOne
<1>. QED
    BY <1>2, <1>3 DEF RegistryInv, OneByOne

LEMMA RegistrySteps == RegistryInv /\ [Registry!Next]_(Registry!vars) => RegistryInv'
<1> SUFFICES ASSUME RegistryInv, [Registry!Next]_(Registry!vars) PROVE RegistryInv'
    OBVIOUS
<1>1. CASE UNCHANGED Registry!vars
    BY <1>1 DEF Registry!vars, RegistryInv, RegistryTypes, ImporterAt, OneByOne, ImportOrder,
                Registry!Busy, Registry!OnDisk, Registry!Alone, Registry!Sole, Registry!File
<1>. SUFFICES ASSUME NEW i \in Importer,
                     \/ \E m \in NodeId : Registry!Check(i, m)
                     \/ Registry!Save(i) \/ Registry!Close(i) \/ Registry!Read(i)
                     \/ Registry!Assign(i) \/ Registry!Created(i)
                     \/ Registry!Delete(i) \/ Registry!Reread(i) \/ Registry!Reassign(i)
              PROVE  RegistryInv'
    BY <1>1 DEF Registry!Next
<1> DEFINE m == importer[i].manifest
           file == files[ManifestFile(m)]
<1>2. importer[i] \in ImporterState /\ ImporterAt(i) /\ RegistryTypes
      /\ registry \in SUBSET NodeId /\ Registry!OnDisk \in SUBSET NodeId
    BY DEF RegistryInv, RegistryTypes, Registry!OnDisk
<1>3. ASSUME importer[i].pc \in Registry!Steps
      PROVE  /\ m \in NodeId /\ ManifestFile(m) \in Registry!File
             /\ file \in NodeId \cup {Registry!Nothing, Registry!Torn}
             /\ files = [files EXCEPT ![ManifestFile(m)] = file]
  <2>1. m \in NodeId
    BY <1>2, <1>3 DEF ImporterAt, ImporterState, Registry!Steps
  <2>2. ManifestFile(m) \in Registry!File
    BY <2>1 DEF Registry!File
  <2>. QED
    BY <1>2, <2>1, <2>2 DEF RegistryTypes
<1>4. ASSUME ~overlap, importer[i].pc \in Registry!Steps
      PROVE  /\ ImportOrder(i)
             /\ importer[i].pc # "close" => \A f \in Registry!File : files[f] # Registry!Torn
  <2>1. i \in Registry!Busy /\ \A j \in Registry!Busy : j = i
    BY <1>4 DEF RegistryInv, OneByOne, ImportOrder, Registry!Busy
  <2>. QED
    BY <1>4, <2>1 DEF RegistryInv, OneByOne, Registry!Busy, Registry!Steps
<1>5. ASSUME NEW n \in NodeId, Registry!Check(i, n) PROVE RegistryInv'
  <2> DEFINE q == [importer[i] EXCEPT !.manifest = n,
                       !.pc = IF n \in registry THEN "failed" ELSE "save", !.late = n \in registry]
  <2>1. importer[i].pc = "idle" /\ m = Registry!Nothing /\ n # Registry!Nothing
        /\ UNCHANGED <<files, registry>>
    BY <1>2, <1>5, NamesAssumption DEF Registry!Check, Registry!At, ImporterAt, Registry!Nothing
  <2>2. importer' = [importer EXCEPT ![i] = q]
    BY <1>5, Zenon DEF Registry!Check
  <2>3. q \in ImporterState
    <3>1. (n \in registry) \in BOOLEAN
          /\ (IF n \in registry THEN "failed" ELSE "save") \in RegistryPc
      BY DEF RegistryPc, Registry!Steps
    <3>. QED
      BY <1>2, <3>1, Zenon DEF ImporterState
  <2>4. q.manifest = n /\ q.pc \in {"failed", "save"} /\ (q.pc = "failed" => q.late)
    BY <1>2 DEF ImporterState
  <2>5. overlap' = (overlap \/ (q.pc = "save" /\ Registry!Busy # {}))
    BY <1>2, <1>5 DEF Registry!Check, ImporterState
  <2> HIDE DEF q
  <2>6. importer'[i] = q /\ \A j \in Importer \ {i} : importer'[j] = importer[j]
    BY <1>2, <2>2 DEF RegistryTypes
  <2>7. RegistryTypes'
    <3>1. importer' \in [Importer -> ImporterState]
      BY <1>2, <2>2, <2>3 DEF RegistryTypes
    <3>2. overlap' \in BOOLEAN
      BY <1>2, <2>5, Zenon DEF RegistryTypes
    <3>. QED
      BY <1>2, <2>1, <3>1, <3>2 DEF RegistryTypes
  <2>8. ASSUME NEW j \in Importer PROVE ImporterAt(j)'
    <3>1. CASE j = i
      BY <2>1, <2>4, <2>6, <3>1 DEF ImporterAt
    <3>2. CASE j # i
      <4>1. importer'[j] = importer[j] /\ ImporterAt(j)
        BY <2>6, <3>2 DEF RegistryInv
      <4>2. importer[j].manifest \in NodeId /\ Registry!Sole(j)' => Registry!Sole(j)
        BY <2>1, <2>6, NamesAssumption DEF Registry!Sole, Registry!Nothing
      <4>. QED
        BY <2>1, <4>1, <4>2 DEF ImporterAt, Registry!Alone
    <3>. QED
      BY <3>1, <3>2
  <2>9. ASSUME ~overlap' PROVE OneByOne'
    <3>1. ~overlap /\ (q.pc = "save" => Registry!Busy = {})
      BY <2>5, <2>9
    <3>2. i \notin Registry!Busy
      BY <2>1 DEF Registry!Busy, Registry!Steps
    <3>3. Registry!Busy' = IF q.pc = "save" THEN {i} ELSE Registry!Busy
      BY <2>4, <2>6, <3>1, <3>2 DEF Registry!Busy, Registry!Steps
    <3>4. \A j \in Importer : ImportOrder(j)'
      <4>1. ASSUME NEW j \in Importer PROVE \A k \in Registry!Busy' : j \in Registry!Busy' => j = k
        BY <3>1, <3>3 DEF RegistryInv, OneByOne, ImportOrder
      <4>2. Registry!OnDisk' = Registry!OnDisk
        BY <2>1 DEF Registry!OnDisk, Registry!File
      <4>3. ASSUME NEW j \in Importer
            PROVE  /\ importer'[j].pc \in {"assign", "reassign"} => importer'[j].read = Registry!OnDisk
                   /\ importer'[j].pc = "created" => registry = Registry!OnDisk
                   /\ importer'[j].pc # "broken"
        BY <2>4, <2>6, <3>1 DEF RegistryInv, OneByOne, ImportOrder
      <4>. QED
        BY <2>1, <4>1, <4>2, <4>3 DEF ImportOrder
    <3>5. Registry!Busy' = {} => registry' = Registry!OnDisk'
      BY <2>1, <3>1, <3>3 DEF RegistryInv, OneByOne, Registry!OnDisk, Registry!File
    <3>6. \A f \in Registry!File' : files'[f] = Registry!Torn =>
             \E j \in Importer : importer'[j].pc = "close" /\ ManifestFile(importer'[j].manifest) = f
      BY <2>1, <2>6, <3>1 DEF RegistryInv, OneByOne, Registry!File
    <3>. QED
      BY <3>4, <3>5, <3>6 DEF OneByOne
  <2>. QED
    BY <2>7, <2>8, <2>9 DEF RegistryInv, OneByOne
<1>6. ASSUME NEW pc \in RegistryPc \ {"idle"}, NEW read \in SUBSET NodeId,
             importer[i].pc \in Registry!Steps,
             importer' = [importer EXCEPT ![i].pc = pc, ![i].read = read],
             registry' \in SUBSET NodeId, overlap' = overlap,
             NEW x \in NodeId \cup {Registry!Nothing, Registry!Torn},
             files' = [files EXCEPT ![ManifestFile(m)] = x],
             LeavesFile(i, pc, x), KeepsOrder(pc, read, x)
      PROVE  RegistryInv'
  <2> DEFINE q == [importer[i] EXCEPT !.pc = pc, !.read = read]
  <2>1. importer' = [importer EXCEPT ![i] = q]
    BY <1>6, Zenon
  <2>2. q \in ImporterState
    BY <1>2, Zenon DEF ImporterState
  <2>3. q.pc = pc /\ q.read = read /\ q.manifest = m
    BY <1>2 DEF ImporterState
  <2> HIDE DEF q
  <2>. QED
    BY <1>6, <2>1, <2>2, <2>3, ImportKeeps, ZenonT(60)
<1>7. ASSUME NEW pc, Registry!Go(i, pc)
      PROVE  importer' = [importer EXCEPT ![i].pc = pc, ![i].read = importer[i].read]
             /\ importer[i].read \in SUBSET NodeId
    BY <1>2, <1>7 DEF Registry!Go, RegistryTypes, ImporterState
<1>8. CASE Registry!Save(i)
  <2>1. importer[i].pc = "save" /\ Registry!Go(i, "close") /\ UNCHANGED <<registry, overlap>>
        /\ files' = [files EXCEPT ![ManifestFile(m)] = Registry!Torn]
    BY <1>8 DEF Registry!Save, Registry!At
  <2>2. importer[i].pc \in Registry!Steps /\ "close" \in RegistryPc \ {"idle"}
    BY <2>1 DEF RegistryPc, Registry!Steps
  <2>3. LeavesFile(i, "close", Registry!Torn) /\ KeepsOrder("close", importer[i].read, Registry!Torn)
    BY DEF LeavesFile, KeepsOrder, Registry!Steps
  <2>. QED
    BY <1>2, <1>6, <1>7, <2>1, <2>2, <2>3
<1>9. CASE Registry!Close(i)
  <2>1. importer[i].pc = "close" /\ Registry!Go(i, "read") /\ UNCHANGED <<registry, overlap>>
        /\ files' = [files EXCEPT ![ManifestFile(m)] = m]
    BY <1>9 DEF Registry!Close, Registry!At
  <2>2. importer[i].pc \in Registry!Steps /\ "read" \in RegistryPc \ {"idle"}
    BY <2>1 DEF RegistryPc, Registry!Steps
  <2>3. m \in NodeId /\ m # Registry!Torn
    BY <1>3, <2>2, NamesAssumption DEF Registry!Torn
  <2>4. LeavesFile(i, "read", m) /\ KeepsOrder("read", importer[i].read, m)
    BY <2>3 DEF LeavesFile, KeepsOrder, Registry!Steps
  <2>. QED
    BY <1>2, <1>6, <1>7, <2>1, <2>2, <2>3, <2>4
<1>10. ASSUME importer[i].pc \in {"read", "assign", "created", "reread", "reassign"}
       PROVE  /\ importer[i].pc \in Registry!Steps
              /\ Registry!Alone(m) /\ Registry!Sole(i) =>
                   IF importer[i].pc \in {"reread", "reassign"} THEN file = Registry!Nothing
                   ELSE file = m
              /\ ~overlap => /\ file # Registry!Torn
                             /\ \A f \in Registry!File : files[f] # Registry!Torn
                             /\ ImportOrder(i)
  <2>1. importer[i].pc \in Registry!Steps
    BY <1>10 DEF Registry!Steps
  <2>. QED
    BY <1>2, <1>3, <1>4, <1>10, <2>1 DEF ImporterAt
<1>11. ASSUME UNCHANGED files PROVE Registry!OnDisk' = Registry!OnDisk
    BY <1>11 DEF Registry!OnDisk, Registry!File
<1>12. CASE Registry!Read(i)
  <2> DEFINE pc == IF Registry!Torn \in {files[f] : f \in Registry!File} THEN "delete" ELSE "assign"
  <2>1. importer[i].pc = "read" /\ UNCHANGED <<files, registry, overlap>>
        /\ importer' = [importer EXCEPT ![i].pc = pc, ![i].read = Registry!OnDisk]
    BY <1>12 DEF Registry!Read, Registry!At
  <2>2. pc \in RegistryPc \ {"idle"} /\ pc \in {"delete", "assign"}
    BY DEF RegistryPc, Registry!Steps
  <2> HIDE DEF pc
  <2>3. LeavesFile(i, pc, file)
    BY <1>10, <2>1, <2>2 DEF LeavesFile
  <2>4. KeepsOrder(pc, Registry!OnDisk, file)
    BY <1>10, <1>11, <2>1, <2>2 DEF KeepsOrder, Registry!Steps
  <2>. QED
    BY <1>2, <1>3, <1>6, <1>10, <2>1, <2>2, <2>3, <2>4
<1>13. CASE Registry!Assign(i)
  <2>1. importer[i].pc = "assign" /\ Registry!Go(i, "created") /\ UNCHANGED <<files, overlap>>
        /\ registry' = importer[i].read
    BY <1>13 DEF Registry!Assign, Registry!At
  <2>2. "created" \in RegistryPc \ {"idle"}
    BY DEF RegistryPc, Registry!Steps
  <2>3. LeavesFile(i, "created", file)
    BY <1>10, <2>1 DEF LeavesFile
  <2>4. KeepsOrder("created", importer[i].read, file)
    BY <1>10, <1>11, <2>1 DEF KeepsOrder, ImportOrder, Registry!Steps
  <2>. QED
    BY <1>2, <1>3, <1>6, <1>7, <1>10, <2>1, <2>2, <2>3, <2>4
<1>14. CASE Registry!Created(i)
  <2> DEFINE pc == IF m \in registry THEN "done" ELSE "delete"
  <2>1. importer[i].pc = "created" /\ Registry!Go(i, pc) /\ UNCHANGED <<files, registry, overlap>>
    BY <1>14 DEF Registry!Created, Registry!At
  <2>2. pc \in RegistryPc \ {"idle"} /\ pc \in {"delete", "done"}
    BY DEF RegistryPc, Registry!Steps
  <2> HIDE DEF pc
  <2>3. LeavesFile(i, pc, file)
    BY <1>10, <2>1, <2>2 DEF LeavesFile
  <2>4. KeepsOrder(pc, importer[i].read, file)
    BY <1>10, <1>11, <2>1, <2>2 DEF KeepsOrder, ImportOrder, Registry!Steps
  <2>. QED
    BY <1>2, <1>3, <1>6, <1>7, <1>10, <2>1, <2>2, <2>3, <2>4
<1>15. CASE Registry!Delete(i)
  <2>1. importer[i].pc = "delete" /\ Registry!Go(i, "reread") /\ UNCHANGED <<registry, overlap>>
        /\ files' = [files EXCEPT ![ManifestFile(m)] = Registry!Nothing]
    BY <1>15 DEF Registry!Delete, Registry!At
  <2>2. importer[i].pc \in Registry!Steps /\ "reread" \in RegistryPc \ {"idle"}
    BY <2>1 DEF RegistryPc, Registry!Steps
  <2>3. LeavesFile(i, "reread", Registry!Nothing)
        /\ KeepsOrder("reread", importer[i].read, Registry!Nothing)
    BY DEF LeavesFile, KeepsOrder, Registry!Steps, Registry!Nothing, Registry!Torn
  <2>. QED
    BY <1>2, <1>6, <1>7, <2>1, <2>2, <2>3
<1>16. CASE Registry!Reread(i)
  <2> DEFINE torn == Registry!Torn \in {files[f] : f \in Registry!File}
             pc == IF torn THEN "broken" ELSE "reassign"
  <2>1. importer[i].pc = "reread" /\ UNCHANGED <<files, registry, overlap>>
        /\ importer' = [importer EXCEPT ![i].pc = pc, ![i].read = Registry!OnDisk]
    BY <1>16 DEF Registry!Reread, Registry!At
  <2>2. pc \in RegistryPc \ {"idle"} /\ pc \in {"broken", "reassign"} /\ (pc = "broken" => torn)
    BY DEF RegistryPc, Registry!Steps
  <2> HIDE DEF pc
  <2>3. LeavesFile(i, pc, file)
    BY <1>10, <2>1, <2>2 DEF LeavesFile
  <2>4. KeepsOrder(pc, Registry!OnDisk, file)
    BY <1>10, <1>11, <2>1, <2>2 DEF KeepsOrder, Registry!Steps
  <2>. QED
    BY <1>2, <1>3, <1>6, <1>10, <2>1, <2>2, <2>3, <2>4
<1>17. CASE Registry!Reassign(i)
  <2>1. importer[i].pc = "reassign" /\ Registry!Go(i, "failed") /\ UNCHANGED <<files, overlap>>
        /\ registry' = importer[i].read
    BY <1>17 DEF Registry!Reassign, Registry!At
  <2>2. "failed" \in RegistryPc \ {"idle"}
    BY DEF RegistryPc, Registry!Steps
  <2>3. LeavesFile(i, "failed", file)
    BY <1>10, <2>1 DEF LeavesFile
  <2>4. KeepsOrder("failed", importer[i].read, file)
    BY <1>10, <1>11, <2>1 DEF KeepsOrder, ImportOrder, Registry!Steps
  <2>. QED
    BY <1>2, <1>3, <1>6, <1>7, <1>10, <2>1, <2>2, <2>3, <2>4
<1>. QED
    BY <1>5, <1>8, <1>9, <1>12, <1>13, <1>14, <1>15, <1>16, <1>17
------------------------------------------------------------------------------
(* configuration.py and ConfigurationsPage.tsx *)

Masks(p) == IF page.form[p].has THEN "keep" ELSE Settings!None

PageState ==
    [in : BOOLEAN, form : [Settings!Provider -> [key : Settings!Value, has : BOOLEAN, dirty : BOOLEAN]],
     revision : Nat, saved : Nat, timer : BOOLEAN, saving : BOOLEAN,
     op : {"none", "save", "load", "saving", "loading"}]

SettingsTypes ==
    /\ page \in PageState /\ page.saved <= page.revision
    /\ DOMAIN request = Settings!Request
    /\ \A r \in Settings!Request : DOMAIN request[r] = DOMAIN Settings!NoRequest
    /\ want = [p \in Settings!Provider |-> want[p]]
    /\ profile = [p \in Settings!Provider |-> profile[p]]

\* A provider that was touched holds what the user wants, another what is stored.
FormAt(p) ==
    IF page.form[p].dirty THEN page.form[p].key = want[p]
    ELSE Settings!Stored[p] = want[p] /\ (page.form[p].has <=> Settings!Stored[p] # Settings!None)

PageAt ==
    /\ page.in => \A p \in Settings!Provider : FormAt(p)
    /\ page.in /\ page.saved = page.revision => Settings!Stored = want
    /\ page.in /\ page.saving =>
         \E r \in Settings!Active : request[r].kind = "save" /\ request[r].for = "page"
    /\ ~page.in /\ Settings!Active = {} => Settings!Stored = want

\* A request of the page that waits for its answer.
Awaited(q) ==
    /\ page.in /\ q.then = Settings!NoProfile /\ q.revision \in Nat
    /\ q.kind = "save" =>
         /\ page.saving /\ page.saved < q.revision /\ q.revision <= page.revision
         /\ q.revision = page.revision => q.payload = Settings!Payload(page.form)
    /\ q.kind # "save" =>
         /\ page.saved = page.revision /\ ~page.saving /\ page.op \in {"saving", "loading"}

\* What a save that nobody waits for stores in the end, by itself or by the one after it.
LastOf(q) == IF q.then = Settings!NoProfile THEN q.payload ELSE q.then

\* A request that nobody waits for: its page broke the connection or is gone.
Loose(q) ==
    /\ q.for = "nobody"
    /\ page.in => /\ q.kind # "activate" /\ q.then = Settings!NoProfile
                  /\ q.kind = "save" => page.saved < page.revision
    /\ ~page.in /\ q.kind = "profile" => Settings!Stored = want
    /\ q.kind # "save" => q.then = Settings!NoProfile
    /\ ~page.in /\ q.kind = "save" => \A p \in Settings!Provider :
         \/ LastOf(q)[p] # "keep" /\ LastOf(q)[p] = want[p]
         \/ LastOf(q)[p] = "keep" /\ q.payload[p] = "keep" /\ Settings!Stored[p] = want[p]

\* How far the server is with a save or an activation.
Served(q) ==
    /\ q.kind \in {"save", "profile", "activate"}
    /\ q.kind = "save" /\ page.in =>
         \A p \in Settings!Provider : ~page.form[p].dirty => q.payload[p] = Masks(p)
    /\ q.pc = "new" => q.resolved = Settings!NoProfile
    /\ q.pc # "new" =>
         IF q.kind = "save" THEN q.resolved = Settings!Resolved(q.payload, Settings!Stored)
         ELSE q.resolved = [p \in Settings!Provider |-> q.resolved[p]]
    /\ q.pc = "write" => q.ids = {x.id : x \in rows}

RequestAt(q) ==
    /\ q.for = "page" => Awaited(q)
    /\ q.for # "page" => Loose(q)
    /\ Served(q)

SettingsInv ==
    ~excused =>
      /\ SettingsTypes /\ PageAt
      /\ \A r, s \in Settings!Active : r = s
      /\ \A r \in Settings!Active : RequestAt(request[r])

\* The rows of a save are of the providers that have a key.
LEMMA SavedKeys ==
    ASSUME NEW keys, keys = [p \in Settings!Provider |-> keys[p]], NEW rs,
           \A x \in rs : x.provider \in Settings!Provider /\ x.key = keys[x.provider]
                         /\ x.key # Settings!None,
           \A p \in Settings!Provider : keys[p] # Settings!None => \E x \in rs : x.provider = p
    PROVE  Settings!KeysOf(rs) = keys
<1>1. ASSUME NEW p \in Settings!Provider PROVE Settings!KeysOf(rs)[p] = keys[p]
  <2> DEFINE s == {x \in rs : x.provider = p}
  <2>1. Settings!KeysOf(rs)[p] = IF s = {} THEN Settings!None ELSE (CHOOSE x \in s : TRUE).key
    BY DEF Settings!KeysOf
  <2>2. CASE s = {}
    BY <2>1, <2>2
  <2>3. CASE s # {}
    <3>1. (CHOOSE x \in s : TRUE) \in s
      BY <2>3
    <3>. QED
      BY <2>1, <2>3, <3>1
  <2>. QED
    BY <2>2, <2>3
<1>2. DOMAIN Settings!KeysOf(rs) = Settings!Provider
      /\ Settings!KeysOf(rs) = [p \in Settings!Provider |-> Settings!KeysOf(rs)[p]]
    BY DEF Settings!KeysOf
<1>. QED
    BY <1>1, <1>2

LEMMA StoredIsFunction ==
    Settings!Stored = [p \in Settings!Provider |-> Settings!Stored[p]]
  BY DEF Settings!Stored, Settings!KeysOf

LEMMA PageIsAway == Settings!Away \in PageState
<1>1. [p \in Settings!Provider |-> [key |-> Settings!None, has |-> FALSE, dirty |-> FALSE]]
          \in [Settings!Provider -> [key : Settings!Value, has : BOOLEAN, dirty : BOOLEAN]]
    BY DEF Settings!Value
<1>. QED
    BY <1>1 DEF PageState, Settings!Away

LEMMA SettingsStart == Settings!Init => SettingsInv
<1> SUFFICES ASSUME Settings!Init PROVE SettingsInv
    OBVIOUS
<1>1. PICK key \in Settings!Value :
         /\ rows = IF key = Settings!None THEN {} ELSE {[id |-> 1, provider |-> 1, key |-> key]}
         /\ want = [p \in Settings!Provider |-> IF p = 1 THEN key ELSE Settings!None]
    BY DEF Settings!Init
<1>2. /\ profile = Settings!NoProfile /\ page = Settings!Away
      /\ request = [r \in Settings!Request |-> Settings!NoRequest]
    BY DEF Settings!Init
<1>3. 1 \in Settings!Provider
    BY BoundsAssumption DEF Settings!Provider
<1>4. Settings!Stored = want
  <2>1. want = [p \in Settings!Provider |-> want[p]]
    BY <1>1
  <2>2. \A x \in rows : x.provider \in Settings!Provider /\ x.key = want[x.provider]
                        /\ x.key # Settings!None
    BY <1>1, <1>3
  <2>3. \A p \in Settings!Provider : want[p] # Settings!None => \E x \in rows : x.provider = p
    BY <1>1
  <2>. QED
    BY <2>1, <2>2, <2>3, SavedKeys DEF Settings!Stored
<1>5. Settings!Active = {}
    BY <1>2 DEF Settings!Active, Settings!NoRequest
<1>6. page \in PageState
    BY <1>2, PageIsAway
<1>7. SettingsTypes
  <2>1. page.saved = 0 /\ page.revision = 0
    BY <1>2 DEF Settings!Away
  <2>2. DOMAIN request = Settings!Request
        /\ \A r \in Settings!Request : DOMAIN request[r] = DOMAIN Settings!NoRequest
    BY <1>2
  <2>3. want = [p \in Settings!Provider |-> want[p]]
    BY <1>1
  <2>4. profile = [p \in Settings!Provider |-> profile[p]]
    BY <1>2 DEF Settings!NoProfile
  <2>. QED
    BY <1>6, <2>1, <2>2, <2>3, <2>4 DEF SettingsTypes
<1>8. PageAt
    BY <1>2, <1>4, <1>5 DEF PageAt, Settings!Away
<1>. QED
    BY <1>5, <1>7, <1>8 DEF SettingsInv

LEMMA SettingsAreServed == SettingsInv => Settings!SettledIsStored
  BY DEF SettingsInv, PageAt, Settings!SettledIsStored, Settings!Quiet

\* What is stored and under way stays while its variables do.
LEMMA StoredStays == UNCHANGED rows => Settings!Stored' = Settings!Stored
  BY DEF Settings!Stored, Settings!KeysOf

LEMMA ActiveStays == UNCHANGED request => Settings!Active' = Settings!Active
  BY DEF Settings!Active, Settings!Request

\* A step of a request, the only one there is.
LEMMA RequestMoves ==
    ASSUME SettingsTypes, NEW r \in Settings!Request, NEW q,
           Settings!Active \subseteq {r}, DOMAIN q = DOMAIN Settings!NoRequest,
           request' = [request EXCEPT ![r] = q]
    PROVE  /\ DOMAIN request' = Settings!Request
           /\ \A s \in Settings!Request : DOMAIN request'[s] = DOMAIN Settings!NoRequest
           /\ request'[r] = q
           /\ Settings!Active' = IF q.kind = "none" THEN {} ELSE {r}
<1>1. request'[r] = q /\ \A s \in Settings!Request \ {r} : request'[s] = request[s]
    BY DEF SettingsTypes
<1>2. DOMAIN request' = Settings!Request
      /\ \A s \in Settings!Request : DOMAIN request'[s] = DOMAIN Settings!NoRequest
    BY <1>1 DEF SettingsTypes
<1>3. Settings!Request' = Settings!Request
    BY DEF Settings!Request
<1>4. \A s \in Settings!Request \ {r} : request[s].kind = "none"
    BY DEF Settings!Active
<1>5. Settings!Active' = IF q.kind = "none" THEN {} ELSE {r}
    BY <1>1, <1>3, <1>4 DEF Settings!Active
<1>. QED
    BY <1>1, <1>2, <1>5

NewRequest(q, kind, for, revision, payload) ==
    /\ q.kind = kind /\ q.for = for /\ q.revision = revision /\ q.payload = payload
    /\ q.resolved = Settings!NoProfile /\ q.pc = "new" /\ q.then = Settings!NoProfile

\* A new request is sent when there is none, or else it overlaps.
LEMMA RequestSent ==
    ASSUME SettingsTypes, NEW kind \in {"save", "profile", "activate"}, NEW for, NEW revision,
           NEW payload, Settings!Send(kind, for, revision, payload), ~excused'
    PROVE  \E r \in Settings!Request :
             /\ DOMAIN request' = Settings!Request
             /\ \A s \in Settings!Request : DOMAIN request'[s] = DOMAIN Settings!NoRequest
             /\ Settings!Active = {} /\ Settings!Active' = {r}
             /\ NewRequest(request'[r], kind, for, revision, payload)
<1> DEFINE q == [Settings!NoRequest EXCEPT !.kind = kind, !.for = for, !.revision = revision,
                                           !.payload = payload]
<1>1. PICK r \in Settings!Free : request' = [request EXCEPT ![r] = q]
    BY DEF Settings!Send
<1>2. r \in Settings!Request /\ Settings!Active = {}
    BY DEF Settings!Send, Settings!Free
<1>3. DOMAIN q = DOMAIN Settings!NoRequest
    BY DEF Settings!NoRequest
<1>4. q.kind # "none" /\ NewRequest(q, kind, for, revision, payload)
    BY DEF Settings!NoRequest, NewRequest
<1> HIDE DEF q
<1>5. /\ DOMAIN request' = Settings!Request
      /\ \A s \in Settings!Request : DOMAIN request'[s] = DOMAIN Settings!NoRequest
      /\ request'[r] = q
      /\ Settings!Active' = IF q.kind = "none" THEN {} ELSE {r}
    BY <1>1, <1>2, <1>3, RequestMoves
<1>. QED
    BY <1>2, <1>4, <1>5 DEF NewRequest

\* All that is left to show of a step that excuses nothing.
LEMMA SettingsKept ==
    ASSUME NEW r, ~excused' => /\ SettingsTypes' /\ PageAt' /\ Settings!Active' \subseteq {r}
                               /\ r \in Settings!Active' => RequestAt(request[r])'
    PROVE  SettingsInv'
<1> SUFFICES ASSUME ~excused'
             PROVE  /\ SettingsTypes' /\ PageAt'
                    /\ \A t, s \in Settings!Active' : t = s
                    /\ \A t \in Settings!Active' : RequestAt(request[t])'
    BY DEF SettingsInv
<1>1. \A t \in Settings!Active' : t = r
    OBVIOUS
<1>. QED
    BY <1>1

\* The page changes neither its form nor what it has sent.
LEMMA PageRests ==
    ASSUME SettingsInv, NEW q \in PageState, page' = q, UNCHANGED <<rows, profile, request, want, excused>>,
           q.in = page.in, q.form = page.form, q.revision = page.revision, q.saved = page.saved,
           q.saving = page.saving,
           q.op = page.op \/ page.op \notin {"saving", "loading"}
    PROVE  SettingsInv'
<1> SUFFICES ASSUME ~excused PROVE SettingsInv'
    BY DEF SettingsInv
<1>1. Settings!Stored' = Settings!Stored /\ Settings!Active' = Settings!Active
    BY StoredStays, ActiveStays
<1>2. /\ page'.in = page.in /\ page'.form = page.form /\ page'.revision = page.revision
      /\ page'.saved = page.saved /\ page'.saving = page.saving
      /\ page.op \in {"saving", "loading"} => page'.op = page.op
    OBVIOUS
<1>3. SettingsTypes'
    BY <1>2 DEF SettingsInv, SettingsTypes, Settings!Request, Settings!NoRequest, Settings!NoProfile
<1>4. PageAt'
    BY <1>1, <1>2 DEF SettingsInv, PageAt, FormAt
<1>5. ASSUME NEW r \in Settings!Active PROVE RequestAt(request[r])'
  <2>1. RequestAt(request[r])
    BY DEF SettingsInv
  <2>. QED
    BY <1>1, <1>2, <2>1 DEF RequestAt, Awaited, Loose, Served, Masks, Settings!Payload,
                            Settings!Resolved
<1>. QED
    BY <1>1, <1>3, <1>4, <1>5 DEF SettingsInv

LEMMA PageLoads == SettingsInv /\ Settings!LoadPage => SettingsInv'
<1> SUFFICES ASSUME SettingsInv, Settings!LoadPage, ~excused' PROVE SettingsInv'
    BY DEF SettingsInv
<1>1. /\ ~excused /\ Settings!Active = {} /\ ~page.in
      /\ UNCHANGED <<rows, profile, request, want>>
      /\ page' = [Settings!Away EXCEPT !.in = TRUE, !.form = Settings!FormOf(Settings!Stored)]
    BY DEF Settings!LoadPage
<1>2. Settings!Stored' = Settings!Stored /\ Settings!Active' = {} /\ Settings!Stored = want
    BY <1>1, StoredStays, ActiveStays DEF SettingsInv, PageAt
<1>3. Settings!FormOf(Settings!Stored) \in
         [Settings!Provider -> [key : Settings!Value, has : BOOLEAN, dirty : BOOLEAN]]
    BY DEF Settings!FormOf, Settings!Value
<1>4. page' \in PageState
  <2>1. Settings!Away \in PageState
    BY PageIsAway
  <2>. QED
    BY <1>1, <1>3, <2>1, Zenon DEF PageState
<1>5. /\ page'.form = Settings!FormOf(Settings!Stored) /\ page'.revision = 0 /\ page'.saved = 0
      /\ ~page'.saving
    BY <1>1 DEF Settings!Away
<1>6. SettingsTypes'
    BY <1>1, <1>4, <1>5 DEF SettingsInv, SettingsTypes, Settings!Request, Settings!NoRequest,
                            Settings!NoProfile
<1>7. ASSUME NEW p \in Settings!Provider PROVE FormAt(p)'
  <2>1. /\ page'.form[p].dirty = FALSE
        /\ page'.form[p].has = (Settings!Stored[p] # Settings!None)
    BY <1>5 DEF Settings!FormOf
  <2>2. Settings!Stored'[p] = want'[p]
    BY <1>1, <1>2
  <2>. QED
    BY <1>2, <2>1, <2>2, Zenon DEF FormAt, Settings!None
<1>8. PageAt'
    BY <1>1, <1>2, <1>5, <1>7 DEF PageAt
<1>. QED
    BY <1>2, <1>6, <1>8 DEF SettingsInv

LEMMA PageEdits ==
    ASSUME SettingsInv, NEW p \in Settings!Provider, NEW key \in Settings!Value,
           Settings!Edit(p, key)
    PROVE  SettingsInv'
<1> SUFFICES ASSUME ~excused PROVE SettingsInv'
    BY DEF SettingsInv, Settings!Edit
<1> DEFINE entry == [key |-> key, has |-> page.form[p].has, dirty |-> TRUE]
<1>1. /\ page.in /\ page.op = "none" /\ UNCHANGED <<rows, profile, request, excused>>
      /\ want' = [want EXCEPT ![p] = key]
      /\ page' = [page EXCEPT !.form[p] = entry, !.revision = @ + 1, !.timer = TRUE]
    BY DEF Settings!Edit
<1>2. page \in PageState /\ page.saved \in Nat /\ page.revision \in Nat /\ page.saved <= page.revision
    BY DEF SettingsInv, SettingsTypes, PageState
<1>3. page' \in PageState
  <2>1. page.form \in [Settings!Provider -> [key : Settings!Value, has : BOOLEAN, dirty : BOOLEAN]]
    BY <1>2 DEF PageState
  <2>2. entry \in [key : Settings!Value, has : BOOLEAN, dirty : BOOLEAN]
    BY <2>1
  <2> HIDE DEF entry
  <2>3. [page.form EXCEPT ![p] = entry]
          \in [Settings!Provider -> [key : Settings!Value, has : BOOLEAN, dirty : BOOLEAN]]
    BY <2>1, <2>2
  <2>4. page.revision + 1 \in Nat
    BY <1>2
  <2>. QED
    BY <1>1, <1>2, <2>3, <2>4, Zenon DEF PageState
<1>4. /\ page'.in = page.in /\ page'.revision = page.revision + 1 /\ page'.saved = page.saved
      /\ page'.saving = page.saving /\ page'.op = page.op
      /\ page'.form = [page.form EXCEPT ![p] = entry]
    BY <1>1, <1>2 DEF PageState
<1>5. page'.form[p] = entry /\ \A o \in Settings!Provider \ {p} : page'.form[o] = page.form[o]
    BY <1>2, <1>4 DEF PageState
<1>6. want'[p] = key /\ \A o \in Settings!Provider \ {p} : want'[o] = want[o]
    BY <1>1 DEF SettingsInv, SettingsTypes
<1>7. Settings!Stored' = Settings!Stored /\ Settings!Active' = Settings!Active
    BY <1>1, StoredStays, ActiveStays
<1>8. SettingsTypes'
  <2>1. want' = [o \in Settings!Provider |-> want'[o]]
    BY <1>1 DEF SettingsInv, SettingsTypes
  <2>. QED
    BY <1>1, <1>2, <1>3, <1>4, <2>1 DEF SettingsInv, SettingsTypes, Settings!Request,
          Settings!NoRequest, Settings!NoProfile, Settings!Provider
<1>9. PageAt'
  <2>1. ASSUME NEW o \in Settings!Provider PROVE FormAt(o)'
    BY <1>1, <1>5, <1>6, <1>7 DEF SettingsInv, PageAt, FormAt
  <2>2. page'.saved # page'.revision
    BY <1>2, <1>4
  <2>. QED
    BY <1>1, <1>4, <1>7, <2>1, <2>2 DEF SettingsInv, PageAt, Settings!Provider
<1>10. ASSUME NEW r \in Settings!Active PROVE RequestAt(request[r])'
  <2>1. RequestAt(request[r])
    BY DEF SettingsInv
  <2>2. ASSUME request[r].for = "page" PROVE Awaited(request[r])'
    <3>1. /\ request[r].kind = "save" /\ page.saving /\ request[r].revision \in Nat
          /\ page.saved < request[r].revision /\ request[r].revision <= page.revision
          /\ request[r].then = Settings!NoProfile
      BY <1>1, <2>1, <2>2 DEF RequestAt, Awaited
    <3>2. request[r].revision < page'.revision /\ page'.saved < request[r].revision
      BY <1>2, <1>4, <3>1
    <3>3. request'[r] = request[r] /\ page'.in /\ page'.saving
          /\ request[r].revision # page'.revision /\ request[r].revision <= page'.revision
      BY <1>1, <1>2, <1>4, <3>1, <3>2
    <3>. QED
      BY <3>1, <3>2, <3>3, Zenon DEF Awaited, Settings!NoProfile, Settings!Provider
  <2>3. ASSUME request[r].for # "page" PROVE Loose(request[r])'
    <3>1. request[r].for = "nobody" /\ request[r].then = Settings!NoProfile
          /\ request[r].kind # "activate"
      BY <1>1, <2>1, <2>3 DEF RequestAt, Loose
    <3>2. request'[r] = request[r] /\ page'.in /\ page'.saved < page'.revision
      BY <1>1, <1>2, <1>4
    <3>. QED
      BY <3>1, <3>2, Zenon DEF Loose, Settings!NoProfile, Settings!Provider
  <2>4. Served(request[r])'
    <3>1. Served(request[r]) /\ request'[r] = request[r] /\ page'.in = page.in /\ UNCHANGED rows
      BY <1>1, <1>4, <2>1 DEF RequestAt
    <3>2. ASSUME NEW o \in Settings!Provider, ~page'.form[o].dirty
          PROVE  ~page.form[o].dirty /\ page'.form[o] = page.form[o]
      BY <1>5, <3>2
    <3>3. request[r].kind = "save" => \A o \in Settings!Provider :
             ~page'.form[o].dirty => request[r].payload[o] = Masks(o)'
      BY <1>1, <3>1, <3>2 DEF Served, Masks
    <3>4. Settings!Resolved(request[r].payload, Settings!Stored)'
             = Settings!Resolved(request[r].payload, Settings!Stored)
      BY <1>7, <3>1 DEF Settings!Resolved, Settings!Provider
    <3>. QED
      BY <1>7, <3>1, <3>3, <3>4 DEF Served, Settings!NoProfile, Settings!Provider
  <2>. QED
    BY <1>1, <2>2, <2>3, <2>4 DEF RequestAt
<1>. QED
    BY <1>1, <1>7, <1>8, <1>9, <1>10 DEF SettingsInv

\* A provider that was not touched is sent masked.
LEMMA PayloadMasks ==
    ASSUME NEW p \in Settings!Provider
    PROVE  Settings!Payload(page.form)[p] = IF page.form[p].dirty THEN page.form[p].key ELSE Masks(p)
  BY DEF Settings!Payload, Masks

LEMMA PageSends ==
    ASSUME SettingsInv, ~excused', page.in, NEW q \in PageState, page' = q,
           UNCHANGED <<rows, profile, want>>,
           q.in = page.in, q.form = page.form, q.revision = page.revision, q.saved = page.saved,
           NEW kind \in {"save", "profile", "activate"}, NEW revision \in Nat,
           Settings!Send(kind, "page", revision, Settings!Payload(page.form)),
           kind = "save" => q.saving /\ revision = page.revision /\ page.saved < page.revision,
           kind # "save" => ~q.saving /\ page.saved = page.revision /\ q.op \in {"saving", "loading"}
    PROVE  SettingsInv'
<1>1. ~excused
    BY DEF Settings!Send, SettingsInv, SettingsTypes
<1>2. SettingsTypes /\ PageAt
    BY <1>1 DEF SettingsInv
<1>3. PICK r \in Settings!Request :
             /\ DOMAIN request' = Settings!Request
             /\ \A s \in Settings!Request : DOMAIN request'[s] = DOMAIN Settings!NoRequest
             /\ Settings!Active = {} /\ Settings!Active' = {r}
             /\ NewRequest(request'[r], kind, "page", revision, Settings!Payload(page.form))
    BY <1>2, RequestSent
<1>4. /\ page'.in = page.in /\ page'.form = page.form /\ page'.revision = page.revision
      /\ page'.saved = page.saved /\ page'.saving = q.saving /\ page'.op = q.op
    OBVIOUS
<1>5. Settings!Stored' = Settings!Stored
    BY StoredStays
<1>6. SettingsTypes'
    BY <1>2, <1>3, <1>4 DEF SettingsTypes, Settings!Request, Settings!NoRequest,
          Settings!NoProfile, Settings!Provider
<1>7. PageAt'
  <2>1. \A p \in Settings!Provider : FormAt(p)'
    BY <1>2, <1>4, <1>5 DEF PageAt, FormAt
  <2>2. page'.saving => request'[r].kind = "save" /\ request'[r].for = "page"
    BY <1>3, <1>4 DEF NewRequest
  <2>. QED
    BY <1>2, <1>3, <1>4, <1>5, <2>1, <2>2 DEF PageAt, Settings!Provider
<1>8. RequestAt(request[r])'
  <2>1. Awaited(request[r])'
    <3>1. Settings!Payload(page.form)' = Settings!Payload(page.form)
      BY <1>4 DEF Settings!Payload, Settings!Provider
    <3>2. page.revision \in Nat /\ page.revision <= page.revision
      BY <1>2 DEF SettingsTypes, PageState
    <3>. QED
      BY <1>3, <1>4, <3>1, <3>2 DEF Awaited, NewRequest, Settings!NoProfile, Settings!Provider
  <2>2. Served(request[r])'
    <3>1. \A p \in Settings!Provider : ~page'.form[p].dirty =>
            request'[r].payload[p] = Masks(p)'
      BY <1>3, <1>4, PayloadMasks DEF NewRequest, Masks
    <3>. QED
      BY <1>3, <3>1 DEF Served, NewRequest, Settings!NoProfile, Settings!Provider
  <2>. QED
    BY <1>3, <2>1, <2>2 DEF RequestAt, NewRequest
<1>. QED
    BY <1>3, <1>6, <1>7, <1>8, SettingsKept

LEMMA PageFlushes ==
    SettingsInv /\ (Settings!Flush \/ Settings!Timer \/ Settings!Proceed) => SettingsInv'
<1> SUFFICES ASSUME SettingsInv, Settings!Flush \/ Settings!Timer \/ Settings!Proceed, ~excused'
             PROVE  SettingsInv'
    BY DEF SettingsInv
<1>1. ~excused
    BY DEF Settings!Flush, Settings!Timer, Settings!Proceed, Settings!Send, SettingsInv
<1>2. page \in PageState
    BY <1>1 DEF SettingsInv, SettingsTypes
<1>3. ASSUME page' = [page EXCEPT !.timer = FALSE], UNCHANGED <<rows, profile, request, want, excused>>
      PROVE  SettingsInv'
  <2> DEFINE q == [page EXCEPT !.timer = FALSE]
  <2>1. q \in PageState
    BY <1>2, Zenon DEF PageState
  <2>2. q.in = page.in /\ q.form = page.form /\ q.revision = page.revision
        /\ q.saved = page.saved /\ q.saving = page.saving /\ q.op = page.op
    BY <1>2 DEF PageState
  <2>3. page' = q
    BY <1>3
  <2> HIDE DEF q
  <2>. QED
    BY <1>3, <2>1, <2>2, <2>3, PageRests
<1>4. CASE Settings!Timer
    BY <1>3, <1>4 DEF Settings!Timer
<1>5. CASE Settings!Flush
  <2>1. CASE page.saving
    BY <1>3, <1>5, <2>1 DEF Settings!Flush
  <2>2. CASE ~page.saving
    <3> DEFINE q == [page EXCEPT !.timer = FALSE, !.saving = TRUE]
    <3>1. q \in PageState
      BY <1>2, Zenon DEF PageState
    <3>2. q.in = page.in /\ q.form = page.form /\ q.revision = page.revision
          /\ q.saved = page.saved /\ q.saving
      BY <1>2 DEF PageState
    <3>3. /\ page' = q /\ page.in /\ page.saved < page.revision
          /\ Settings!Send("save", "page", page.revision, Settings!Payload(page.form))
          /\ UNCHANGED <<rows, profile, want>>
      BY <1>5, <2>2 DEF Settings!Flush
    <3>4. page.revision \in Nat
      BY <1>2 DEF PageState
    <3> HIDE DEF q
    <3>. QED
      BY <3>1, <3>2, <3>3, <3>4, PageSends
  <2>. QED
    BY <2>1, <2>2
<1>6. CASE Settings!Proceed
  <2> DEFINE op == IF page.op = "save" THEN "saving" ELSE "loading"
             kind == IF page.op = "save" THEN "profile" ELSE "activate"
             q == [page EXCEPT !.op = op]
  <2>1. q \in PageState
    <3>1. op \in {"none", "save", "load", "saving", "loading"}
      OBVIOUS
    <3>. QED
      BY <1>2, <3>1, Zenon DEF PageState
  <2>2. q.in = page.in /\ q.form = page.form /\ q.revision = page.revision
        /\ q.saved = page.saved /\ q.saving = page.saving /\ q.op \in {"saving", "loading"}
    BY <1>2 DEF PageState
  <2>3. /\ page' = q /\ page.in /\ page.saved = page.revision /\ ~page.saving
        /\ Settings!Send(kind, "page", 0, Settings!Payload(page.form))
        /\ UNCHANGED <<rows, profile, want>>
    BY <1>6 DEF Settings!Proceed
  <2>4. kind \in {"profile", "activate"} /\ 0 \in Nat
    OBVIOUS
  <2> HIDE DEF q, op, kind
  <2>. QED
    BY <2>1, <2>2, <2>3, <2>4, PageSends
<1>. QED
    BY <1>4, <1>5, <1>6

LEMMA PageOpensProfile ==
    ASSUME SettingsInv, NEW op, Settings!OpenProfile(op) PROVE SettingsInv'
<1> SUFFICES ASSUME ~excused PROVE SettingsInv'
    BY DEF SettingsInv, Settings!OpenProfile
<1> DEFINE q == [page EXCEPT !.op = op]
<1>1. page \in PageState /\ op \in {"save", "load"}
    BY DEF SettingsInv, SettingsTypes, Settings!OpenProfile
<1>2. q \in PageState
  <2>1. op \in {"none", "save", "load", "saving", "loading"}
    BY <1>1
  <2>. QED
    BY <1>1, <2>1, Zenon DEF PageState
<1>3. q.in = page.in /\ q.form = page.form /\ q.revision = page.revision
      /\ q.saved = page.saved /\ q.saving = page.saving
    BY <1>1 DEF PageState
<1>4. page' = q /\ page.op = "none" /\ UNCHANGED <<rows, profile, request, want, excused>>
    BY DEF Settings!OpenProfile
<1> HIDE DEF q
<1>. QED
    BY <1>2, <1>3, <1>4, PageRests

\* The page goes: its request is loose, and what was not sent is in it or follows it.
LEMMA PageLeaves ==
    ASSUME SettingsInv, NEW unload \in BOOLEAN, Settings!Leave(unload) PROVE SettingsInv'
<1> SUFFICES ASSUME ~excused' PROVE SettingsInv'
    BY DEF SettingsInv
<1> DEFINE mine  == {r \in Settings!Active : request[r].for = "page"}
           dirty == page.saved < page.revision
           last  == Settings!Payload(page.form)
           then(r) == IF dirty /\ page.saving /\ ~unload /\ request[r].revision < page.revision
                      THEN last ELSE Settings!NoProfile
           loose == [r \in Settings!Request |-> IF r \notin mine THEN request[r]
                       ELSE [request[r] EXCEPT !.for = "nobody", !.then = then(r)]]
<1>1. /\ page.in /\ page' = Settings!Away /\ UNCHANGED <<rows, profile, want>>
      /\ IF dirty /\ ~page.saving
         THEN /\ \E r \in Settings!Free : request' = [loose EXCEPT ![r] =
                     [Settings!NoRequest EXCEPT !.kind = "save", !.payload = last]]
              /\ excused' = (excused \/ Settings!Active # {})
         ELSE /\ request' = loose
              /\ excused' = (excused \/ (unload /\ \E r \in mine : request[r].kind = "save"
                                                   /\ request[r].revision < page.revision))
    BY DEF Settings!Leave
<1>2. ~excused
    BY <1>1
<1>3. SettingsTypes /\ PageAt /\ (\A r, s \in Settings!Active : r = s)
      /\ \A r \in Settings!Active : RequestAt(request[r])
    BY <1>2 DEF SettingsInv
<1>4. Settings!Stored' = Settings!Stored /\ ~page'.in /\ page' \in PageState
      /\ page'.saved <= page'.revision
  <2>1. page' \in PageState
    BY <1>1, PageIsAway DEF PageState, Settings!Provider, Settings!Value, Settings!None
  <2>2. ~page'.in /\ page'.saved = 0 /\ page'.revision = 0
    BY <1>1 DEF Settings!Away
  <2>3. page'.saved <= page'.revision
    BY <2>2
  <2>4. Settings!Stored' = Settings!Stored
    BY <1>1, StoredStays
  <2>. QED
    BY <2>1, <2>2, <2>3, <2>4
<1>5. \A p \in Settings!Provider :
         \/ last[p] # "keep" /\ last[p] = want[p]
         \/ last[p] = "keep" /\ ~page.form[p].dirty /\ Settings!Stored[p] = want[p]
  <2> SUFFICES ASSUME NEW p \in Settings!Provider
               PROVE \/ last[p] # "keep" /\ last[p] = want[p]
                     \/ last[p] = "keep" /\ ~page.form[p].dirty /\ Settings!Stored[p] = want[p]
    OBVIOUS
  <2>1. last[p] = IF page.form[p].dirty THEN page.form[p].key ELSE Masks(p)
    BY PayloadMasks
  <2>2. FormAt(p) /\ page.form[p].key \in Settings!Value
    BY <1>1, <1>3 DEF PageAt, SettingsTypes, PageState
  <2> HIDE DEF last
  <2>3. page.form[p].key # "keep"
    BY <2>2, NamesAssumption DEF Settings!Value, Settings!None
  <2>. QED
    BY <2>1, <2>2, <2>3 DEF FormAt, Masks, Settings!None
<1>6. last # Settings!NoProfile
  <2>1. 1 \in Settings!Provider
    BY BoundsAssumption DEF Settings!Provider
  <2>2. page.form[1].key \in Settings!Value
    BY <1>3, <2>1 DEF SettingsTypes, PageState
  <2>3. last[1] # "no profile"
    BY <2>1, <2>2, PayloadMasks, NamesAssumption DEF Masks, Settings!Value, Settings!None
  <2>. QED
    BY <2>1, <2>3 DEF Settings!NoProfile
<1>7. page.saved \in Nat /\ page.revision \in Nat /\ page.saved <= page.revision
    BY <1>3 DEF SettingsTypes, PageState
<1>8. /\ DOMAIN loose = Settings!Request
      /\ \A r \in Settings!Request \ mine : loose[r] = request[r]
      /\ \A r \in mine : loose[r] = [request[r] EXCEPT !.for = "nobody", !.then = then(r)]
      /\ \A r \in Settings!Request : DOMAIN loose[r] = DOMAIN Settings!NoRequest
      /\ \A r \in Settings!Request : loose[r].kind = request[r].kind
  <2>1. mine \subseteq Settings!Request
    BY DEF Settings!Active
  <2>2. /\ DOMAIN loose = Settings!Request
        /\ \A r \in Settings!Request \ mine : loose[r] = request[r]
        /\ \A r \in mine : loose[r] = [request[r] EXCEPT !.for = "nobody", !.then = then(r)]
    BY <2>1
  <2> HIDE DEF loose, then, last
  <2>3. \A r \in Settings!Request : DOMAIN loose[r] = DOMAIN Settings!NoRequest
    BY <1>3, <2>1, <2>2 DEF SettingsTypes
  <2>4. \A r \in mine : DOMAIN request[r] = DOMAIN Settings!NoRequest
    BY <1>3, <2>1 DEF SettingsTypes
  <2>5. ASSUME NEW r \in Settings!Request PROVE loose[r].kind = request[r].kind
    <3>1. CASE r \in mine
      <4>1. /\ loose[r] = [request[r] EXCEPT !.for = "nobody", !.then = then(r)]
            /\ DOMAIN request[r] = DOMAIN Settings!NoRequest
        BY <2>2, <2>4, <3>1
      <4>. QED
        BY <4>1 DEF Settings!NoRequest
    <3>2. CASE r \notin mine
      BY <2>2, <3>2
    <3>. QED
      BY <3>1, <3>2
  <2>. QED
    BY <2>2, <2>3, <2>5
<1> HIDE DEF last, then, loose
<1>9. \A r \in mine : /\ loose[r].kind = request[r].kind /\ loose[r].payload = request[r].payload
                      /\ loose[r].resolved = request[r].resolved /\ loose[r].pc = request[r].pc
                      /\ loose[r].ids = request[r].ids
                      /\ loose[r].for = "nobody" /\ loose[r].then = then(r)
  <2>1. \A r \in mine : DOMAIN request[r] = DOMAIN Settings!NoRequest
    BY <1>3 DEF SettingsTypes, Settings!Active
  <2>. QED
    BY <1>8, <2>1, ZenonT(60) DEF Settings!NoRequest
<1>10. CASE dirty /\ ~page.saving
  <2> DEFINE q == [Settings!NoRequest EXCEPT !.kind = "save", !.payload = last]
  <2>1. PICK r \in Settings!Free : request' = [loose EXCEPT ![r] = q]
    BY <1>1, <1>10
  <2>2. Settings!Active = {} /\ r \in Settings!Request
    BY <1>1, <1>2, <1>10 DEF Settings!Free
  <2>3. /\ q.kind = "save" /\ q.for = "nobody" /\ q.payload = last /\ q.then = Settings!NoProfile
        /\ q.pc = "new" /\ q.resolved = Settings!NoProfile /\ DOMAIN q = DOMAIN Settings!NoRequest
    BY DEF Settings!NoRequest
  <2> HIDE DEF q
  <2>4. /\ DOMAIN request' = Settings!Request /\ request'[r] = q
        /\ \A s \in Settings!Request \ {r} : request'[s] = loose[s]
    BY <1>8, <2>1, <2>2
  <2>5. \A s \in Settings!Request : DOMAIN request'[s] = DOMAIN Settings!NoRequest
    BY <1>8, <2>3, <2>4
  <2>6. Settings!Active' \subseteq {r} /\ r \in Settings!Active'
    BY <1>8, <2>2, <2>3, <2>4, ZenonT(60) DEF Settings!Active, Settings!Request
  <2>7. SettingsTypes'
    BY <1>1, <1>3, <1>4, <2>4, <2>5 DEF SettingsTypes, Settings!Request, Settings!NoRequest,
          Settings!NoProfile, Settings!Provider
  <2>8. PageAt'
    BY <1>4, <2>6 DEF PageAt
  <2>9. RequestAt(request[r])'
    <3>1. Loose(request[r])'
      <4>1. LastOf(request[r])' = last
        BY <2>3, <2>4 DEF LastOf, Settings!NoProfile, Settings!Provider
      <4>2. ASSUME NEW p \in Settings!Provider
            PROVE  \/ LastOf(request[r])'[p] # "keep" /\ LastOf(request[r])'[p] = want'[p]
                   \/ LastOf(request[r])'[p] = "keep" /\ request'[r].payload[p] = "keep"
                      /\ Settings!Stored'[p] = want'[p]
        BY <1>1, <1>4, <1>5, <2>3, <2>4, <4>1
      <4>3. /\ request'[r].for = "nobody" /\ request'[r].then = Settings!NoProfile
            /\ request'[r].kind = "save" /\ ~page'.in
        BY <1>4, <2>3, <2>4
      <4>. QED
        BY <4>2, <4>3 DEF Loose, Settings!NoProfile, Settings!Provider
    <3>2. Served(request[r])'
      BY <1>4, <2>3, <2>4 DEF Served, Settings!NoProfile, Settings!Provider
    <3>. QED
      BY <2>3, <2>4, <3>1, <3>2 DEF RequestAt
  <2>. QED
    BY <2>6, <2>7, <2>8, <2>9, SettingsKept
<1>11. CASE ~(dirty /\ ~page.saving)
  <2>1. request' = loose /\ \A r \in mine : request[r].kind = "save" =>
                              ~unload \/ ~(request[r].revision < page.revision)
    BY <1>1, <1>11, <1>2
  <2>2. Settings!Active' = Settings!Active
    BY <1>8, <2>1 DEF Settings!Active, Settings!Request
  <2>3. SettingsTypes'
    BY <1>1, <1>3, <1>4, <1>8, <2>1 DEF SettingsTypes, Settings!Request, Settings!NoRequest,
          Settings!NoProfile, Settings!Provider
  <2>4. ~page.saving => page.saved = page.revision /\ Settings!Stored = want
    BY <1>1, <1>3, <1>7, <1>11 DEF PageAt
  <2>5. PageAt'
    BY <1>1, <1>3, <1>4, <2>2, <2>4 DEF PageAt
  <2>6. ASSUME NEW r \in Settings!Active PROVE RequestAt(request[r])'
    <3>1. RequestAt(request[r]) /\ r \in Settings!Request
      BY <1>3 DEF Settings!Active
    <3>2. CASE r \notin mine
      <4>1. request[r].for # "page" /\ request'[r] = request[r] /\ ~page.saving
        BY <1>1, <1>3, <1>8, <2>1, <3>1, <3>2 DEF PageAt
      <4>2. request[r].kind = "profile" /\ request[r].for = "nobody"
            /\ request[r].then = Settings!NoProfile
        BY <1>1, <1>7, <2>4, <3>1, <4>1 DEF RequestAt, Loose, Served
      <4>3. Loose(request[r])'
        BY <1>1, <1>4, <2>4, <4>1, <4>2 DEF Loose, Settings!NoProfile, Settings!Provider
      <4>4. Served(request[r])'
        BY <1>1, <1>4, <3>1, <4>1, <4>2 DEF RequestAt, Served, Settings!NoProfile,
              Settings!Provider
      <4>. QED
        BY <4>1, <4>3, <4>4 DEF RequestAt
    <3>3. CASE r \in mine
      <4>1. /\ request'[r] = loose[r] /\ Awaited(request[r])
            /\ Served(request[r])
        BY <2>1, <3>1, <3>3 DEF RequestAt
      <4>2. Served(request[r])'
        <5>1. /\ request'[r].kind = request[r].kind /\ request'[r].payload = request[r].payload
              /\ request'[r].resolved = request[r].resolved /\ request'[r].pc = request[r].pc
              /\ request'[r].ids = request[r].ids
          BY <1>9, <3>3, <4>1
        <5>2. Settings!Resolved(request[r].payload, Settings!Stored)'
                 = Settings!Resolved(request[r].payload, Settings!Stored)
          BY <1>4, <5>1 DEF Settings!Resolved, Settings!Provider
        <5>. QED
          BY <1>1, <1>4, <4>1, <5>1, <5>2 DEF Served, Settings!NoProfile, Settings!Provider
      <4>3. Loose(request[r])'
        <5>1. CASE request[r].kind # "save"
          <6>1. Settings!Stored = want /\ then(r) = Settings!NoProfile
            BY <2>4, <4>1, <5>1 DEF Awaited, then
          <6>. QED
            BY <1>1, <1>4, <1>9, <3>3, <4>1, <5>1, <6>1 DEF Loose, Settings!NoProfile,
                  Settings!Provider
        <5>2. CASE request[r].kind = "save"
          <6>1. /\ page.saving /\ page.saved < request[r].revision /\ request[r].revision \in Nat
                /\ request[r].revision <= page.revision
                /\ request[r].revision = page.revision => request[r].payload = last
            BY <4>1, <5>2 DEF Awaited, last
          <6>2. dirty
            BY <1>7, <6>1
          <6>3. then(r) = IF request[r].revision < page.revision THEN last ELSE Settings!NoProfile
            BY <2>1, <3>3, <5>2, <6>1, <6>2 DEF then
          <6>4. (IF then(r) = Settings!NoProfile THEN request[r].payload ELSE then(r)) = last
            BY <1>6, <1>7, <6>1, <6>3
          <6>5. \A p \in Settings!Provider : last[p] = "keep" /\ ~page.form[p].dirty
                   => request[r].payload[p] = "keep"
            BY <1>1, <4>1, <5>2, PayloadMasks DEF Served, last
          <6>6. \A p \in Settings!Provider :
                   \/ last[p] # "keep" /\ last[p] = want[p]
                   \/ last[p] = "keep" /\ request[r].payload[p] = "keep" /\ Settings!Stored[p] = want[p]
            BY <1>5, <6>5
          <6>7. /\ request'[r].kind = "save" /\ request'[r].for = "nobody"
                /\ request'[r].then = then(r) /\ request'[r].payload = request[r].payload
            BY <1>9, <3>3, <4>1, <5>2
          <6>8. LastOf(request[r])' = last
            BY <6>4, <6>7 DEF LastOf, Settings!NoProfile, Settings!Provider
          <6>. QED
            BY <1>1, <1>4, <6>6, <6>7, <6>8 DEF Loose, Settings!NoProfile, Settings!Provider
        <5>. QED
          BY <5>1, <5>2
      <4>. QED
        BY <1>9, <3>3, <4>1, <4>2, <4>3 DEF RequestAt
    <3>. QED
      BY <3>2, <3>3
  <2>. QED
    BY <1>3, <2>2, <2>3, <2>5, <2>6 DEF SettingsInv
<1>. QED
    BY <1>10, <1>11

\* The server goes on with a request; what it is about stays.
LEMMA ServerWorks ==
    ASSUME SettingsInv, ~excused, NEW r \in Settings!Active, NEW q,
           DOMAIN q = DOMAIN Settings!NoRequest, request' = [request EXCEPT ![r] = q],
           UNCHANGED <<rows, profile, page, want, excused>>,
           q.kind = request[r].kind, q.for = request[r].for, q.revision = request[r].revision,
           q.payload = request[r].payload, q.then = request[r].then,
           q.pc = "new" => q.resolved = Settings!NoProfile,
           q.pc # "new" =>
             IF q.kind = "save" THEN q.resolved = Settings!Resolved(q.payload, Settings!Stored)
             ELSE q.resolved = [p \in Settings!Provider |-> q.resolved[p]],
           q.pc = "write" => q.ids = {x.id : x \in rows}
    PROVE  SettingsInv'
<1>1. /\ SettingsTypes /\ PageAt /\ r \in Settings!Request /\ Settings!Active \subseteq {r}
      /\ RequestAt(request[r]) /\ Settings!Active = {r}
    BY DEF SettingsInv, Settings!Active
<1>2. /\ DOMAIN request' = Settings!Request
      /\ \A s \in Settings!Request : DOMAIN request'[s] = DOMAIN Settings!NoRequest
      /\ request'[r] = q
      /\ Settings!Active' = IF q.kind = "none" THEN {} ELSE {r}
    BY <1>1, RequestMoves
<1>3. Settings!Active' = {r} /\ Settings!Stored' = Settings!Stored
    BY <1>1, <1>2, StoredStays DEF Settings!Active
<1>4. SettingsTypes'
    BY <1>1, <1>2 DEF SettingsTypes, Settings!Request, Settings!NoRequest, Settings!NoProfile,
                      Settings!Provider, PageState
<1>5. PageAt'
    BY <1>1, <1>2, <1>3 DEF PageAt, FormAt, Settings!Provider, Settings!None
<1>6. RequestAt(request[r])'
  <2>1. q.for = "page" => Awaited(request[r])'
    BY <1>1, <1>2 DEF RequestAt, Awaited, Settings!NoProfile, Settings!Provider, Settings!Payload
  <2>2. q.for # "page" => Loose(request[r])'
    <3>1. SUFFICES ASSUME q.for # "page" PROVE Loose(request[r])'
      OBVIOUS
    <3>2. Loose(request[r])
      BY <1>1, <3>1 DEF RequestAt
    <3>3. /\ request'[r].kind = request[r].kind /\ request'[r].for = request[r].for
          /\ request'[r].payload = request[r].payload /\ request'[r].then = request[r].then
      BY <1>2
    <3>4. Settings!Stored' = Settings!Stored /\ UNCHANGED <<page, want>>
      BY <1>3
    <3>5. LastOf(request[r])' = LastOf(request[r])
      BY <3>3 DEF LastOf, Settings!NoProfile, Settings!Provider
    <3>6. ASSUME NEW p \in Settings!Provider, ~page'.in, request'[r].kind = "save"
          PROVE  \/ LastOf(request[r])'[p] # "keep" /\ LastOf(request[r])'[p] = want'[p]
                 \/ LastOf(request[r])'[p] = "keep" /\ request'[r].payload[p] = "keep"
                    /\ Settings!Stored'[p] = want'[p]
      BY <3>2, <3>3, <3>4, <3>5, <3>6 DEF Loose
    <3>. QED
      BY <3>2, <3>3, <3>4, <3>6, ZenonT(60) DEF Loose, Settings!NoProfile, Settings!Provider
  <2>3. Served(request[r])'
    <3>1. Settings!Resolved(q.payload, Settings!Stored)' = Settings!Resolved(q.payload, Settings!Stored)
      BY <1>3 DEF Settings!Resolved, Settings!Provider
    <3>2. q.kind = "save" /\ page.in =>
             \A p \in Settings!Provider : ~page.form[p].dirty => q.payload[p] = Masks(p)
      BY <1>1 DEF RequestAt, Served
    <3>3. q.kind \in {"save", "profile", "activate"}
      BY <1>1 DEF RequestAt, Served
    <3>4. request'[r].kind = "save" /\ page'.in =>
             \A p \in Settings!Provider : ~page'.form[p].dirty => request'[r].payload[p] = Masks(p)'
      BY <1>2, <3>2 DEF Masks
    <3>5. request'[r].pc # "new" =>
             IF request'[r].kind = "save"
             THEN request'[r].resolved = Settings!Resolved(request[r].payload, Settings!Stored)'
             ELSE request'[r].resolved = [p \in Settings!Provider |-> request'[r].resolved[p]]
      BY <1>2, <3>1
    <3>6. /\ request'[r].kind \in {"save", "profile", "activate"}
          /\ request'[r].pc = "new" => request'[r].resolved = Settings!NoProfile
          /\ request'[r].pc = "write" => request'[r].ids = {x.id : x \in rows'}
      BY <1>2, <3>3
    <3>. QED
      BY <3>4, <3>5, <3>6 DEF Served, Settings!NoProfile, Settings!Provider
  <2>. QED
    BY <1>2, <2>1, <2>2, <2>3 DEF RequestAt
<1>. QED
    BY <1>3, <1>4, <1>5, <1>6, SettingsKept

LEMMA ServerResolves ==
    ASSUME SettingsInv, NEW r \in Settings!Request, Settings!Resolve(r) \/ Settings!ReadRows(r)
    PROVE  SettingsInv'
<1> SUFFICES ASSUME ~excused PROVE SettingsInv'
    BY DEF SettingsInv, Settings!Resolve, Settings!ReadRows
<1>1. /\ r \in Settings!Active /\ request[r].kind \in {"save", "activate"}
      /\ UNCHANGED <<rows, profile, page, want, excused>>
    BY DEF Settings!Resolve, Settings!ReadRows, Settings!Is, Settings!Active
<1>2. SettingsTypes /\ Served(request[r])
    BY <1>1 DEF SettingsInv, RequestAt
<1>3. DOMAIN request[r] = DOMAIN Settings!NoRequest /\ DOMAIN request = Settings!Request
    BY <1>2 DEF SettingsTypes
<1>4. CASE Settings!Resolve(r)
  <2> DEFINE keys == IF request[r].resolved = Settings!NoProfile /\ request[r].kind = "activate" THEN profile
                     ELSE Settings!Resolved(request[r].payload, Settings!Stored)
             q == [request[r] EXCEPT !.pc = "rows", !.resolved = keys]
  <2>1. request' = [request EXCEPT ![r] = q] /\ request[r].pc = "new"
    BY <1>3, <1>4 DEF Settings!Resolve, Settings!Is, Settings!NoRequest
  <2>2. DOMAIN q = DOMAIN Settings!NoRequest
    BY <1>3
  <2>3. /\ q.kind = request[r].kind /\ q.for = request[r].for /\ q.revision = request[r].revision
        /\ q.payload = request[r].payload /\ q.then = request[r].then
        /\ q.pc = "rows" /\ q.resolved = keys
    BY <1>3 DEF Settings!NoRequest
  <2>4. IF q.kind = "save" THEN keys = Settings!Resolved(q.payload, Settings!Stored)
        ELSE keys = [p \in Settings!Provider |-> keys[p]]
    BY <1>1, <1>2, <2>1, <2>3 DEF Served, SettingsTypes
  <2> HIDE DEF q, keys
  <2>. QED
    BY <1>1, <2>1, <2>2, <2>3, <2>4, ServerWorks
<1>5. CASE Settings!ReadRows(r)
  <2> DEFINE q == [request[r] EXCEPT !.pc = "write", !.ids = {x.id : x \in rows}]
  <2>1. request' = [request EXCEPT ![r] = q] /\ request[r].pc = "rows"
    BY <1>3, <1>5 DEF Settings!ReadRows, Settings!Is, Settings!NoRequest
  <2>2. DOMAIN q = DOMAIN Settings!NoRequest
    BY <1>3
  <2>3. /\ q.kind = request[r].kind /\ q.for = request[r].for /\ q.revision = request[r].revision
        /\ q.payload = request[r].payload /\ q.then = request[r].then
        /\ q.pc = "write" /\ q.resolved = request[r].resolved /\ q.ids = {x.id : x \in rows}
    BY <1>3 DEF Settings!NoRequest
  <2>4. IF q.kind = "save" THEN q.resolved = Settings!Resolved(q.payload, Settings!Stored)
        ELSE q.resolved = [p \in Settings!Provider |-> q.resolved[p]]
    BY <1>2, <2>1, <2>3 DEF Served
  <2> HIDE DEF q
  <2>. QED
    BY <1>1, <2>1, <2>2, <2>3, <2>4, ServerWorks
<1>. QED
    BY <1>4, <1>5

\* A page that stays as it is, but for what it waits for.
LEMMA PageStays ==
    ASSUME SettingsTypes, NEW q \in PageState, page' = q, q.saved <= q.revision,
           DOMAIN request' = Settings!Request,
           \A s \in Settings!Request : DOMAIN request'[s] = DOMAIN Settings!NoRequest,
           want' = [p \in Settings!Provider |-> want'[p]],
           profile' = [p \in Settings!Provider |-> profile'[p]]
    PROVE  SettingsTypes'
  BY DEF SettingsTypes, Settings!Request, Settings!NoRequest, Settings!NoProfile,
         Settings!Provider

\* A save with the form as it is now follows the one that has come to an end.
LEMMA PageSavesAgain ==
    ASSUME SettingsTypes, SettingsTypes', NEW r \in Settings!Request,
           NewRequest(request'[r], "save", "page", page.revision, Settings!Payload(page.form)),
           page'.in, page'.saving, page'.form = page.form, page'.revision = page.revision,
           page'.saved < page.revision
    PROVE  RequestAt(request[r])'
<1>1. Settings!Payload(page.form)' = Settings!Payload(page.form)
    BY DEF Settings!Payload, Settings!Provider
<1>2. page.revision \in Nat /\ page.revision <= page.revision
    BY DEF SettingsTypes, PageState
<1>3. Awaited(request[r])'
    BY <1>1, <1>2 DEF Awaited, NewRequest, Settings!NoProfile, Settings!Provider
<1>4. \A p \in Settings!Provider : ~page'.form[p].dirty => request'[r].payload[p] = Masks(p)'
    BY PayloadMasks DEF NewRequest, Masks
<1>5. Served(request[r])'
    BY <1>4 DEF Served, NewRequest, Settings!NoProfile, Settings!Provider
<1>. QED
    BY <1>3, <1>5 DEF RequestAt, NewRequest

LEMMA RequestRefused ==
    ASSUME SettingsInv, NEW r \in Settings!Active, Settings!Refused(r),
           UNCHANGED <<rows, profile, want>>
    PROVE  SettingsInv'
<1> SUFFICES ASSUME ~excused' PROVE SettingsInv'
    BY DEF SettingsInv
<1>1. ~excused /\ request[r].for = "page"
    BY DEF Settings!Refused
<1>2. /\ SettingsTypes /\ PageAt /\ r \in Settings!Request /\ Settings!Active \subseteq {r}
      /\ Awaited(request[r]) /\ Served(request[r])
    BY <1>1 DEF SettingsInv, Settings!Active, RequestAt
<1>3. page.in /\ page \in PageState /\ Settings!Stored' = Settings!Stored
      /\ page.saved \in Nat /\ page.revision \in Nat /\ page.saved <= page.revision
    BY <1>2, StoredStays DEF Awaited, SettingsTypes, PageState
<1>4. CASE request[r].kind = "save" /\ request[r].revision < page.revision
  <2> DEFINE q == [Settings!NoRequest EXCEPT !.kind = "save", !.for = "page",
                      !.revision = page.revision, !.payload = Settings!Payload(page.form)]
  <2>1. page' = page /\ request' = [request EXCEPT ![r] = q]
    BY <1>1, <1>2, <1>3, <1>4 DEF Settings!Refused, Awaited
  <2>2. DOMAIN q = DOMAIN Settings!NoRequest /\ q.kind = "save"
        /\ NewRequest(q, "save", "page", page.revision, Settings!Payload(page.form))
    BY DEF Settings!NoRequest, NewRequest
  <2> HIDE DEF q
  <2>3. /\ DOMAIN request' = Settings!Request
        /\ \A s \in Settings!Request : DOMAIN request'[s] = DOMAIN Settings!NoRequest
        /\ request'[r] = q /\ Settings!Active' = {r}
    BY <1>2, <2>1, <2>2, RequestMoves
  <2>4. SettingsTypes'
    BY <1>2, <1>3, <2>1, <2>3, PageStays DEF SettingsTypes
  <2>5. page.saving /\ page.saved < page.revision
    BY <1>2, <1>3, <1>4 DEF Awaited
  <2>6. RequestAt(request[r])'
    BY <1>2, <1>3, <2>1, <2>2, <2>3, <2>4, <2>5, PageSavesAgain
  <2>7. PageAt'
    <3>1. \A p \in Settings!Provider : FormAt(p)'
      BY <1>2, <1>3, <2>1 DEF PageAt, FormAt
    <3>2. request'[r].kind = "save" /\ request'[r].for = "page"
      BY <2>2, <2>3 DEF NewRequest
    <3>. QED
      BY <1>3, <2>1, <2>3, <2>5, <3>1, <3>2 DEF PageAt, Settings!Provider
  <2>. QED
    BY <2>3, <2>4, <2>6, <2>7, SettingsKept
<1>5. CASE ~(request[r].kind = "save" /\ request[r].revision < page.revision)
  <2> DEFINE saving == IF request[r].kind = "save" THEN FALSE ELSE page.saving
             q == [page EXCEPT !.saving = saving, !.op = "none"]
  <2>1. request' = [request EXCEPT ![r] = Settings!NoRequest]
    BY <1>1, <1>2, <1>5 DEF Settings!Refused, Awaited
  <2>2. page' = q
    <3>1. CASE request[r].kind = "save"
      <4>1. request[r].revision = page.revision
        BY <1>2, <1>3, <1>5, <3>1 DEF Awaited
      <4>. QED
        BY <1>1, <3>1, <4>1 DEF Settings!Refused
    <3>2. CASE request[r].kind # "save"
      <4>1. page' = [page EXCEPT !.op = "none"]
        BY <1>1, <3>2 DEF Settings!Refused
      <4>2. page = [page EXCEPT !.saving = page.saving]
        BY <1>3 DEF PageState
      <4>. QED
        BY <3>2, <4>1, <4>2
    <3>. QED
      BY <3>1, <3>2
  <2>3. q \in PageState
    <3>1. saving \in BOOLEAN
      BY <1>3 DEF PageState
    <3>. QED
      BY <1>3, <3>1, Zenon DEF PageState
  <2>4. /\ q.in = page.in /\ q.form = page.form /\ q.revision = page.revision
        /\ q.saved = page.saved /\ q.saving = saving
    BY <1>3 DEF PageState
  <2>5. ~saving
    BY <1>2 DEF Awaited
  <2> HIDE DEF q, saving
  <2>6. DOMAIN Settings!NoRequest = DOMAIN Settings!NoRequest /\ Settings!NoRequest.kind = "none"
    BY DEF Settings!NoRequest
  <2>7. /\ DOMAIN request' = Settings!Request
        /\ \A s \in Settings!Request : DOMAIN request'[s] = DOMAIN Settings!NoRequest
        /\ Settings!Active' = {}
    BY <1>2, <2>1, <2>6, RequestMoves
  <2>8. SettingsTypes'
    BY <1>2, <1>3, <2>2, <2>3, <2>4, <2>7, PageStays DEF SettingsTypes
  <2>9. PageAt'
    <3>1. \A p \in Settings!Provider : FormAt(p)'
      BY <1>2, <1>3, <2>2, <2>4 DEF PageAt, FormAt
    <3>. QED
      BY <1>2, <1>3, <2>2, <2>4, <2>5, <3>1 DEF PageAt, Settings!Provider
  <2>. QED
    BY <2>7, <2>8, <2>9, SettingsKept
<1>. QED
    BY <1>4, <1>5

LEMMA RequestBreaks ==
    ASSUME SettingsInv, NEW r \in Settings!Request, Settings!Break(r) PROVE SettingsInv'
<1> SUFFICES ASSUME ~excused' PROVE SettingsInv'
    BY DEF SettingsInv
<1>1. /\ ~excused /\ r \in Settings!Active /\ request[r].for = "page"
      /\ request[r].kind # "activate" /\ UNCHANGED <<rows, profile, want>>
      /\ request[r].kind # "save" \/ request[r].revision = page.revision
    BY DEF Settings!Break
<1>2. /\ SettingsTypes /\ PageAt /\ Settings!Active \subseteq {r}
      /\ Awaited(request[r]) /\ Served(request[r])
    BY <1>1 DEF SettingsInv, RequestAt
<1>3. page.in /\ page \in PageState /\ Settings!Stored' = Settings!Stored
      /\ page.saved <= page.revision
    BY <1>1, <1>2, StoredStays DEF Awaited, SettingsTypes
<1> DEFINE w == [page EXCEPT !.saving = FALSE, !.op = "none"]
           q == [request[r] EXCEPT !.for = "nobody"]
<1>4. page' = w /\ request' = [request EXCEPT ![r] = q]
    BY <1>2 DEF Settings!Break, SettingsTypes
<1>5. w \in PageState
    BY <1>3, Zenon DEF PageState
<1>6. /\ w.in = page.in /\ w.form = page.form /\ w.revision = page.revision
      /\ w.saved = page.saved /\ ~w.saving
    BY <1>3 DEF PageState
<1>7. DOMAIN request[r] = DOMAIN Settings!NoRequest
    BY <1>2 DEF SettingsTypes
<1>8. /\ DOMAIN q = DOMAIN Settings!NoRequest /\ q.for = "nobody" /\ q.kind = request[r].kind
      /\ q.payload = request[r].payload /\ q.then = request[r].then /\ q.pc = request[r].pc
      /\ q.resolved = request[r].resolved /\ q.ids = request[r].ids
    BY <1>7 DEF Settings!NoRequest
<1> HIDE DEF w, q
<1>9. /\ DOMAIN request' = Settings!Request
      /\ \A s \in Settings!Request : DOMAIN request'[s] = DOMAIN Settings!NoRequest
      /\ request'[r] = q /\ Settings!Active' = IF q.kind = "none" THEN {} ELSE {r}
    BY <1>2, <1>4, <1>8, RequestMoves
<1>10. SettingsTypes'
    BY <1>1, <1>2, <1>3, <1>4, <1>5, <1>6, <1>9, PageStays DEF SettingsTypes
<1>11. PageAt'
  <2>1. \A p \in Settings!Provider : FormAt(p)'
    BY <1>1, <1>2, <1>3, <1>4, <1>6 DEF PageAt, FormAt
  <2>. QED
    BY <1>1, <1>2, <1>3, <1>4, <1>6, <2>1 DEF PageAt, Settings!Provider
<1>12. Loose(request[r])'
  <2>1. request[r].then = Settings!NoProfile
        /\ (request[r].kind = "save" => page.saved < page.revision)
    BY <1>1, <1>2 DEF Awaited
  <2>. QED
    BY <1>1, <1>3, <1>4, <1>6, <1>8, <1>9, <2>1 DEF Loose, Settings!NoProfile, Settings!Provider
<1>13. Served(request[r])'
  <2>1. request'[r].kind = "save" /\ page'.in =>
             \A p \in Settings!Provider : ~page'.form[p].dirty => request'[r].payload[p] = Masks(p)'
    BY <1>2, <1>3, <1>4, <1>6, <1>8, <1>9 DEF Served, Masks
  <2>2. Settings!Resolved(request[r].payload, Settings!Stored)'
           = Settings!Resolved(request[r].payload, Settings!Stored)
    BY <1>3, <1>8, <1>9 DEF Settings!Resolved, Settings!Provider
  <2>3. request'[r].pc # "new" =>
             IF request'[r].kind = "save"
             THEN request'[r].resolved = Settings!Resolved(request[r].payload, Settings!Stored)'
             ELSE request'[r].resolved = [p \in Settings!Provider |-> request'[r].resolved[p]]
    BY <1>2, <1>8, <1>9, <2>2 DEF Served
  <2>4. /\ request'[r].kind \in {"save", "profile", "activate"}
        /\ request'[r].pc = "new" => request'[r].resolved = Settings!NoProfile
        /\ request'[r].pc = "write" => request'[r].ids = {x.id : x \in rows'}
    BY <1>1, <1>2, <1>8, <1>9 DEF Served
  <2>. QED
    BY <2>1, <2>3, <2>4 DEF Served, Settings!NoProfile, Settings!Provider
<1>14. RequestAt(request[r])'
    BY <1>8, <1>9, <1>12, <1>13 DEF RequestAt
<1>. QED
    BY <1>9, <1>10, <1>11, <1>14, SettingsKept

\* A request that is answered and done, over what is stored now.
LEMMA RequestEnds ==
    ASSUME SettingsTypes, NEW r \in Settings!Active, Settings!Active \subseteq {r},
           request' = [request EXCEPT ![r] = Settings!NoRequest],
           NEW w \in PageState, page' = w, w.saved <= w.revision,
           want' = [p \in Settings!Provider |-> want'[p]],
           profile' = [p \in Settings!Provider |-> profile'[p]],
           w.in => ~w.saving /\ \A p \in Settings!Provider : FormAt(p)',
           w.in /\ w.saved = w.revision => Settings!Stored' = want',
           ~w.in => Settings!Stored' = want'
    PROVE  SettingsInv'
<1>1. r \in Settings!Request /\ DOMAIN Settings!NoRequest = DOMAIN Settings!NoRequest
      /\ Settings!NoRequest.kind = "none"
    BY DEF Settings!NoRequest, Settings!Active
<1>2. /\ DOMAIN request' = Settings!Request
      /\ \A s \in Settings!Request : DOMAIN request'[s] = DOMAIN Settings!NoRequest
      /\ Settings!Active' = {}
    BY <1>1, RequestMoves
<1>3. SettingsTypes'
    BY <1>2, PageStays
<1>4. PageAt'
    BY <1>2 DEF PageAt, Settings!Provider
<1>. QED
    BY <1>2, <1>3, <1>4, SettingsKept

\* A save that was written and its answer.
LEMMA SaveAnswered ==
    ASSUME SettingsInv, ~excused, NEW r \in Settings!Active, request[r].kind = "save",
           request[r].pc = "write", NEW keys, Settings!Answered(r, keys),
           Settings!Stored' = request[r].resolved, UNCHANGED <<profile, want, excused>>
    PROVE  SettingsInv'
<1> DEFINE q == request[r]
<1>1. /\ SettingsTypes /\ PageAt /\ r \in Settings!Request /\ Settings!Active \subseteq {r}
      /\ RequestAt(q) /\ q.resolved = Settings!Resolved(q.payload, Settings!Stored)
    BY DEF SettingsInv, Settings!Active, RequestAt, Served
<1>2. \A p \in Settings!Provider : Settings!Stored'[p] =
          IF q.payload[p] = "keep" THEN Settings!Stored[p] ELSE q.payload[p]
    BY <1>1 DEF Settings!Resolved
<1>3. /\ want' = [p \in Settings!Provider |-> want'[p]]
      /\ profile' = [p \in Settings!Provider |-> profile'[p]]
      /\ Settings!Stored' = [p \in Settings!Provider |-> Settings!Stored'[p]]
    BY <1>1 DEF SettingsTypes, Settings!Resolved
<1>4. page \in PageState /\ page.saved <= page.revision /\ page.saved \in Nat /\ page.revision \in Nat
    BY <1>1 DEF SettingsTypes, PageState
<1>5. ASSUME page.in, NEW p \in Settings!Provider, ~page.form[p].dirty
      PROVE  Settings!Stored'[p] = Settings!Stored[p] /\ Settings!Stored[p] = want[p]
             /\ (page.form[p].has <=> Settings!Stored[p] # Settings!None)
  <2>1. q.payload[p] = Masks(p) /\ FormAt(p)
    BY <1>1, <1>5 DEF RequestAt, Served, PageAt
  <2>. QED
    BY <1>2, <1>5, <2>1 DEF FormAt, Masks, Settings!None
<1>6. ASSUME page.in, NEW p \in Settings!Provider, page'.form = page.form PROVE FormAt(p)'
  <2>1. CASE page.form[p].dirty
    BY <1>1, <1>6, <2>1 DEF PageAt, FormAt
  <2>2. CASE ~page.form[p].dirty
    <3>1. FormAt(p)
      BY <1>1, <1>6 DEF PageAt
    <3>. QED
      BY <1>5, <1>6, <2>2, <3>1 DEF FormAt, Settings!None
  <2>. QED
    BY <2>1, <2>2
<1>7. CASE q.for # "page" /\ q.then = Settings!NoProfile
  <2>1. page' = page /\ request' = [request EXCEPT ![r] = Settings!NoRequest] /\ Loose(q)
    BY <1>1, <1>7 DEF Settings!Answered, RequestAt
  <2>2. page.in => ~page.saving /\ page.saved < page.revision
    BY <1>1, <1>7, <2>1 DEF Loose, PageAt
  <2>3. ASSUME ~page.in PROVE Settings!Stored' = want'
    <3>1. \A p \in Settings!Provider : Settings!Stored'[p] = want[p]
      BY <1>2, <1>7, <2>1, <2>3 DEF Loose, LastOf
    <3>. QED
      BY <1>3, <3>1
  <2>4. page.in => \A p \in Settings!Provider : FormAt(p)'
    BY <1>6, <2>1
  <2>5. page.in /\ page.saved = page.revision => Settings!Stored' = want'
    BY <1>4, <2>2
  <2>6. page' = page /\ page \in PageState /\ page.saved <= page.revision
        /\ (page.in => ~page.saving)
    BY <1>4, <2>1, <2>2
  <2>. QED
    BY <1>1, <1>3, <2>1, <2>3, <2>4, <2>5, <2>6, RequestEnds
<1>8. CASE q.for # "page" /\ q.then # Settings!NoProfile
  <2> DEFINE n == [Settings!NoRequest EXCEPT !.kind = "save", !.payload = q.then]
  <2>1. page' = page /\ request' = [request EXCEPT ![r] = n] /\ Loose(q)
    BY <1>1, <1>8 DEF Settings!Answered, RequestAt
  <2>2. DOMAIN n = DOMAIN Settings!NoRequest /\ NewRequest(n, "save", "nobody", 0, q.then)
        /\ n.kind # "none"
    BY DEF Settings!NoRequest, NewRequest
  <2>3. ~page.in
    BY <1>8, <2>1 DEF Loose
  <2> HIDE DEF n
  <2>4. /\ DOMAIN request' = Settings!Request
        /\ \A s \in Settings!Request : DOMAIN request'[s] = DOMAIN Settings!NoRequest
        /\ request'[r] = n /\ Settings!Active' = {r}
    BY <1>1, <2>1, <2>2, RequestMoves
  <2>5. SettingsTypes'
    BY <1>1, <1>3, <1>4, <2>1, <2>4, PageStays
  <2>6. PageAt'
    BY <2>1, <2>3, <2>4 DEF PageAt
  <2>7. ASSUME NEW p \in Settings!Provider
        PROVE  \/ q.then[p] # "keep" /\ q.then[p] = want[p]
               \/ q.then[p] = "keep" /\ Settings!Stored'[p] = want[p]
    BY <1>2, <1>8, <2>1, <2>3 DEF Loose, LastOf
  <2>8. request'[r].then = Settings!NoProfile /\ request'[r].payload = q.then
        /\ request'[r].kind = "save" /\ request'[r].for = "nobody" /\ request'[r].pc = "new"
        /\ request'[r].resolved = Settings!NoProfile
    BY <2>2, <2>4 DEF NewRequest
  <2>9. LastOf(request[r])' = q.then
    BY <2>8 DEF LastOf, Settings!NoProfile, Settings!Provider
  <2>10. Loose(request[r])'
    <3>1. ASSUME NEW p \in Settings!Provider
          PROVE  \/ LastOf(request[r])'[p] # "keep" /\ LastOf(request[r])'[p] = want'[p]
                 \/ LastOf(request[r])'[p] = "keep" /\ request'[r].payload[p] = "keep"
                    /\ Settings!Stored'[p] = want'[p]
      BY <2>7, <2>8, <2>9
    <3>. QED
      BY <2>1, <2>3, <2>8, <3>1 DEF Loose, Settings!NoProfile, Settings!Provider
  <2>11. Served(request[r])'
    BY <2>1, <2>3, <2>8 DEF Served, Settings!NoProfile, Settings!Provider
  <2>. QED
    BY <2>4, <2>5, <2>6, <2>8, <2>10, <2>11, SettingsKept DEF RequestAt
<1>9. CASE q.for = "page" /\ q.revision < page.revision
  <2> DEFINE n == [Settings!NoRequest EXCEPT !.kind = "save", !.for = "page",
                      !.revision = page.revision, !.payload = Settings!Payload(page.form)]
             w == [page EXCEPT !.saved = q.revision]
  <2>1. page' = w /\ request' = [request EXCEPT ![r] = n] /\ Awaited(q)
    <3>1. Awaited(q)
      BY <1>1, <1>9 DEF RequestAt
    <3>2. q.revision \in Nat /\ q.revision # page.revision
      BY <1>4, <1>9, <3>1 DEF Awaited
    <3>. QED
      BY <1>9, <3>1, <3>2 DEF Settings!Answered
  <2>2. DOMAIN n = DOMAIN Settings!NoRequest /\ n.kind # "none"
        /\ NewRequest(n, "save", "page", page.revision, Settings!Payload(page.form))
    BY DEF Settings!NoRequest, NewRequest
  <2>3. page.in /\ page.saving /\ q.revision \in Nat
    BY <2>1 DEF Awaited
  <2>4. w \in PageState
    BY <1>4, <2>3, Zenon DEF PageState
  <2>5. /\ w.in = page.in /\ w.form = page.form /\ w.revision = page.revision
        /\ w.saved = q.revision /\ w.saving = page.saving
    BY <1>4 DEF PageState
  <2> HIDE DEF n, w
  <2>6. /\ DOMAIN request' = Settings!Request
        /\ \A s \in Settings!Request : DOMAIN request'[s] = DOMAIN Settings!NoRequest
        /\ request'[r] = n /\ Settings!Active' = {r}
    BY <1>1, <2>1, <2>2, RequestMoves
  <2>7. SettingsTypes'
    <3>1. w.saved <= w.revision
      BY <1>4, <1>9, <2>3, <2>5
    <3>. QED
      BY <1>1, <1>3, <2>1, <2>4, <2>6, <3>1, PageStays
  <2>8. PageAt'
    <3>1. \A p \in Settings!Provider : FormAt(p)'
      BY <1>6, <2>1, <2>3, <2>5
    <3>2. page'.in /\ page'.saved # page'.revision
      BY <1>4, <1>9, <2>1, <2>3, <2>5
    <3>3. request'[r].kind = "save" /\ request'[r].for = "page"
      BY <2>2, <2>6 DEF NewRequest
    <3>. QED
      BY <2>6, <3>1, <3>2, <3>3 DEF PageAt, Settings!Provider
  <2>9. RequestAt(request[r])'
    BY <1>1, <1>9, <2>1, <2>2, <2>3, <2>5, <2>6, <2>7, PageSavesAgain
  <2>. QED
    BY <2>6, <2>7, <2>8, <2>9, SettingsKept
<1>10. CASE q.for = "page" /\ ~(q.revision < page.revision)
  <2> DEFINE w == [page EXCEPT !.saved = q.revision, !.saving = FALSE]
  <2>1. Awaited(q) /\ q.revision = page.revision /\ page.in
        /\ q.payload = Settings!Payload(page.form)
    <3>1. Awaited(q)
      BY <1>1, <1>10 DEF RequestAt
    <3>2. q.revision \in Nat /\ q.revision <= page.revision
      BY <3>1 DEF Awaited
    <3>3. q.revision = page.revision
      BY <1>4, <1>10, <3>2
    <3>. QED
      BY <3>1, <3>3 DEF Awaited
  <2>2. page' = w /\ request' = [request EXCEPT ![r] = Settings!NoRequest]
    BY <1>1, <1>10, <2>1 DEF Settings!Answered
  <2>3. w \in PageState
    BY <1>4, <2>1, Zenon DEF PageState
  <2>4. /\ w.in = page.in /\ w.form = page.form /\ w.revision = page.revision
        /\ w.saved = page.revision /\ ~w.saving
    BY <1>4, <2>1 DEF PageState
  <2> HIDE DEF w
  <2>5. w.saved <= w.revision
    BY <1>4, <2>4
  <2>6. Settings!Stored' = want'
    <3>1. ASSUME NEW p \in Settings!Provider PROVE Settings!Stored'[p] = want[p]
      <4>1. CASE ~page.form[p].dirty
        BY <1>5, <2>1, <4>1
      <4>2. CASE page.form[p].dirty
        <5>1. q.payload[p] = page.form[p].key
          BY <2>1, <4>2, PayloadMasks
        <5>2. page.form[p].key \in Settings!Value /\ FormAt(p)
          BY <1>1, <1>4, <2>1 DEF PageState, PageAt
        <5>3. page.form[p].key # "keep"
          BY <5>2, NamesAssumption DEF Settings!Value, Settings!None
        <5>. QED
          BY <1>2, <4>2, <5>1, <5>2, <5>3 DEF FormAt
      <4>. QED
        BY <4>1, <4>2
    <3>. QED
      BY <1>3, <3>1
  <2>7. \A p \in Settings!Provider : FormAt(p)'
    BY <1>6, <2>1, <2>2, <2>4
  <2>. QED
    BY <1>1, <1>3, <2>1, <2>2, <2>3, <2>4, <2>5, <2>6, <2>7, RequestEnds
<1>. QED
    BY <1>7, <1>8, <1>9, <1>10

\* A profile that was activated and its answer.
LEMMA ActivateAnswered ==
    ASSUME SettingsInv, ~excused, NEW r \in Settings!Active, request[r].kind = "activate",
           request[r].pc = "write", Settings!Answered(r, request[r].resolved),
           Settings!Stored' = request[r].resolved, want' = request[r].resolved,
           UNCHANGED <<profile, excused>>
    PROVE  SettingsInv'
<1> DEFINE q == request[r]
<1>1. /\ SettingsTypes /\ PageAt /\ r \in Settings!Request /\ Settings!Active \subseteq {r}
      /\ RequestAt(q) /\ q.resolved = [p \in Settings!Provider |-> q.resolved[p]]
    BY DEF SettingsInv, Settings!Active, RequestAt, Served
<1>2. /\ want' = [p \in Settings!Provider |-> want'[p]]
      /\ profile' = [p \in Settings!Provider |-> profile'[p]]
    BY <1>1 DEF SettingsTypes
<1>3. page \in PageState /\ page.saved <= page.revision /\ page.revision \in Nat
    BY <1>1 DEF SettingsTypes, PageState
<1>4. CASE q.for # "page"
  <2>1. Loose(q)
    BY <1>1, <1>4 DEF RequestAt
  <2>2. ~page.in /\ q.then = Settings!NoProfile
    BY <2>1 DEF Loose
  <2>3. page' = page /\ request' = [request EXCEPT ![r] = Settings!NoRequest]
    BY <1>4, <2>2 DEF Settings!Answered
  <2>. QED
    BY <1>1, <1>2, <1>3, <2>2, <2>3, RequestEnds
<1>5. CASE q.for = "page"
  <2> DEFINE form == Settings!FormOf(q.resolved)
             w == [page EXCEPT !.op = "none", !.form = form, !.revision = @ + 1,
                               !.saved = page.revision + 1]
  <2>1. page' = w /\ request' = [request EXCEPT ![r] = Settings!NoRequest]
    BY <1>5 DEF Settings!Answered
  <2>2. ~page.saving
    BY <1>1, <1>5 DEF RequestAt, Awaited
  <2>3. form \in [Settings!Provider -> [key : Settings!Value, has : BOOLEAN, dirty : BOOLEAN]]
    BY DEF Settings!FormOf, Settings!Value
  <2>4. \A p \in Settings!Provider : form[p].dirty = FALSE
           /\ form[p].has = (q.resolved[p] # Settings!None)
    BY DEF Settings!FormOf
  <2> HIDE DEF form
  <2>5. w \in PageState
    <3>1. page.revision + 1 \in Nat
      BY <1>3
    <3>. QED
      BY <1>3, <2>3, <3>1, Zenon DEF PageState
  <2>6. w.form = form /\ w.revision = page.revision + 1 /\ w.saved = page.revision + 1
        /\ w.saving = page.saving
    BY <1>3 DEF PageState
  <2> HIDE DEF w
  <2>7. w.saved <= w.revision
    BY <1>3, <2>6
  <2>8. ASSUME NEW p \in Settings!Provider PROVE FormAt(p)'
    <3>1. page'.form[p].dirty = FALSE /\ page'.form[p].has = (Settings!Stored'[p] # Settings!None)
      BY <2>1, <2>4, <2>6
    <3>2. Settings!Stored'[p] = want'[p]
      OBVIOUS
    <3>. QED
      BY <3>1, <3>2, Zenon DEF FormAt, Settings!None
  <2>. QED
    BY <1>1, <1>2, <2>1, <2>2, <2>5, <2>6, <2>7, <2>8, RequestEnds
<1>. QED
    BY <1>4, <1>5

LEMMA ProfileWritten ==
    ASSUME SettingsInv, NEW r \in Settings!Request, Settings!WriteProfile(r) PROVE SettingsInv'
<1> SUFFICES ASSUME ~excused PROVE SettingsInv'
    BY DEF SettingsInv, Settings!WriteProfile
<1> DEFINE q == request[r]
<1>1. /\ r \in Settings!Active /\ q.kind = "profile" /\ q.pc = "new"
      /\ UNCHANGED <<rows, want, excused>> /\ Settings!Answered(r, Settings!Stored)
    BY DEF Settings!WriteProfile, Settings!Is, Settings!Active
<1>2. /\ SettingsTypes /\ PageAt /\ Settings!Active \subseteq {r} /\ RequestAt(q)
      /\ Settings!Stored' = Settings!Stored
    BY <1>1, StoredStays DEF SettingsInv
<1>3. /\ want' = [p \in Settings!Provider |-> want'[p]]
      /\ profile' = [p \in Settings!Provider |-> profile'[p]]
    BY <1>1, <1>2 DEF SettingsTypes, Settings!WriteProfile, Settings!Resolved
<1>4. page \in PageState /\ page.saved <= page.revision
    BY <1>2 DEF SettingsTypes
<1>5. page.in => ~page.saving
    BY <1>1, <1>2 DEF PageAt
<1>6. page.in /\ page'.form = page.form => \A p \in Settings!Provider : FormAt(p)'
    BY <1>1, <1>2 DEF PageAt, FormAt
<1>7. page.in /\ page.saved = page.revision => Settings!Stored' = want'
    BY <1>1, <1>2 DEF PageAt
<1>8. CASE q.for # "page"
  <2>1. Loose(q)
    BY <1>2, <1>8 DEF RequestAt
  <2>2. page' = page /\ request' = [request EXCEPT ![r] = Settings!NoRequest]
    BY <1>1, <1>8, <2>1 DEF Settings!Answered, Loose
  <2>3. ~page.in => Settings!Stored' = want'
    BY <1>1, <1>2, <2>1 DEF Loose
  <2>4. page.in => \A p \in Settings!Provider : FormAt(p)'
    BY <1>6, <2>2
  <2>. QED
    BY <1>1, <1>2, <1>3, <1>4, <1>5, <1>7, <2>2, <2>3, <2>4, RequestEnds
<1>9. CASE q.for = "page"
  <2> DEFINE w == [page EXCEPT !.op = "none"]
  <2>1. page' = w /\ request' = [request EXCEPT ![r] = Settings!NoRequest]
    BY <1>1, <1>9 DEF Settings!Answered
  <2>2. page.in
    BY <1>2, <1>9 DEF RequestAt, Awaited
  <2>3. w \in PageState
    BY <1>4, Zenon DEF PageState
  <2>4. /\ w.in = page.in /\ w.form = page.form /\ w.revision = page.revision
        /\ w.saved = page.saved /\ w.saving = page.saving
    BY <1>4 DEF PageState
  <2> HIDE DEF w
  <2>5. \A p \in Settings!Provider : FormAt(p)'
    BY <1>6, <2>1, <2>2, <2>4
  <2>6. /\ w.saved <= w.revision /\ ~w.saving
        /\ w.saved = w.revision => Settings!Stored' = want'
    BY <1>4, <1>5, <1>7, <2>2, <2>4
  <2>. QED
    BY <1>1, <1>2, <1>3, <2>1, <2>2, <2>3, <2>4, <2>5, <2>6, RequestEnds
<1>. QED
    BY <1>8, <1>9

LEMMA RowsWritten ==
    ASSUME SettingsInv, NEW r \in Settings!Request, Settings!Write(r) PROVE SettingsInv'
<1> SUFFICES ASSUME ~excused' PROVE SettingsInv'
    BY DEF SettingsInv
<1> DEFINE q == request[r]
           kept == {x \in rows : x.id \notin q.ids}
           new  == {p \in Settings!Provider : q.resolved[p] # Settings!None}
<1>1. /\ r \in Settings!Active /\ q.kind \in {"save", "activate"} /\ q.pc = "write"
      /\ UNCHANGED profile
    BY DEF Settings!Write, Settings!Is, Settings!Active
<1>2. CASE \E x \in kept : x.provider \in new
    BY <1>1, <1>2, RequestRefused DEF Settings!Write
<1>3. CASE ~\E x \in kept : x.provider \in new
  <2>1. UNCHANGED excused /\ ~excused
    BY <1>3 DEF Settings!Write
  <2>2. /\ RequestAt(q) /\ SettingsTypes
    BY <1>1, <2>1 DEF SettingsInv
  <2>3. kept = {}
    <3>1. q.ids = {x.id : x \in rows}
      BY <1>1, <2>2 DEF RequestAt, Served
    <3>. QED
      BY <3>1
  <2> DEFINE base == Settings!Max({0} \cup {x.id : x \in kept})
             rank(p) == Settings!Cardinality({o \in new : o <= p})
             added == {[id |-> base + rank(p), provider |-> p, key |-> q.resolved[p]] : p \in new}
  <2>4. /\ rows' = kept \cup added
        /\ Settings!Answered(r, Settings!KeysOf(kept \cup added))
        /\ want' = IF q.kind = "activate" THEN q.resolved ELSE want
    BY <1>3 DEF Settings!Write
  <2>5. rows' = added /\ Settings!Answered(r, Settings!KeysOf(added))
    <3>1. kept \cup added = added
      BY <2>3
    <3> HIDE DEF added, kept
    <3>. QED
      BY <2>4, <3>1
  <2>6. /\ \A x \in added : x.provider \in new /\ x.key = q.resolved[x.provider]
        /\ \A p \in new : \E x \in added : x.provider = p
    <3> HIDE DEF base, rank
    <3>1. \A x \in added : \E p \in new : x.provider = p /\ x.key = q.resolved[p]
      OBVIOUS
    <3>2. ASSUME NEW p \in new PROVE \E x \in added : x.provider = p
      <4>1. [id |-> base + rank(p), provider |-> p, key |-> q.resolved[p]] \in added
        OBVIOUS
      <4>. QED
        BY <4>1
    <3>. QED
      BY <3>1, <3>2
  <2>7. q.resolved = [p \in Settings!Provider |-> q.resolved[p]]
    BY <1>1, <2>2 DEF RequestAt, Served, Settings!Resolved
  <2> HIDE DEF added
  <2>8. Settings!KeysOf(added) = q.resolved
    BY <2>6, <2>7, SavedKeys
  <2>9. Settings!Stored' = q.resolved /\ Settings!Answered(r, q.resolved)
    <3>1. Settings!Stored' = Settings!KeysOf(added)
      BY <2>5 DEF Settings!Stored, Settings!KeysOf, Settings!Provider, Settings!None
    <3>. QED
      BY <2>5, <2>8, <3>1
  <2>10. CASE q.kind = "save"
    BY <1>1, <2>1, <2>4, <2>9, <2>10, SaveAnswered
  <2>11. CASE q.kind = "activate"
    BY <1>1, <2>1, <2>4, <2>9, <2>11, ActivateAnswered
  <2>. QED
    BY <1>1, <2>10, <2>11
<1>. QED
    BY <1>2, <1>3

LEMMA SettingsSteps == SettingsInv /\ [Settings!Next]_(Settings!vars) => SettingsInv'
<1> SUFFICES ASSUME SettingsInv, [Settings!Next]_(Settings!vars) PROVE SettingsInv'
    OBVIOUS
<1>1. CASE UNCHANGED Settings!vars
  <2> SUFFICES ASSUME ~excused PROVE SettingsInv'
    BY <1>1 DEF SettingsInv, Settings!vars
  <2>1. page \in PageState
    BY DEF SettingsInv, SettingsTypes
  <2>. QED
    BY <1>1, <2>1, PageRests DEF Settings!vars
<1>2. CASE Settings!LoadPage
    BY <1>2, PageLoads
<1>3. CASE Settings!Flush \/ Settings!Timer \/ Settings!Proceed
    BY <1>3, PageFlushes
<1>4. CASE \E p \in Settings!Provider, key \in Settings!Value : Settings!Edit(p, key)
    BY <1>4, PageEdits
<1>5. CASE \E op \in {"save", "load"} : Settings!OpenProfile(op)
    BY <1>5, PageOpensProfile
<1>6. CASE \E unload \in BOOLEAN : Settings!Leave(unload)
    BY <1>6, PageLeaves
<1>7. ASSUME NEW r \in Settings!Request,
             \/ Settings!Resolve(r) \/ Settings!ReadRows(r) \/ Settings!Write(r)
             \/ Settings!WriteProfile(r) \/ Settings!Fail(r) \/ Settings!Break(r)
      PROVE  SettingsInv'
    BY <1>7, ServerResolves, RowsWritten, ProfileWritten, RequestBreaks, RequestRefused
       DEF Settings!Fail
<1>. QED
    BY <1>1, <1>2, <1>3, <1>4, <1>5, <1>6, <1>7 DEF Settings!Next

\* What the process serves is what is stored: a process that is ready works on the whole
\* schema of its head or of a newer one (migration.py); an import of a manifest that is
\* done left its file, and memory follows the disk (registry.py); the provider settings
\* are the keys the user was left with once no save is under way (configuration.py and
\* ConfigurationsPage.tsx).
THEOREM StoredIsAlwaysServed == ServicesSpec => []StoredIsServed
<1> DEFINE Inv == /\ which = "migration" => SchemaInv
                  /\ which = "registry" => RegistryInv
                  /\ which = "settings" => SettingsInv
<1>1. ServicesInit => Inv
    BY SchemaStarts, RegistryStarts, SettingsStart
       DEF ServicesInit, JobsInit, DownloadsInit, CatalogInit, ChatInit, RegistryInit,
           SchemaInit, SettingsInit
<1>2. Inv /\ [ServicesNext]_all => Inv'
  <2> SUFFICES ASSUME Inv, [ServicesNext]_all PROVE Inv'
    OBVIOUS
  <2>1. which' = which
    BY DEF ServicesNext, JobsNext, DownloadsNext, CatalogNext, ChatNext, RegistryNext,
           SchemaNext, SettingsNext, Stopped, all
  <2>2. CASE which = "migration"
    <3>1. SchemaNext \/ UNCHANGED all
      BY <2>2 DEF ServicesNext, JobsNext, DownloadsNext, CatalogNext, ChatNext, RegistryNext,
                  SchemaNext, SettingsNext, Stopped, all
    <3>2. [Schema!Next]_(Schema!vars)
      BY <3>1 DEF SchemaNext, all, Schema!vars
    <3>. QED
      BY <2>1, <2>2, <3>2, SchemaSteps
  <2>3. CASE which = "registry"
    <3>1. RegistryNext \/ UNCHANGED all
      BY <2>3 DEF ServicesNext, JobsNext, DownloadsNext, CatalogNext, ChatNext, RegistryNext,
                  SchemaNext, SettingsNext, Stopped, all
    <3>2. [Registry!Next]_(Registry!vars)
      BY <3>1 DEF RegistryNext, all, Registry!vars
    <3>. QED
      BY <2>1, <2>3, <3>2, RegistrySteps
  <2>4. CASE which = "settings"
    <3>1. SettingsNext \/ UNCHANGED all
      BY <2>4 DEF ServicesNext, JobsNext, DownloadsNext, CatalogNext, ChatNext, RegistryNext,
                  SchemaNext, SettingsNext, Stopped, all
    <3>2. [Settings!Next]_(Settings!vars)
      BY <3>1 DEF SettingsNext, all, Settings!vars
    <3>. QED
      BY <2>1, <2>4, <3>2, SettingsSteps
  <2>. QED
    BY <2>1, <2>2, <2>3, <2>4
<1>3. Inv => StoredIsServed
    BY RegistryIsServed, SettingsAreServed DEF StoredIsServed, SchemaInv
<1>. QED
    BY <1>1, <1>2, <1>3, PTL DEF ServicesSpec
------------------------------------------------------------------------------
(* What has ended: jobs.py *)

Over(j) == state[j].status \in Jobs!Terminal

\* completed_at orders the jobs that are over, strictly and one after the other.
EndsOrdered ==
    /\ ended \in [Jobs!Job -> SUBSET Jobs!Job]
    /\ \A j, k \in Jobs!Job : j \in ended[k] => j # k /\ Over(j) /\ Over(k) /\ k \notin ended[j]
    /\ \A j, k \in Jobs!Job : j # k /\ Over(j) /\ Over(k) => j \in ended[k] \/ k \in ended[j]
    /\ \A i, j, k \in Jobs!Job : i \in ended[j] /\ j \in ended[k] => i \in ended[k]

\* A job is over before its thread says so only by a cancellation that found it pending.
CutShort(j) == \E c \in Canceller : cancel[c].job = j /\ cancel[c].pc = "dropped"

JobsOver ==
    \A j \in Jobs!Job : /\ caller[j] = "off" => ~Over(j)
                        /\ Over(j) /\ thread[j] \notin {"last", "done"} => CutShort(j)

OverInv == EndsOrdered /\ JobsOver

LEMMA JobCounts == ASSUME NEW S PROVE Jobs!Cardinality(S) = Cardinality(S)
  BY DEF Jobs!Cardinality, Cardinality

\* Pruning keeps the jobs with few later ends; as the ends are in order, no two of them
\* have equally many, and there are no more of them than the limit.
LEMMA RetainedAreFew ==
    ASSUME JobInv, OverInv, NEW j \in Jobs!Job, Jobs!Prune(j)
    PROVE  Jobs!Cardinality({i \in Id : jobs'[i] # Jobs!NoJob /\ state'[jobs'[i]].status \in Jobs!Terminal})
               <= MaxTerminal
<1> DEFINE Kept     == {k \in Jobs!Job : Over(k) /\ jobs[state[k].id] = k}
           Later(k) == {h \in Kept : k \in ended[h]}
           retained == {i \in Id : jobs'[i] # Jobs!NoJob /\ Over(jobs'[i])}
           rank     == [i \in retained |-> Cardinality(Later(jobs[i]))]
<1>1. state' = state /\ jobs' = [i \in Id |-> IF jobs[i] \in Jobs!Stale(jobs) THEN Jobs!NoJob ELSE jobs[i]]
    BY DEF Jobs!Prune
<1>2. IsFiniteSet(Kept)
  <2>1. IsFiniteSet(1..MaxStarts)
    BY BoundsAssumption, FS_Interval
  <2>. QED
    BY <2>1, FS_Subset DEF Jobs!Job
<1>3. ASSUME NEW k PROVE IsFiniteSet(Later(k)) /\ Cardinality(Later(k)) \in Nat
  <2>1. Later(k) \in SUBSET Kept
    OBVIOUS
  <2> HIDE DEF Later, Kept
  <2>. QED
    BY <1>2, <2>1, FS_Subset, FS_CardinalityType
<1>4. Jobs!Stale(jobs) = {k \in Kept : Cardinality(Later(k)) >= MaxTerminal}
  <2>1. \A k : {h \in Kept : k \in ended[h]} = Later(k)
    OBVIOUS
  <2>2. Kept = {k \in Jobs!Job : state[k].status \in Jobs!Terminal /\ jobs[state[k].id] = k}
    BY DEF Over
  <2>3. Jobs!Stale(jobs) = {k \in Kept : Jobs!Cardinality({h \in Kept : k \in ended[h]}) >= MaxTerminal}
    BY <2>2 DEF Jobs!Stale
  <2> HIDE DEF Later, Kept
  <2>4. \A k : Jobs!Cardinality({h \in Kept : k \in ended[h]}) = Cardinality(Later(k))
    BY <2>1, JobCounts, Zenon
  <2>. QED
    BY <2>3, <2>4
<1>5. ASSUME NEW i \in retained
      PROVE  /\ jobs[i] \in Kept /\ state[jobs[i]].id = i
             /\ Cardinality(Later(jobs[i])) \in 0..MaxTerminal - 1
  <2>1. jobs[i] # Jobs!NoJob /\ jobs[i] \notin Jobs!Stale(jobs) /\ Over(jobs[i])
    BY <1>1
  <2>2. jobs[i] \in Jobs!Job /\ state[jobs[i]].id = i
    BY <2>1 DEF JobInv, JobTypes, JobBegun, Entered
  <2>3. jobs[i] \in Kept
    BY <2>1, <2>2
  <2>4. ~(Cardinality(Later(jobs[i])) >= MaxTerminal)
    BY <1>4, <2>1, <2>3
  <2> HIDE DEF Later, Kept
  <2>. QED
    BY <1>3, <2>2, <2>3, <2>4, BoundsAssumption
<1>6. ASSUME NEW h \in Kept, NEW k \in Kept, h \in ended[k]
      PROVE  Cardinality(Later(k)) < Cardinality(Later(h))
  <2>1. k \in Later(h) /\ k \notin Later(k)
    BY <1>6 DEF OverInv, EndsOrdered
  <2>2. Later(k) \in SUBSET Later(h)
    BY <1>6 DEF OverInv, EndsOrdered
  <2> HIDE DEF Later, Kept
  <2>3. Cardinality(Later(k)) <= Cardinality(Later(h)) /\ Cardinality(Later(k)) # Cardinality(Later(h))
    BY <1>3, <2>1, <2>2, FS_Subset
  <2>. QED
    BY <1>3, <2>3
<1>7. rank \in Injection(retained, 0..MaxTerminal - 1)
  <2>1. rank \in [retained -> 0..MaxTerminal - 1]
    BY <1>5
  <2>2. ASSUME NEW g \in retained, NEW i \in retained, g # i PROVE rank[g] # rank[i]
    <3>1. jobs[g] \in Kept /\ jobs[i] \in Kept /\ jobs[g] # jobs[i]
      <4> HIDE DEF Later, Kept, retained, rank
      <4>1. jobs[g] \in Kept /\ state[jobs[g]].id = g
        BY <1>5, <2>2
      <4>2. jobs[i] \in Kept /\ state[jobs[i]].id = i
        BY <1>5, <2>2
      <4>. QED
        BY <2>2, <4>1, <4>2
    <3>2. jobs[g] \in ended[jobs[i]] \/ jobs[i] \in ended[jobs[g]]
      BY <3>1 DEF OverInv, EndsOrdered
    <3> HIDE DEF Later, Kept, retained
    <3>3. Cardinality(Later(jobs[g])) # Cardinality(Later(jobs[i]))
      BY <1>3, <1>6, <3>1, <3>2
    <3>. QED
      BY <3>3
  <2> HIDE DEF rank, retained
  <2>. QED
    BY <2>1, <2>2 DEF Injection, IsInjective
<1>8. Cardinality(retained) <= MaxTerminal
  <2> HIDE DEF rank, retained
  <2>1. IsFiniteSet(0..MaxTerminal - 1) /\ Cardinality(0..MaxTerminal - 1) = MaxTerminal
    <3>1. 0 \in Int /\ MaxTerminal - 1 \in Int /\ MaxTerminal \in Nat
      BY BoundsAssumption
    <3>2. IsFiniteSet(0..MaxTerminal - 1)
          /\ Cardinality(0..MaxTerminal - 1) = IF 0 > MaxTerminal - 1 THEN 0 ELSE (MaxTerminal - 1) - 0 + 1
      BY <3>1, FS_Interval, Zenon
    <3>. QED
      BY <3>1, <3>2
  <2>. QED
    BY <1>7, <2>1, FS_Injection
<1>9. {i \in Id : jobs'[i] # Jobs!NoJob /\ state'[jobs'[i]].status \in Jobs!Terminal} = retained
    BY <1>1 DEF Over
<1>. QED
    BY <1>8, <1>9, JobCounts

\* Nothing ends and nothing that ended changes.
LEMMA EndsRest ==
    ASSUME JobInv, OverInv, ended' = ended,
           \A j \in Jobs!Job : /\ state'[j].status = state[j].status
                               /\ caller'[j] = "off" => caller[j] = "off"
                               /\ thread[j] \in {"last", "done"} => thread'[j] \in {"last", "done"}
                               /\ CutShort(j) => CutShort(j)'
    PROVE  OverInv' /\ \A j \in Jobs!Job : Jobs!EndIsFinal(j)
<1>1. \A j \in Jobs!Job : Over(j)' <=> Over(j)
    BY DEF Over
<1>2. EndsOrdered'
    BY <1>1 DEF OverInv, EndsOrdered
<1>3. JobsOver'
    BY <1>1 DEF OverInv, JobsOver
<1>. QED
    BY <1>2, <1>3 DEF OverInv, Jobs!EndIsFinal

\* One job gets another status: it is the latest end, or not over and out of the order.
LEMMA EndsChange ==
    ASSUME JobInv, OverInv, NEW j \in Jobs!Job, NEW status \in JobStatus,
           \A k \in Jobs!Job : state'[k].status = IF k = j THEN status ELSE state[k].status,
           \A k \in Jobs!Job : /\ k # j => (caller'[k] = "off" => caller[k] = "off")
                               /\ thread[k] \in {"last", "done"} => thread'[k] \in {"last", "done"}
                               /\ CutShort(k) => CutShort(k)',
           caller'[j] # "off",
           \/ /\ status \in Jobs!Terminal
              /\ ended' = [k \in Jobs!Job |->
                              IF k = j THEN {i \in Jobs!Job \ {j} : state[i].status \in Jobs!Terminal}
                              ELSE ended[k] \ {j}]
              /\ thread'[j] = "last" \/ CutShort(j)'
           \/ /\ status \notin Jobs!Terminal
              /\ ended' = [k \in Jobs!Job |-> IF k = j THEN {} ELSE ended[k] \ {j}],
           Over(j) /\ status # state[j].status =>
               \E c \in Canceller : cancel[c].job = j /\ cancel[c].pc \in {"drop", "dropped"}
    PROVE  OverInv' /\ \A k \in Jobs!Job : Jobs!EndIsFinal(k)
<1>1. \A k \in Jobs!Job : Over(k)' <=> IF k = j THEN status \in Jobs!Terminal ELSE Over(k)
    BY DEF Over
<1>2. ended \in [Jobs!Job -> SUBSET Jobs!Job]
    BY DEF OverInv, EndsOrdered
<1>3. ended' \in [Jobs!Job -> SUBSET Jobs!Job]
    BY <1>2
<1>4. \A k \in Jobs!Job \ {j} : ended'[k] = ended[k] \ {j}
    BY <1>2
<1>5. ended'[j] = IF status \in Jobs!Terminal THEN {i \in Jobs!Job \ {j} : Over(i)} ELSE {}
    BY DEF Over
<1>6. EndsOrdered'
  <2>1. \A h, k \in Jobs!Job : h \in ended'[k] => h # k /\ Over(h)' /\ Over(k)' /\ k \notin ended'[h]
    BY <1>1, <1>4, <1>5 DEF OverInv, EndsOrdered
  <2>2. \A h, k \in Jobs!Job : h # k /\ Over(h)' /\ Over(k)' => h \in ended'[k] \/ k \in ended'[h]
    BY <1>1, <1>4, <1>5 DEF OverInv, EndsOrdered
  <2>3. \A i, h, k \in Jobs!Job : i \in ended'[h] /\ h \in ended'[k] => i \in ended'[k]
    BY <1>1, <1>4, <1>5 DEF OverInv, EndsOrdered
  <2>. QED
    BY <1>3, <2>1, <2>2, <2>3 DEF EndsOrdered
<1>7. JobsOver'
    BY <1>1 DEF OverInv, JobsOver
<1>8. ASSUME NEW k \in Jobs!Job PROVE Jobs!EndIsFinal(k)
    BY DEF Jobs!EndIsFinal, Over
<1>. QED
    BY <1>6, <1>7, <1>8 DEF OverInv

LEMMA JobsAreOver == Jobs!Init => OverInv
BY DEF Jobs!Init, OverInv, EndsOrdered, JobsOver, Over, Jobs!Terminal

LEMMA JobOverSteps ==
    ASSUME JobInv, OverInv, [Jobs!Next]_(Jobs!vars)
    PROVE  OverInv' /\ Jobs!JobsStayEnded
<1>0. /\ state \in [Jobs!Job -> JobState] /\ thread \in [Jobs!Job -> ThreadPc]
      /\ caller \in [Jobs!Job -> {"off", "registered", "listed", "marked", "back"}]
      /\ cancel \in [Canceller -> [job : Jobs!Job \cup {Jobs!NoJob},
                                   pc : {"idle", "drop", "stop", "dropped", "done"}]]
      /\ \A j \in Jobs!Job : BegunAt(j)
      /\ \A c \in Canceller : Aimed(c)
    BY DEF JobInv, JobTypes, JobBegun
<1>1. ASSUME UNCHANGED <<state, caller, cancel, ended>>,
             \A j \in Jobs!Job : thread[j] \in {"last", "done"} => thread'[j] = thread[j]
      PROVE  OverInv' /\ Jobs!JobsStayEnded
  <2>1. OverInv' /\ \A j \in Jobs!Job : Jobs!EndIsFinal(j)
    BY <1>1, EndsRest DEF CutShort
  <2>2. \A j \in Jobs!Job : Jobs!EndsPruned(j)
    BY <1>1 DEF Jobs!EndsPruned
  <2>. QED
    BY <2>1, <2>2 DEF Jobs!JobsStayEnded
<1>2. ASSUME NEW i \in Id, Jobs!Register(i) PROVE OverInv' /\ Jobs!JobsStayEnded
  <2> DEFINE j == started + 1
  <2>1. j \in Jobs!Job /\ ~Over(j)
    <3>1. j \in Jobs!Job /\ j > started
      BY <1>2, BoundsAssumption DEF Jobs!Register, Jobs!Job, JobInv, JobTypes
    <3>2. caller[j] = "off"
      BY <1>0, <3>1 DEF BegunAt, JobInv, JobTypes, Jobs!Job
    <3>. QED
      BY <3>1, <3>2 DEF OverInv, JobsOver
  <2>2. /\ state' = [state EXCEPT ![j] = [id |-> i, status |-> "pending", stop |-> FALSE]]
        /\ caller' = [caller EXCEPT ![j] = "registered"]
        /\ UNCHANGED <<thread, cancel, ended>>
    BY <1>2 DEF Jobs!Register
  <2> HIDE DEF j
  <2>3. /\ \A k \in Jobs!Job : state'[k].status = IF k = j THEN "pending" ELSE state[k].status
        /\ \A k \in Jobs!Job : caller'[k] = IF k = j THEN "registered" ELSE caller[k]
    BY <1>0, <2>1, <2>2
  <2>4. ended' = [k \in Jobs!Job |-> IF k = j THEN {} ELSE ended[k] \ {j}]
    <3>1. ended \in [Jobs!Job -> SUBSET Jobs!Job] /\ \A k \in Jobs!Job : j \notin ended[k] /\ k \notin ended[j]
      BY <2>1 DEF OverInv, EndsOrdered
    <3>2. \A k \in Jobs!Job : ended[k] = IF k = j THEN {} ELSE ended[k] \ {j}
      BY <3>1
    <3>. QED
      BY <2>2, <3>1, <3>2
  <2>5. \A k \in Jobs!Job : CutShort(k) => CutShort(k)'
    BY <2>2 DEF CutShort
  <2>6. "pending" \in JobStatus /\ "pending" \notin Jobs!Terminal /\ caller'[j] # "off"
        /\ \A k \in Jobs!Job : k # j => (caller'[k] = "off" => caller[k] = "off")
    BY <2>1, <2>3 DEF JobStatus, Jobs!Live, Jobs!Terminal
  <2>7. OverInv' /\ \A k \in Jobs!Job : Jobs!EndIsFinal(k)
    BY <2>1, <2>2, <2>3, <2>4, <2>5, <2>6, EndsChange
  <2>8. \A k \in Jobs!Job : Jobs!EndsPruned(k)
    BY <2>2 DEF Jobs!EndsPruned
  <2>. QED
    BY <2>7, <2>8 DEF Jobs!JobsStayEnded
<1>3. ASSUME NEW j \in Jobs!Job, Jobs!List(j) \/ Jobs!StartThread(j) PROVE OverInv' /\ Jobs!JobsStayEnded
  <2>1. /\ UNCHANGED <<state, cancel, ended>>
        /\ \A k \in Jobs!Job : caller'[k] = "off" => caller[k] = "off"
        /\ \A k \in Jobs!Job : thread[k] \in {"last", "done"} => thread'[k] = thread[k]
    BY <1>0, <1>3 DEF Jobs!List, Jobs!StartThread, BegunAt
  <2>2. OverInv' /\ \A k \in Jobs!Job : Jobs!EndIsFinal(k)
    BY <2>1, EndsRest DEF CutShort
  <2>3. \A k \in Jobs!Job : Jobs!EndsPruned(k)
    BY <2>1 DEF Jobs!EndsPruned
  <2>. QED
    BY <2>2, <2>3 DEF Jobs!JobsStayEnded
<1>4. ASSUME NEW j \in Jobs!Job, Jobs!Lookup(j) \/ Jobs!Leave(j) PROVE OverInv' /\ Jobs!JobsStayEnded
  <2>1. UNCHANGED <<state, caller, cancel, ended>>
        /\ \A k \in Jobs!Job : thread[k] \in {"last", "done"} => thread'[k] = thread[k]
    BY <1>0, <1>4 DEF Jobs!Lookup, Jobs!Leave
  <2>. QED
    BY <1>1, <2>1
<1>5. ASSUME NEW j \in Jobs!Job, Jobs!MarkRunning(j) PROVE OverInv' /\ Jobs!JobsStayEnded
  <2>1. /\ state' = [state EXCEPT ![j].status = "running"]
        /\ ended' = [k \in Jobs!Job |-> IF k = j THEN {} ELSE ended[k] \ {j}]
        /\ caller[j] = "listed" /\ caller' = [caller EXCEPT ![j] = "marked"]
        /\ UNCHANGED <<thread, cancel>>
    BY <1>5 DEF Jobs!MarkRunning
  <2>2. thread[j] = "off"
    BY <1>0, <2>1 DEF BegunAt
  <2>3. /\ \A k \in Jobs!Job : state'[k].status = IF k = j THEN "running" ELSE state[k].status
        /\ \A k \in Jobs!Job : caller'[k] = IF k = j THEN "marked" ELSE caller[k]
    BY <1>0, <2>1 DEF JobState
  <2>4. \A k \in Jobs!Job : CutShort(k) => CutShort(k)'
    BY <2>1 DEF CutShort
  <2>5. Over(j) => \E c \in Canceller : cancel[c].job = j /\ cancel[c].pc \in {"drop", "dropped"}
    BY <2>2 DEF OverInv, JobsOver, CutShort
  <2>6. "running" \in JobStatus /\ "running" \notin Jobs!Terminal /\ caller'[j] # "off"
        /\ \A k \in Jobs!Job : k # j => (caller'[k] = "off" => caller[k] = "off")
    BY <2>3 DEF JobStatus, Jobs!Live, Jobs!Terminal
  <2>7. OverInv' /\ \A k \in Jobs!Job : Jobs!EndIsFinal(k)
    BY <2>1, <2>3, <2>4, <2>5, <2>6, EndsChange
  <2>8. \A k \in Jobs!Job : Jobs!EndsPruned(k)
    BY <2>1 DEF Jobs!EndsPruned
  <2>. QED
    BY <2>7, <2>8 DEF Jobs!JobsStayEnded
<1>6. ASSUME NEW j \in Jobs!Job, NEW status \in Jobs!Terminal, Jobs!End(j, status),
             thread[j] \in {"returned", "raised", "complete", "fail"}, UNCHANGED <<caller, cancel>>
      PROVE  OverInv' /\ Jobs!JobsStayEnded
  <2>1. /\ \A k \in Jobs!Job : state'[k].status = IF k = j THEN status ELSE state[k].status
        /\ \A k \in Jobs!Job : thread'[k] = IF k = j THEN "last" ELSE thread[k]
        /\ ended' = [k \in Jobs!Job |->
                        IF k = j THEN {i \in Jobs!Job \ {j} : state[i].status \in Jobs!Terminal}
                        ELSE ended[k] \ {j}]
    BY <1>0, <1>6 DEF Jobs!End, Jobs!EndAs, JobState
  <2>2. caller'[j] # "off" /\ status \in JobStatus
    BY <1>0, <1>6 DEF BegunAt, JobStatus
  <2>3. \A k \in Jobs!Job : CutShort(k) => CutShort(k)'
    BY <1>6 DEF CutShort
  <2>4. Over(j) => \E c \in Canceller : cancel[c].job = j /\ cancel[c].pc \in {"drop", "dropped"}
    BY <1>6 DEF OverInv, JobsOver, CutShort
  <2>5. OverInv' /\ \A k \in Jobs!Job : Jobs!EndIsFinal(k)
    BY <1>6, <2>1, <2>2, <2>3, <2>4, EndsChange
  <2>6. \A k \in Jobs!Job : Jobs!EndsPruned(k)
    BY <2>1 DEF Jobs!EndsPruned
  <2>. QED
    BY <2>5, <2>6 DEF Jobs!JobsStayEnded
<1>7. ASSUME NEW j \in Jobs!Job, Jobs!ReadStop(j) PROVE OverInv' /\ Jobs!JobsStayEnded
  <2>1. CASE state[j].stop
    BY <1>6, <1>7, <2>1 DEF Jobs!ReadStop, Jobs!Terminal
  <2>2. CASE ~state[j].stop
    <3>1. UNCHANGED <<state, caller, cancel, ended>>
          /\ \A k \in Jobs!Job : thread[k] \in {"last", "done"} => thread'[k] = thread[k]
      BY <1>0, <1>7, <2>2 DEF Jobs!ReadStop
    <3>. QED
      BY <1>1, <3>1
  <2>. QED
    BY <2>1, <2>2
<1>8. ASSUME NEW j \in Jobs!Job, Jobs!Finish(j) PROVE OverInv' /\ Jobs!JobsStayEnded
    BY <1>6, <1>8 DEF Jobs!Finish, Jobs!Terminal
<1>9. ASSUME NEW j \in Jobs!Job, Jobs!Prune(j) PROVE OverInv' /\ Jobs!JobsStayEnded
  <2>1. UNCHANGED <<state, caller, cancel, ended>> /\ thread' = [thread EXCEPT ![j] = "done"]
    BY <1>9 DEF Jobs!Prune
  <2>2. OverInv' /\ \A k \in Jobs!Job : Jobs!EndIsFinal(k)
    BY <1>0, <2>1, EndsRest DEF CutShort
  <2>3. \A k \in Jobs!Job : Jobs!EndsPruned(k)
    BY <1>9, RetainedAreFew DEF Jobs!EndsPruned
  <2>. QED
    BY <2>2, <2>3 DEF Jobs!JobsStayEnded
<1>10. ASSUME NEW c \in Canceller, NEW i \in Id, Jobs!Decide(c, i) PROVE OverInv' /\ Jobs!JobsStayEnded
  <2>1. /\ UNCHANGED <<state, caller, thread, ended>>
        /\ \A d \in Canceller : cancel[d].pc = "dropped" => cancel'[d] = cancel[d]
    BY <1>0, <1>10 DEF Jobs!Decide
  <2>2. OverInv' /\ \A k \in Jobs!Job : Jobs!EndIsFinal(k)
    BY <2>1, EndsRest DEF CutShort
  <2>3. \A k \in Jobs!Job : Jobs!EndsPruned(k)
    BY <2>1 DEF Jobs!EndsPruned
  <2>. QED
    BY <2>2, <2>3 DEF Jobs!JobsStayEnded
<1>11. ASSUME NEW c \in Canceller, Jobs!Apply(c) PROVE OverInv' /\ Jobs!JobsStayEnded
  <2>0. PICK j \in Jobs!Job : j = cancel[c].job
    BY <1>0, <1>11 DEF Aimed, Jobs!Apply
  <2>1. j = cancel[c].job /\ caller[j] # "off" /\ cancel[c].pc \in {"drop", "stop"}
    BY <1>0, <1>11, <2>0 DEF Aimed, Jobs!Apply
  <2>2. /\ UNCHANGED <<caller, thread>>
        /\ cancel' = [cancel EXCEPT ![c].pc = IF @ = "drop" THEN "dropped" ELSE "done"]
    BY <1>11 DEF Jobs!Apply
  <2>3. \A k \in Jobs!Job : CutShort(k) => CutShort(k)'
    BY <1>0, <2>1, <2>2 DEF CutShort
  <2>4. \A k \in Jobs!Job : Jobs!EndsPruned(k)
    BY <2>2 DEF Jobs!EndsPruned
  <2>5. CASE cancel[c].pc = "drop"
    <3>1. /\ \A k \in Jobs!Job : state'[k].status = IF k = j THEN "cancelled" ELSE state[k].status
          /\ ended' = [k \in Jobs!Job |->
                          IF k = j THEN {i \in Jobs!Job \ {j} : state[i].status \in Jobs!Terminal}
                          ELSE ended[k] \ {j}]
      <4>1. Jobs!EndAs(j, "cancelled", TRUE)
        BY <1>11, <2>1, <2>5 DEF Jobs!Apply
      <4>. QED
        BY <1>0, <2>1, <4>1 DEF Jobs!EndAs, JobState
    <3>2. CutShort(j)'
      BY <1>0, <2>1, <2>2, <2>5 DEF CutShort
    <3>3. \E d \in Canceller : cancel[d].job = j /\ cancel[d].pc \in {"drop", "dropped"}
      BY <2>1, <2>5
    <3>4. "cancelled" \in JobStatus /\ "cancelled" \in Jobs!Terminal /\ caller'[j] # "off"
          /\ caller' = caller /\ thread' = thread
      BY <2>1, <2>2 DEF JobStatus, Jobs!Terminal
    <3>5. OverInv' /\ \A k \in Jobs!Job : Jobs!EndIsFinal(k)
      BY <2>3, <3>1, <3>2, <3>3, <3>4, EndsChange
    <3>. QED
      BY <2>4, <3>5 DEF Jobs!JobsStayEnded
  <2>6. CASE cancel[c].pc = "stop"
    <3>1. ended' = ended /\ \A k \in Jobs!Job : state'[k].status = state[k].status
      BY <1>0, <1>11, <2>1, <2>6 DEF Jobs!Apply, JobState
    <3>2. OverInv' /\ \A k \in Jobs!Job : Jobs!EndIsFinal(k)
      BY <2>2, <2>3, <3>1, EndsRest
    <3>. QED
      BY <2>4, <3>2 DEF Jobs!JobsStayEnded
  <2>. QED
    BY <2>1, <2>5, <2>6
<1>12. CASE Jobs!Shutdown
  <2>1. UNCHANGED <<caller, thread, cancel, ended>>
    BY <1>12 DEF Jobs!Shutdown
  <2>2. \A k \in Jobs!Job : state'[k].status = state[k].status
    BY <1>0, <1>12 DEF Jobs!Shutdown, JobState
  <2>3. OverInv' /\ \A k \in Jobs!Job : Jobs!EndIsFinal(k)
    BY <2>1, <2>2, EndsRest DEF CutShort
  <2>4. \A k \in Jobs!Job : Jobs!EndsPruned(k)
    BY <2>1 DEF Jobs!EndsPruned
  <2>. QED
    BY <2>3, <2>4 DEF Jobs!JobsStayEnded
<1>13. CASE Jobs!Exit \/ Jobs!Rest \/ UNCHANGED Jobs!vars
    BY <1>1, <1>13 DEF Jobs!Exit, Jobs!Rest, Jobs!vars
<1>. QED
    BY <1>2, <1>3, <1>4, <1>5, <1>7, <1>8, <1>9, <1>10, <1>11, <1>12, <1>13 DEF Jobs!Next
------------------------------------------------------------------------------
(* What has ended: migration.py *)

\* The transaction has the schema of the file, or one of a later revision.
Grown(p) ==
    process[p].pc \in {"upgrade", "verify"} =>
        \E b \in 0..MaxHead :
            /\ Migrated(database, b)
            /\ process[p].schema = database \/ \E c \in b + 1..MaxHead : Migrated(process[p].schema, c)

LEMMA MigratedIsOne ==
    ASSUME NEW schema, NEW b \in Nat, NEW c \in Nat, Migrated(schema, b), Migrated(schema, c)
    PROVE  b = c
BY BoundsAssumption DEF Migrated, Schema!Revision

LEMMA GrownSteps ==
    ASSUME SchemaInv, \A p \in Process : Grown(p), [Schema!Next]_(Schema!vars)
    PROVE  (\A p \in Process : Grown(p)') /\ Schema!OnlyWholeSchemas
<1>0. /\ \A p \in Process : SchemaAt(p) /\ process[p] \in [pc : SchemaPc, schema : Schema!Schema]
                            /\ head[p] \in Nat \ {0} /\ head[p] <= MaxHead
      /\ process \in [Process -> [pc : SchemaPc, schema : Schema!Schema]]
      /\ MaxHead \in Nat
    BY BoundsAssumption DEF SchemaInv, SchemaTypes, Schema!Revision
<1>1. ASSUME NEW p \in Process, \A o \in Process \ {p} : process'[o] = process[o],
             database' = database, Grown(p)'
      PROVE  (\A o \in Process : Grown(o)') /\ Schema!OnlyWholeSchemas
  <2>1. ASSUME NEW o \in Process \ {p} PROVE Grown(o)'
    BY <1>1 DEF Grown, Migrated
  <2>. QED
    BY <1>1, <2>1 DEF Schema!OnlyWholeSchemas
<1>2. ASSUME NEW p \in Process, \A o \in Process \ {p} : process'[o] = process[o],
             database' = database, process'[p].pc \notin {"upgrade", "verify"}
      PROVE  (\A o \in Process : Grown(o)') /\ Schema!OnlyWholeSchemas
    BY <1>1, <1>2 DEF Grown
<1>3. ASSUME NEW p \in Process, Schema!Refuse(p)
      PROVE  (\A o \in Process : Grown(o)') /\ Schema!OnlyWholeSchemas
    BY <1>0, <1>2, <1>3 DEF Schema!Refuse
<1>4. ASSUME NEW p \in Process,
             Schema!Wait(p) \/ Schema!TimeOut(p) \/ Schema!Acquire(p) \/ Schema!Crash(p)
      PROVE  (\A o \in Process : Grown(o)') /\ Schema!OnlyWholeSchemas
    BY <1>0, <1>2, <1>4 DEF Schema!Wait, Schema!TimeOut, Schema!Acquire, Schema!Crash, Schema!Go
<1>5. ASSUME NEW p \in Process, Schema!Check(p)
      PROVE  (\A o \in Process : Grown(o)') /\ Schema!OnlyWholeSchemas
  <2>1. process[p].schema = database
    BY <1>0, <1>5 DEF SchemaAt, Schema!Check, Schema!At
  <2>2. CASE Schema!Acceptable(process[p].schema, head[p])
    <3>1. /\ \A o \in Process \ {p} : process'[o] = process[o]
          /\ process'[p].schema = database /\ database' = database
      BY <1>0, <1>5, <2>1, <2>2 DEF Schema!Check, Schema!Go
    <3>2. PICK b \in 0..head[p] : Migrated(database, b)
      BY <2>1, <2>2, AcceptableIsMigrated
    <3>3. b \in 0..MaxHead
      BY <1>0
    <3>4. Grown(p)'
      BY <3>1, <3>2, <3>3 DEF Grown, Migrated
    <3>. QED
      BY <1>1, <3>1, <3>4
  <2>. QED
    BY <1>3, <1>5, <2>2 DEF Schema!Check
<1>6. ASSUME NEW p \in Process, Schema!Upgrade(p)
      PROVE  (\A o \in Process : Grown(o)') /\ Schema!OnlyWholeSchemas
  <2> DEFINE schema == process[p].schema
             next   == Schema!Current(schema) + 1
  <2>1. process[p].pc = "upgrade"
    BY <1>6 DEF Schema!Upgrade, Schema!At
  <2>2. PICK c \in 0..head[p] : Migrated(schema, c)
    BY <1>0, <2>1 DEF SchemaAt
  <2>3. PICK b \in 0..MaxHead :
            /\ Migrated(database, b)
            /\ schema = database \/ \E d \in b + 1..MaxHead : Migrated(schema, d)
    BY <2>1 DEF Grown
  <2>4. next = c + 1
    BY <1>0, <2>2 DEF Migrated, Schema!Current, Schema!Revision
  <2>5. b <= c
    BY <1>0, <2>2, <2>3, MigratedIsOne
  <2> HIDE DEF next
  <2>6. CASE next <= head[p] /\ next \notin schema.tables
             /\ process' = [process EXCEPT ![p].schema =
                   [revisions |-> {next}, tables |-> schema.tables \cup {next}]]
             /\ UNCHANGED <<database, head, lock>>
    <3>1. /\ \A o \in Process \ {p} : process'[o] = process[o]
          /\ process'[p].schema = [revisions |-> {next}, tables |-> schema.tables \cup {next}]
      BY <1>0, <2>6
    <3>2. next \in Schema!Revision /\ next \in b + 1..MaxHead /\ schema.tables \subseteq 1..next
      <4>1. c \in Nat /\ next \in 1..MaxHead /\ next \in b + 1..MaxHead
        BY <1>0, <2>2, <2>4, <2>5, <2>6
      <4>2. 1..c \subseteq 1..next
        BY <4>1, <2>4
      <4>3. schema.tables \subseteq 1..c
        BY <2>2 DEF Migrated
      <4>. QED
        BY <4>1, <4>2, <4>3 DEF Schema!Revision
    <3>3. Migrated(process'[p].schema, next)
      BY <3>1, <3>2 DEF Migrated, Schema!Revision
    <3>4. Migrated(database', b)
      BY <2>3, <2>6
    <3>5. Grown(p)'
      BY <3>2, <3>3, <3>4 DEF Grown, Migrated
    <3>. QED
      BY <1>1, <2>6, <3>1, <3>5
  <2>7. CASE next > head[p] /\ Schema!Go(p, "verify") /\ UNCHANGED <<database, head, lock>>
    <3>1. /\ \A o \in Process \ {p} : process'[o] = process[o]
          /\ process'[p].schema = schema
      BY <1>0, <2>7 DEF Schema!Go
    <3>2. Grown(p)'
      BY <2>3, <2>7, <3>1 DEF Grown, Migrated
    <3>. QED
      BY <1>1, <2>7, <3>1, <3>2
  <2>. QED
    BY <1>3, <1>6, <2>6, <2>7 DEF Schema!Upgrade, next
<1>7. ASSUME NEW p \in Process, Schema!Commit(p)
      PROVE  (\A o \in Process : Grown(o)') /\ Schema!OnlyWholeSchemas
  <2> DEFINE schema == process[p].schema
  <2>1. lock = p /\ process[p].pc = "verify"
    BY <1>0, <1>7 DEF SchemaAt, Schema!Commit, Schema!At
  <2>2. CASE 1..head[p] \subseteq schema.tables
    <3>1. /\ \A o \in Process \ {p} : process'[o] = process[o]
          /\ process'[p].pc = "ready" /\ database' = schema
      BY <1>0, <1>7, <2>2 DEF Schema!Commit, Schema!Go
    <3>2. ASSUME NEW o \in Process PROVE process'[o].pc \notin {"upgrade", "verify"}
      BY <1>0, <2>1, <3>1 DEF SchemaAt
    <3>3. Migrated(schema, head[p])
      BY <1>0, <2>1 DEF SchemaAt
    <3>4. PICK b \in 0..MaxHead :
              /\ Migrated(database, b)
              /\ schema = database \/ \E d \in b + 1..MaxHead : Migrated(schema, d)
      BY <2>1 DEF Grown
    <3>5. schema # database => head[p] > b
      BY <1>0, <3>3, <3>4, MigratedIsOne
    <3>6. Schema!Complete(schema, head[p]) /\ head[p] \in Schema!Revision
      BY <1>0, <2>2, <3>3 DEF Migrated, Schema!Complete, Schema!Revision
    <3>7. Schema!Current(database) = b /\ database.revisions \subseteq Schema!Revision
      BY <1>0, <3>4 DEF Migrated, Schema!Current, Schema!Revision
    <3>8. Schema!Cardinality(database.revisions) <= 1
      <4>1. database.revisions = {} \/ database.revisions = {b}
        BY <3>4 DEF Migrated
      <4>2. Cardinality(database.revisions) \in {0, 1}
        BY <4>1, FS_EmptySet, FS_Singleton
      <4>. QED
        BY <4>2, SchemaCounts
    <3>9. Schema!OnlyWholeSchemas
      BY <3>1, <3>5, <3>6, <3>7, <3>8 DEF Schema!OnlyWholeSchemas
    <3>. QED
      BY <3>2, <3>9 DEF Grown
  <2>. QED
    BY <1>3, <1>7, <2>2 DEF Schema!Commit
<1>8. CASE UNCHANGED Schema!vars
    BY <1>8 DEF Schema!vars, Grown, Migrated, Schema!OnlyWholeSchemas
<1>. QED
    BY <1>4, <1>5, <1>6, <1>7, <1>8 DEF Schema!Next
------------------------------------------------------------------------------
(* huggingface_downloads.py *)

DownloadPc    == {"new", "answered", "refused", "dead"}
                 \cup Downloads!Asking \cup Downloads!Working \cup Downloads!Ended
DownloadState == [pc : DownloadPc, revision : Downloads!Revision \cup {0}, file : 0..NFiles + 1,
                  stop : BOOLEAN, early : BOOLEAN, answered : BOOLEAN]
DirState      == [there : BOOLEAN, meta : {"none", "partial", "complete"},
                  revision : Downloads!Revision \cup {0},
                  files : [Downloads!File -> Downloads!Content]]

DownloadTypes ==
    /\ hub \in Downloads!Revision /\ dir \in DirState /\ overlap \in BOOLEAN
    /\ handles \in [Downloads!File -> SUBSET Downloads!Download]
    /\ download \in [Downloads!Download -> DownloadState]

\* A download holds the file open that it writes; one that was told in time to stop is
\* before its last look at the request, or has ended otherwise.
Heeds(d) ==
    /\ \A f \in Downloads!File : d \in handles[f] => download[d].pc = "write" /\ download[d].file = f
    /\ download[d].early =>
         /\ download[d].stop
         /\ download[d].pc \in {"file", "open", "write", "stop", "cancelled", "failed", "dead"}
    /\ download[d].pc \in {"file", "open", "write"} => download[d].file \in Downloads!File
    /\ download[d].pc \in {"reset", "describe", "start"} \cup Downloads!Working
         => download[d].revision \in Downloads!Revision

\* The files before the n-th are of the revision of the download.
Written(d, n) ==
    /\ dir.there /\ dir.meta = "partial" /\ dir.revision = download[d].revision
    /\ \A f \in Downloads!File : f < n => dir.files[f] = dir.revision

\* What a download has made of the directory when no other is past its check.
Progress(d) ==
    /\ download[d].pc \in {"manifest", "reset", "describe"} => ~Downloads!IsComplete
    /\ download[d].pc = "start" => Written(d, 1)
    /\ download[d].pc \in {"file", "open", "write"} => Written(d, download[d].file)
    /\ download[d].pc = "write" => /\ dir.files[download[d].file] = Downloads!Part
                                   /\ handles[download[d].file] = {d}
    /\ download[d].pc \in {"stop", "validate", "complete"} => Written(d, NFiles + 1)
    /\ download[d].pc = "clear" => Downloads!IsComplete

Whole == Downloads!IsComplete => \A f \in Downloads!File : dir.files[f] = dir.revision

Alone ==
    /\ \A d, e \in Downloads!Active : d = e
    /\ \A d \in Downloads!Active : Progress(d)
    /\ Whole

DownloadInv == DownloadTypes /\ (\A d \in Downloads!Download : Heeds(d)) /\ (~overlap => Alone)

LEMMA DownloadsStart == Downloads!Init => DownloadInv
<1> SUFFICES ASSUME Downloads!Init PROVE DownloadInv
    OBVIOUS
<1> USE HubAssumption DEF Downloads!Init, Downloads!NoDir
<1>1. DownloadTypes
  <2>1. hub \in Downloads!Revision /\ 0 \in Downloads!Content /\ overlap \in BOOLEAN
    <3>1. NRevisions \in Nat /\ 1 <= NRevisions /\ hub = 1
      OBVIOUS
    <3>2. hub \in Downloads!Revision /\ 0 \in Downloads!Content
      BY <3>1 DEF Downloads!Revision, Downloads!Content
    <3>3. overlap = FALSE
      OBVIOUS
    <3>. QED
      BY <3>2, <3>3, Zenon
  <2>2. dir \in DirState
    BY <2>1 DEF DirState, Downloads!Absent
  <2>3. download \in [Downloads!Download -> DownloadState]
    BY DEF DownloadState, DownloadPc
  <2>. QED
    BY <2>1, <2>2, <2>3 DEF DownloadTypes
<1>2. ASSUME NEW d \in Downloads!Download PROVE Heeds(d)
    BY DEF Heeds, Downloads!Working
<1>3. Downloads!Active = {}
    BY DEF Downloads!Active, Downloads!Asking, Downloads!Working
<1>4. ~Downloads!IsComplete
    BY DEF Downloads!IsComplete
<1>. QED
    BY <1>1, <1>2, <1>3, <1>4 DEF DownloadInv, Alone, Whole

LEMMA DownloadsAreTrue ==
    DownloadInv => Downloads!CompleteIsWhole /\ Downloads!CancelIsHeeded
BY DEF DownloadInv, Alone, Whole, Heeds, Downloads!CompleteIsWhole, Downloads!CancelIsHeeded

\* What a step keeps of a complete download.
Ends == Downloads!CompleteStays /\ Downloads!CompletedIsThere

\* A step of one download.  When the directory is its own the step keeps what it needs
\* there, and when the download is not past its check the step leaves the directory.
LEMMA DownloadMoves ==
    ASSUME DownloadInv, NEW d \in Downloads!Download,
           \A e \in Downloads!Download \ {d} : download'[e] = download[e],
           DownloadTypes', Heeds(d)', overlap => overlap',
           \A f \in Downloads!File : handles'[f] \subseteq handles[f] \cup {d},
           ~overlap' /\ d \in Downloads!Active' =>
               (d \in Downloads!Active \/ Downloads!Active = {}) /\ Progress(d)',
           ~overlap' /\ d \notin Downloads!Active => UNCHANGED <<dir, handles>>,
           ~overlap' => Whole',
           Downloads!IsComplete /\ ~overlap' => dir' = dir,
           download[d].pc = "clear" /\ download'[d].pc = "completed" /\ ~overlap => Downloads!IsComplete
    PROVE  DownloadInv' /\ Ends
<1>1. ASSUME NEW e \in Downloads!Download \ {d} PROVE Heeds(e)'
    BY <1>1 DEF DownloadInv, Heeds
<1>2. ASSUME ~overlap' PROVE Alone'
  <2>1. Alone
    BY <1>2 DEF DownloadInv
  <2>2. \A e \in Downloads!Download \ {d} : e \in Downloads!Active' <=> e \in Downloads!Active
    BY DEF Downloads!Active
  <2>3. \A e \in Downloads!Active' \ {d} : d \notin Downloads!Active /\ d \notin Downloads!Active'
    <3>1. Downloads!Active' \subseteq Downloads!Download
      BY DEF Downloads!Active
    <3>. QED
      BY <1>2, <2>1, <2>2, <3>1 DEF Alone
  <2>4. \A e, g \in Downloads!Active' : e = g
    <3>1. Downloads!Active' \subseteq Downloads!Download
      BY DEF Downloads!Active
    <3>. QED
      BY <2>1, <2>2, <2>3, <3>1 DEF Alone
  <2>5. ASSUME NEW e \in Downloads!Active' PROVE Progress(e)'
    <3>1. CASE e = d
      BY <1>2, <2>5, <3>1
    <3>2. CASE e # d
      <4>1. e \in Downloads!Active /\ UNCHANGED <<dir, handles>> /\ download'[e] = download[e]
        BY <1>2, <2>2, <2>3, <2>5, <3>2 DEF Downloads!Active
      <4>2. Progress(e)
        BY <2>1, <4>1 DEF Alone
      <4>. QED
        BY <4>1, <4>2 DEF Progress, Written, Downloads!IsComplete
    <3>. QED
      BY <3>1, <3>2
  <2>. QED
    BY <1>2, <2>4, <2>5 DEF Alone
<1>3. Ends
    BY DEF Ends, Downloads!CompleteStays, Downloads!CompletedIsThere, Downloads!At
<1>. QED
    BY <1>1, <1>2, <1>3 DEF DownloadInv

\* A step that only moves a download on, with its file and its revision.
LEMMA DownloadGoes ==
    ASSUME DownloadTypes, NEW d \in Downloads!Download, NEW pc \in DownloadPc, Downloads!Go(d, pc)
    PROVE  /\ download' \in [Downloads!Download -> DownloadState]
           /\ \A e \in Downloads!Download \ {d} : download'[e] = download[e]
           /\ download'[d] = [download[d] EXCEPT !.pc = pc]
           /\ download'[d].pc = pc /\ download'[d].file = download[d].file
           /\ download'[d].revision = download[d].revision
           /\ download'[d].stop = download[d].stop /\ download'[d].early = download[d].early
<1>1. download \in [Downloads!Download -> DownloadState]
    BY DEF DownloadTypes
<1>2. download[d] \in DownloadState
    BY <1>1
<1>3. [download[d] EXCEPT !.pc = pc] \in DownloadState
    BY <1>2 DEF DownloadState
<1>. QED
    BY <1>1, <1>2, <1>3 DEF Downloads!Go, DownloadState

\* The steps of the request that leave the directory: a check finds what is there or
\* sets out alone.
LEMMA DownloadAsks ==
    ASSUME DownloadInv, NEW d \in Downloads!Download,
           \/ Downloads!Ask(d) \/ Downloads!Check(d) \/ Downloads!Manifest(d)
           \/ Downloads!Announce(d) \/ Downloads!Cancel(d)
    PROVE  DownloadInv' /\ Ends
<1>0. DownloadTypes /\ Heeds(d) /\ download[d] \in DownloadState
      /\ download \in [Downloads!Download -> DownloadState]
    BY DEF DownloadInv, DownloadTypes
<1>1. UNCHANGED <<hub, dir, handles>>
    BY DEF Downloads!Ask, Downloads!Check, Downloads!Manifest, Downloads!Announce, Downloads!Cancel
<1>2. Whole' <=> Whole
    BY <1>1 DEF Whole, Downloads!IsComplete
<1>3. ASSUME NEW pc \in {"check", "answered", "refused"}, Downloads!Go(d, pc), overlap' = overlap,
             download[d].pc \in {"new", "check", "manifest"}
      PROVE  DownloadInv' /\ Ends
  <2>1. pc \in DownloadPc /\ pc \notin Downloads!Asking \ {"check"} /\ pc \notin Downloads!Working
    BY DEF DownloadPc, Downloads!Asking, Downloads!Working, Downloads!Ended
  <2>2. /\ download' \in [Downloads!Download -> DownloadState]
        /\ \A e \in Downloads!Download \ {d} : download'[e] = download[e]
        /\ download'[d].pc = pc /\ (download'[d].early = download[d].early)
    BY <1>0, <1>3, <2>1, DownloadGoes
  <2>3. DownloadTypes'
    BY <1>0, <1>1, <1>3, <2>2 DEF DownloadTypes
  <2>4. d \notin Downloads!Active'
    BY <2>1, <2>2 DEF Downloads!Active
  <2>5. Heeds(d)'
    BY <1>0, <1>1, <1>3, <2>2 DEF Heeds, Downloads!Working
  <2>. QED
    BY <1>1, <1>2, <1>3, <2>2, <2>3, <2>4, <2>5, DownloadMoves DEF DownloadInv, Alone
<1>4. CASE Downloads!Ask(d)
    BY <1>3, <1>4 DEF Downloads!Ask, Downloads!At
<1>5. CASE Downloads!Check(d)
  <2>1. CASE Downloads!IsComplete
    <3>1. overlap' = overlap
      BY <1>0, <1>5, <2>1, Zenon DEF Downloads!Check, DownloadTypes
    <3>. QED
      BY <1>3, <1>5, <2>1, <3>1 DEF Downloads!Check, Downloads!At
  <2>2. CASE ~Downloads!IsComplete
    <3>1. overlap' = (overlap \/ Downloads!Active # {})
      BY <1>0, <1>5, <2>2, Zenon DEF Downloads!Check, DownloadTypes
    <3>2. overlap' \in BOOLEAN /\ (overlap => overlap') /\ (~overlap' => ~overlap /\ Downloads!Active = {})
      BY <1>0, <3>1, Zenon DEF DownloadTypes
    <3>3. /\ download' \in [Downloads!Download -> DownloadState]
          /\ \A e \in Downloads!Download \ {d} : download'[e] = download[e]
          /\ download[d].pc = "check" /\ download'[d].pc = "manifest"
          /\ (download'[d].early = download[d].early)
      <4>1. Downloads!Go(d, "manifest") /\ "manifest" \in DownloadPc /\ download[d].pc = "check"
        BY <1>5, <2>2 DEF Downloads!Check, Downloads!At, DownloadPc, Downloads!Asking
      <4>. QED
        BY <1>0, <4>1, DownloadGoes
    <3>4. DownloadTypes'
      BY <1>0, <1>1, <3>2, <3>3 DEF DownloadTypes
    <3>5. Heeds(d)'
      BY <1>0, <1>1, <3>3 DEF Heeds, Downloads!Working
    <3>6. Progress(d)'
      BY <1>1, <2>2, <3>3 DEF Progress, Downloads!IsComplete
    <3>. QED
      BY <1>1, <1>2, <3>2, <3>3, <3>4, <3>5, <3>6, DownloadMoves DEF DownloadInv, Alone
  <2>. QED
    BY <2>1, <2>2
<1>6. CASE Downloads!Manifest(d)
  <2>1. CASE Downloads!Go(d, "refused")
    BY <1>3, <1>6, <2>1 DEF Downloads!Manifest, Downloads!At
  <2>2. CASE download' = [download EXCEPT ![d].pc = "reset", ![d].revision = hub]
    <3>1. download[d].pc = "manifest" /\ overlap' = overlap /\ hub \in Downloads!Revision
      BY <1>0, <1>6 DEF Downloads!Manifest, Downloads!At, DownloadTypes
    <3>2. /\ download' \in [Downloads!Download -> DownloadState]
          /\ \A e \in Downloads!Download \ {d} : download'[e] = download[e]
          /\ download'[d].pc = "reset" /\ download'[d].revision = hub
          /\ download'[d].early = download[d].early
      BY <1>0, <2>2, <3>1 DEF DownloadState, DownloadPc, Downloads!Asking
    <3>3. DownloadTypes'
      BY <1>0, <1>1, <3>1, <3>2 DEF DownloadTypes
    <3>4. Heeds(d)' /\ d \in Downloads!Active
      BY <1>0, <1>1, <3>1, <3>2 DEF Heeds, Downloads!Active, Downloads!Asking
    <3>5. ~overlap => Progress(d)'
      BY <1>1, <3>1, <3>2, <3>4 DEF DownloadInv, Alone, Progress, Downloads!IsComplete
    <3>. QED
      BY <1>1, <1>2, <3>1, <3>2, <3>3, <3>4, <3>5, DownloadMoves DEF DownloadInv, Alone
  <2>. QED
    BY <1>6, <2>1, <2>2 DEF Downloads!Manifest
<1>7. ASSUME download' \in [Downloads!Download -> DownloadState], overlap' = overlap,
             \A e \in Downloads!Download \ {d} : download'[e] = download[e],
             download'[d].pc = download[d].pc, download'[d].file = download[d].file,
             download'[d].revision = download[d].revision, Heeds(d)'
      PROVE  DownloadInv' /\ Ends
  <2>1. DownloadTypes'
    BY <1>0, <1>1, <1>7 DEF DownloadTypes
  <2>2. d \in Downloads!Active' <=> d \in Downloads!Active
    BY <1>7 DEF Downloads!Active
  <2>3. d \in Downloads!Active /\ ~overlap => Progress(d)'
    BY <1>1, <1>7 DEF DownloadInv, Alone, Progress, Written, Downloads!IsComplete
  <2>. QED
    BY <1>1, <1>2, <1>7, <2>1, <2>2, <2>3, DownloadMoves DEF DownloadInv, Alone
<1>8. CASE Downloads!Announce(d)
  <2>1. /\ download' \in [Downloads!Download -> DownloadState] /\ overlap' = overlap
        /\ \A e \in Downloads!Download \ {d} : download'[e] = download[e]
        /\ download'[d] = [download[d] EXCEPT !.answered = TRUE]
    BY <1>0, <1>8 DEF Downloads!Announce, DownloadState
  <2>2. /\ download'[d].pc = download[d].pc /\ download'[d].file = download[d].file
        /\ download'[d].revision = download[d].revision
        /\ download'[d].stop = download[d].stop /\ download'[d].early = download[d].early
    BY <1>0, <2>1 DEF DownloadState
  <2>3. Heeds(d)'
    BY <1>0, <1>1, <2>2 DEF Heeds
  <2>. QED
    BY <1>7, <2>1, <2>2, <2>3
<1>9. CASE Downloads!Cancel(d)
  <2> DEFINE soon == download[d].pc \in {"file", "open", "write", "stop"}
             early == download[d].early \/ soon
  <2>1. early \in BOOLEAN
    BY Zenon
  <2>2. download' = [download EXCEPT ![d].stop = TRUE, ![d].early = early] /\ overlap' = overlap
    BY <1>0, <1>9, Zenon DEF Downloads!Cancel, DownloadTypes
  <2>3. early => soon \/ download[d].early
    OBVIOUS
  <2> HIDE DEF early
  <2>4. /\ download' \in [Downloads!Download -> DownloadState]
        /\ \A e \in Downloads!Download \ {d} : download'[e] = download[e]
        /\ download'[d].pc = download[d].pc /\ download'[d].file = download[d].file
        /\ download'[d].revision = download[d].revision
        /\ download'[d].stop = TRUE /\ download'[d].early = early
    BY <1>0, <2>1, <2>2 DEF DownloadState
  <2>5. Heeds(d)'
    BY <1>0, <1>1, <2>3, <2>4 DEF Heeds
  <2>. QED
    BY <1>7, <2>2, <2>4, <2>5
<1>. QED
    BY <1>4, <1>5, <1>6, <1>8, <1>9

LEMMA RemovalsAreTyped ==
    ASSUME DownloadTypes, NEW new \in Downloads!Removals
    PROVE  /\ new \in DirState /\ new.meta = "none"
           /\ [new EXCEPT !.there = TRUE] \in DirState /\ [new EXCEPT !.there = TRUE].meta = "none"
           /\ [new EXCEPT !.there = TRUE].files = new.files
<1>1. Downloads!NoDir \in DirState /\ Downloads!NoDir.meta = "none"
  <2>1. 0 \in Downloads!Content
    BY HubAssumption DEF Downloads!Content
  <2>. QED
    BY <2>1 DEF Downloads!NoDir, DirState, Downloads!Absent
<1>2. ASSUME NEW left, new = [Downloads!NoDir EXCEPT !.there = TRUE,
                                 !.files = [f \in Downloads!File |-> IF f \in left THEN dir.files[f]
                                                                     ELSE Downloads!Absent]]
      PROVE  new \in DirState /\ new.meta = "none"
  <2>1. Downloads!Absent \in Downloads!Content
    BY HubAssumption DEF Downloads!Content, Downloads!Absent
  <2> DEFINE kept == [f \in Downloads!File |-> IF f \in left THEN dir.files[f] ELSE Downloads!Absent]
  <2>2. kept \in [Downloads!File -> Downloads!Content]
    BY <2>1 DEF DownloadTypes, DirState
  <2>3. new = [Downloads!NoDir EXCEPT !.there = TRUE, !.files = kept]
    BY <1>2
  <2> HIDE DEF kept
  <2>. QED
    BY <1>1, <2>2, <2>3 DEF DirState
<1>3. new \in DirState /\ new.meta = "none"
    BY <1>1, <1>2 DEF Downloads!Removals
<1>. QED
    BY <1>3 DEF DirState

\* The steps that make the directory anew, or remove it.
LEMMA DownloadResets ==
    ASSUME DownloadInv, NEW d \in Downloads!Download, Downloads!Reset(d) \/ Downloads!Stop(d)
    PROVE  DownloadInv' /\ Ends
<1>0. DownloadTypes /\ Heeds(d) /\ download \in [Downloads!Download -> DownloadState]
    BY DEF DownloadInv, DownloadTypes
<1>1. d \in Downloads!Active /\ UNCHANGED <<hub, overlap>>
    BY DEF Downloads!Reset, Downloads!Stop, Downloads!At, Downloads!Active, Downloads!Asking,
           Downloads!Working
<1>2. PICK new \in Downloads!Removals : dir' = IF download[d].pc = "reset" THEN [new EXCEPT !.there = TRUE]
                                               ELSE new
    BY DEF Downloads!Reset, Downloads!Stop, Downloads!At
<1>3. dir' \in DirState /\ dir'.meta = "none"
    BY <1>0, <1>2, RemovalsAreTyped
<1>4. ~Downloads!IsComplete'
    BY <1>3 DEF Downloads!IsComplete
<1>5. /\ handles' \in [Downloads!File -> SUBSET Downloads!Download]
      /\ \A f \in Downloads!File : handles'[f] \subseteq handles[f]
      /\ download[d].pc # "reset" => \A f \in Downloads!File : d \notin handles'[f]
    BY <1>0 DEF DownloadTypes, Downloads!Reset, Downloads!Stop, Downloads!RemoveTo, Downloads!Close,
                Downloads!At
<1>6. ~overlap => ~Downloads!IsComplete
    BY <1>1 DEF DownloadInv, Alone, Progress, Written, Downloads!Reset, Downloads!Stop, Downloads!At,
                Downloads!IsComplete
<1>7. PICK pc \in {"describe", "cancelled"} :
          Downloads!Go(d, pc) /\ (pc = "describe" <=> download[d].pc = "reset")
    BY DEF Downloads!Reset, Downloads!Stop, Downloads!At
<1>8. pc \in DownloadPc
    BY DEF DownloadPc, Downloads!Asking, Downloads!Ended
<1>9. /\ download' \in [Downloads!Download -> DownloadState]
      /\ \A e \in Downloads!Download \ {d} : download'[e] = download[e]
      /\ download'[d].pc = pc /\ download'[d].revision = download[d].revision
      /\ download'[d].stop = download[d].stop /\ download'[d].early = download[d].early
    BY <1>0, <1>7, <1>8, DownloadGoes
<1>10. DownloadTypes'
    BY <1>0, <1>1, <1>3, <1>5, <1>9 DEF DownloadTypes
<1>11. Heeds(d)'
    BY <1>0, <1>5, <1>7, <1>9 DEF Heeds, Downloads!Working
<1>12. Progress(d)'
    BY <1>4, <1>9 DEF Progress
<1>. QED
    BY <1>1, <1>4, <1>5, <1>6, <1>9, <1>10, <1>11, <1>12, DownloadMoves DEF Whole

\* The steps that describe the directory and make it, and the look at the request
\* before a file.
LEMMA DownloadPrepares ==
    ASSUME DownloadInv, NEW d \in Downloads!Download,
           Downloads!Describe(d) \/ Downloads!Start(d) \/ Downloads!BeginFile(d)
    PROVE  DownloadInv' /\ Ends
<1>0. DownloadTypes /\ Heeds(d) /\ download \in [Downloads!Download -> DownloadState]
      /\ dir \in DirState
    BY DEF DownloadInv, DownloadTypes
<1>1. d \in Downloads!Active /\ UNCHANGED <<hub, handles, overlap>>
    BY DEF Downloads!Describe, Downloads!Start, Downloads!BeginFile, Downloads!WriteMetadata,
           Downloads!At, Downloads!Active, Downloads!Asking, Downloads!Working
<1>2. CASE Downloads!Describe(d)
  <2>1. /\ download[d].pc = "describe" /\ Downloads!Go(d, "start") /\ "start" \in DownloadPc
        /\ dir' = [dir EXCEPT !.there = TRUE, !.meta = "partial", !.revision = download[d].revision]
    BY <1>2 DEF Downloads!Describe, Downloads!WriteMetadata, Downloads!At, DownloadPc, Downloads!Asking
  <2>2. /\ download' \in [Downloads!Download -> DownloadState]
        /\ \A e \in Downloads!Download \ {d} : download'[e] = download[e]
        /\ download'[d].pc = "start" /\ download'[d].revision = download[d].revision
        /\ download'[d].early = download[d].early
    BY <1>0, <2>1, DownloadGoes
  <2>3. download[d].revision \in Downloads!Revision
    BY <1>0, <2>1 DEF Heeds
  <2>4. /\ dir' \in DirState /\ dir'.there /\ dir'.meta = "partial"
        /\ dir'.revision = download[d].revision
    BY <1>0, <2>1, <2>3 DEF DirState
  <2>5. ~Downloads!IsComplete'
    BY <2>4 DEF Downloads!IsComplete
  <2>6. Progress(d)'
    <3>1. \A f \in Downloads!File : ~(f < 1)
      BY DEF Downloads!File
    <3>. QED
      BY <2>2, <2>4, <3>1 DEF Progress, Written
  <2>7. DownloadTypes'
    BY <1>0, <1>1, <2>2, <2>4 DEF DownloadTypes
  <2>8. Heeds(d)'
    BY <1>0, <1>1, <2>1, <2>2, <2>3 DEF Heeds
  <2>9. ~overlap => ~Downloads!IsComplete
    BY <1>1, <2>1 DEF DownloadInv, Alone, Progress
  <2>. QED
    BY <1>1, <2>1, <2>2, <2>5, <2>6, <2>7, <2>8, <2>9, DownloadMoves DEF Whole
<1>3. CASE Downloads!Start(d) \/ Downloads!BeginFile(d)
  <2>1. dir' = [dir EXCEPT !.there = TRUE] /\ download[d].pc \in {"start", "file"}
    BY <1>3 DEF Downloads!Start, Downloads!BeginFile, Downloads!At
  <2>2. dir' \in DirState
    BY <1>0, <2>1 DEF DirState
  <2>3. ASSUME ~overlap PROVE dir' = dir /\ Written(d, 1) /\ ~Downloads!IsComplete
        /\ (download[d].pc = "file" => Written(d, download[d].file))
    <3>1. Progress(d)
      BY <1>1, <2>3 DEF DownloadInv, Alone
    <3>2. \A f \in Downloads!File : ~(f < 1)
      BY DEF Downloads!File
    <3>3. Written(d, 1) /\ (download[d].pc = "file" => Written(d, download[d].file))
      BY <2>1, <3>1, <3>2 DEF Progress, Written
    <3>4. dir' = dir
      <4>1. dir.there = TRUE
        BY <1>0, <3>3 DEF Written, DirState
      <4>. QED
        BY <1>0, <2>1, <4>1 DEF DirState
    <3>. QED
      BY <3>3, <3>4 DEF Written, Downloads!IsComplete
  <2>4. /\ download' \in [Downloads!Download -> DownloadState]
        /\ \A e \in Downloads!Download \ {d} : download'[e] = download[e]
        /\ download'[d].revision = download[d].revision
        /\ download'[d].stop = download[d].stop /\ download'[d].early = download[d].early
        /\ \/ download[d].pc = "start" /\ download'[d].pc = "file" /\ download'[d].file = 1
           \/ download[d].pc = "file" /\ download'[d].pc = "open" /\ download'[d].file = download[d].file
    <3>1. CASE Downloads!Start(d)
      <4>1. download[d].pc = "start" /\ download' = [download EXCEPT ![d].pc = "file", ![d].file = 1]
        BY <3>1 DEF Downloads!Start, Downloads!At
      <4>2. 1 \in 0..NFiles + 1 /\ "file" \in DownloadPc
        BY HubAssumption DEF DownloadPc, Downloads!Working
      <4>3. download[d] \in DownloadState
        BY <1>0
      <4>. QED
        BY <1>0, <4>1, <4>2, <4>3 DEF DownloadState
    <3>2. CASE Downloads!BeginFile(d)
      <4>1. Downloads!Go(d, "open") /\ "open" \in DownloadPc /\ download[d].pc = "file"
        BY <3>2 DEF Downloads!BeginFile, Downloads!At, DownloadPc, Downloads!Working
      <4>. QED
        BY <1>0, <4>1, DownloadGoes
    <3>. QED
      BY <1>3, <3>1, <3>2
  <2>5. download'[d].file \in Downloads!File
    BY <1>0, <2>4, HubAssumption DEF Heeds, Downloads!File
  <2>6. DownloadTypes'
    BY <1>0, <1>1, <2>2, <2>4 DEF DownloadTypes
  <2>7. Heeds(d)'
    BY <1>0, <1>1, <2>4, <2>5 DEF Heeds, Downloads!Working
  <2>8. ASSUME ~overlap' PROVE Progress(d)' /\ Whole'
    <3>1. dir' = dir /\ Written(d, download'[d].file) /\ ~Downloads!IsComplete
      BY <1>1, <2>3, <2>4, <2>8
    <3>. QED
      BY <2>4, <3>1 DEF Progress, Written, Whole, Downloads!IsComplete
  <2>. QED
    BY <1>1, <2>3, <2>4, <2>6, <2>7, <2>8, DownloadMoves
<1>. QED
    BY <1>2, <1>3

\* The steps that write a file: it is opened cut short, and closed whole or by an error.
LEMMA DownloadWrites ==
    ASSUME DownloadInv, NEW d \in Downloads!Download,
           Downloads!Fail(d) \/ Downloads!Open(d) \/ Downloads!EndFile(d)
    PROVE  DownloadInv' /\ Ends
<1>0. DownloadTypes /\ Heeds(d) /\ download \in [Downloads!Download -> DownloadState]
      /\ download[d] \in DownloadState
      /\ dir \in DirState /\ handles \in [Downloads!File -> SUBSET Downloads!Download]
    BY DEF DownloadInv, DownloadTypes
<1>1. /\ d \in Downloads!Active /\ UNCHANGED <<hub, overlap>>
      /\ download[d].pc \in {"open", "write"} /\ download[d].file \in Downloads!File
      /\ download[d].revision \in Downloads!Revision
    BY <1>0 DEF Downloads!Fail, Downloads!Open, Downloads!EndFile, Downloads!At, Downloads!Active,
                Downloads!Working, Heeds
<1>2. ASSUME ~overlap PROVE Alone /\ Progress(d) /\ Written(d, download[d].file) /\ ~Downloads!IsComplete
    BY <1>1, <1>2 DEF DownloadInv, Alone, Progress, Written, Downloads!IsComplete
<1>3. CASE Downloads!Fail(d)
  <2>1. PICK pc \in {"cancelled", "failed"} : Downloads!Go(d, pc)
    BY <1>3 DEF Downloads!Fail
  <2>2. /\ dir' = dir
        /\ handles' \in [Downloads!File -> SUBSET Downloads!Download]
        /\ \A f \in Downloads!File : handles'[f] = handles[f] \ {d}
    BY <1>0, <1>3 DEF Downloads!Fail, Downloads!Close
  <2>3. pc \in DownloadPc /\ pc \notin Downloads!Asking /\ pc \notin Downloads!Working
    BY DEF DownloadPc, Downloads!Ended, Downloads!Asking, Downloads!Working
  <2>4. /\ download' \in [Downloads!Download -> DownloadState]
        /\ \A e \in Downloads!Download \ {d} : download'[e] = download[e]
        /\ download'[d].pc = pc
        /\ download'[d].stop = download[d].stop /\ download'[d].early = download[d].early
    BY <1>0, <2>1, <2>3, DownloadGoes
  <2>5. DownloadTypes'
    BY <1>0, <1>1, <2>2, <2>4 DEF DownloadTypes
  <2>6. Heeds(d)'
    BY <1>0, <2>2, <2>3, <2>4 DEF Heeds
  <2>7. d \notin Downloads!Active'
    BY <2>3, <2>4 DEF Downloads!Active
  <2>8. ~overlap' => Whole'
    BY <1>1, <1>2, <2>2 DEF Alone, Whole, Downloads!IsComplete
  <2>. QED
    BY <1>1, <2>2, <2>4, <2>5, <2>6, <2>7, <2>8, DownloadMoves
<1>4. CASE Downloads!Open(d)
  <2>0. PICK f \in Downloads!File : f = download[d].file
    BY <1>1
  <2>1. /\ download[d].pc = "open" /\ Downloads!Go(d, "write") /\ "write" \in DownloadPc
        /\ dir' = [dir EXCEPT !.files[f] = Downloads!Part]
        /\ handles' = [handles EXCEPT ![f] = @ \cup {d}]
    BY <1>4, <2>0 DEF Downloads!Open, Downloads!At, DownloadPc, Downloads!Working
  <2>2. Downloads!Part \in Downloads!Content
    BY HubAssumption DEF Downloads!Part, Downloads!Content
  <2>3. /\ dir' \in DirState /\ dir'.there = dir.there /\ dir'.meta = dir.meta
        /\ dir'.revision = dir.revision
        /\ \A g \in Downloads!File : dir'.files[g] = IF g = f THEN Downloads!Part ELSE dir.files[g]
    BY <1>0, <1>1, <2>1, <2>2 DEF DirState
  <2>4. /\ handles' \in [Downloads!File -> SUBSET Downloads!Download]
        /\ \A g \in Downloads!File : handles'[g] = IF g = f THEN handles[g] \cup {d} ELSE handles[g]
    BY <1>0, <1>1, <2>1
  <2>5. /\ download' \in [Downloads!Download -> DownloadState]
        /\ \A e \in Downloads!Download \ {d} : download'[e] = download[e]
        /\ download'[d].pc = "write" /\ download'[d].file = f
        /\ download'[d].revision = download[d].revision
        /\ download'[d].stop = download[d].stop /\ download'[d].early = download[d].early
    BY <1>0, <2>0, <2>1, DownloadGoes
  <2>6. DownloadTypes'
    BY <1>0, <1>1, <2>3, <2>4, <2>5 DEF DownloadTypes
  <2>7. Heeds(d)'
    BY <1>0, <1>1, <2>0, <2>1, <2>4, <2>5 DEF Heeds, Downloads!Working
  <2>8. ASSUME ~overlap PROVE handles[f] = {} /\ Written(d, f)
    <3>1. ASSUME NEW e \in handles[f] PROVE FALSE
      <4>1. e \in Downloads!Download
        BY <1>0, <3>1
      <4>2. download[e].pc = "write"
        BY <3>1, <4>1 DEF DownloadInv, Heeds
      <4>3. e \in Downloads!Active
        BY <4>1, <4>2 DEF Downloads!Active, Downloads!Working
      <4>4. e = d
        BY <1>1, <1>2, <2>8, <4>3 DEF Alone
      <4>. QED
        BY <2>1, <4>2, <4>4
    <3>. QED
      BY <1>2, <2>0, <2>8, <3>1
  <2>9. ASSUME ~overlap PROVE Progress(d)' /\ ~Downloads!IsComplete'
    <3>1. \A g \in Downloads!File : g < f => g # f
      BY DEF Downloads!File
    <3>2. Written(d, f)'
      BY <2>3, <2>5, <2>8, <2>9, <3>1 DEF Written
    <3>3. dir'.files[f] = Downloads!Part /\ handles'[f] = {d} /\ dir'.meta = "partial"
      BY <2>3, <2>4, <2>8, <2>9, <3>1 DEF Written
    <3>. QED
      BY <2>5, <3>2, <3>3 DEF Progress, Written, Downloads!IsComplete
  <2>. QED
    BY <1>1, <1>2, <2>1, <2>4, <2>5, <2>6, <2>7, <2>9, DownloadMoves DEF Whole
<1>5. CASE Downloads!EndFile(d)
  <2>0. PICK f \in Downloads!File : f = download[d].file
    BY <1>1
  <2> DEFINE new == IF handles[f] = {d} /\ dir.files[f] = Downloads!Part THEN download[d].revision
                    ELSE Downloads!Mixed
             pc  == IF f = NFiles THEN "stop" ELSE "file"
  <2>1. /\ download[d].pc = "write"
        /\ dir' = IF d \notin handles[f] THEN dir ELSE [dir EXCEPT !.files[f] = new]
        /\ handles' = Downloads!Close(d)
        /\ download' = [download EXCEPT ![d].pc = pc, ![d].file = f + 1]
    BY <1>5, <2>0 DEF Downloads!EndFile, Downloads!At
  <2>2. new \in Downloads!Content
    <3>1. Downloads!Mixed \in Downloads!Content /\ Downloads!Revision \subseteq Downloads!Content
      BY HubAssumption DEF Downloads!Mixed, Downloads!Revision, Downloads!Content
    <3>. QED
      BY <1>1, <3>1
  <2>3. f \in Downloads!File /\ f + 1 \in 0..NFiles + 1 /\ pc \in DownloadPc
        /\ (pc = "file" => f + 1 \in Downloads!File)
    BY HubAssumption DEF Downloads!File, DownloadPc, Downloads!Working
  <2>4. pc \in {"stop", "file"} /\ (pc = "stop" => f = NFiles)
    OBVIOUS
  <2>5. ASSUME handles[f] = {d}, dir.files[f] = Downloads!Part PROVE new = download[d].revision
    BY <2>5
  <2> HIDE DEF new, pc
  <2>6. /\ dir' \in DirState /\ dir'.there = dir.there /\ dir'.meta = dir.meta
        /\ dir'.revision = dir.revision
        /\ \A g \in Downloads!File \ {f} : dir'.files[g] = dir.files[g]
        /\ (d \in handles[f] => dir'.files[f] = new)
    BY <1>0, <2>1, <2>2, <2>3 DEF DirState
  <2>7. /\ handles' \in [Downloads!File -> SUBSET Downloads!Download]
        /\ \A g \in Downloads!File : handles'[g] = handles[g] \ {d}
    BY <1>0, <2>1 DEF Downloads!Close
  <2>8. /\ download' \in [Downloads!Download -> DownloadState]
        /\ \A e \in Downloads!Download \ {d} : download'[e] = download[e]
        /\ download'[d].pc = pc /\ download'[d].file = f + 1
        /\ download'[d].revision = download[d].revision
        /\ download'[d].stop = download[d].stop /\ download'[d].early = download[d].early
    BY <1>0, <2>1, <2>3 DEF DownloadState
  <2>9. DownloadTypes'
    BY <1>0, <1>1, <2>6, <2>7, <2>8 DEF DownloadTypes
  <2>10. Heeds(d)'
    BY <1>0, <1>1, <2>0, <2>1, <2>3, <2>4, <2>7, <2>8 DEF Heeds
  <2>11. ASSUME ~overlap PROVE Progress(d)' /\ ~Downloads!IsComplete'
    <3>1. Written(d, f) /\ handles[f] = {d} /\ dir.files[f] = Downloads!Part
      BY <1>2, <2>0, <2>1, <2>11 DEF Progress
    <3>2. dir'.files[f] = dir.revision
      BY <2>5, <2>6, <3>1 DEF Written
    <3>3. \A g \in Downloads!File : g < f + 1 => g = f \/ g < f
      BY <2>3 DEF Downloads!File
    <3>4. Written(d, f + 1)'
      BY <2>6, <2>8, <3>1, <3>2, <3>3 DEF Written
    <3>. QED
      BY <2>4, <2>8, <3>4 DEF Progress, Written, Downloads!IsComplete
  <2>. QED
    BY <1>1, <1>2, <2>4, <2>7, <2>8, <2>9, <2>10, <2>11, DownloadMoves DEF Whole
<1>. QED
    BY <1>3, <1>4, <1>5

\* The last steps: the look at the request, the sizes, the metadata and the status.
LEMMA DownloadCompletes ==
    ASSUME DownloadInv, NEW d \in Downloads!Download,
           \/ Downloads!LastStopCheck(d) \/ Downloads!Validate(d)
           \/ Downloads!Complete(d) \/ Downloads!Clear(d)
    PROVE  DownloadInv' /\ Ends
<1>0. DownloadTypes /\ Heeds(d) /\ download \in [Downloads!Download -> DownloadState]
      /\ dir \in DirState
    BY DEF DownloadInv, DownloadTypes
<1>1. /\ d \in Downloads!Active /\ UNCHANGED <<hub, handles, overlap>>
      /\ download[d].pc \in {"stop", "validate", "complete", "clear"}
      /\ download[d].revision \in Downloads!Revision
      /\ ~download[d].early \/ (download[d].pc = "stop" /\ download[d].stop)
    BY <1>0 DEF Downloads!LastStopCheck, Downloads!Validate, Downloads!Complete, Downloads!Clear,
                Downloads!WriteMetadata, Downloads!At, Downloads!Active, Downloads!Working, Heeds
<1>2. PICK pc \in {"validate", "complete", "clear", "completed", "failed", "cancelled"} :
          /\ Downloads!Go(d, pc)
          /\ pc = "validate" <=> download[d].pc = "stop"
          /\ pc = "validate" => ~download[d].stop
          /\ pc = "complete" => download[d].pc = "validate"
          /\ pc = "clear" <=> download[d].pc = "complete"
          /\ pc = "completed" => download[d].pc = "clear"
    BY DEF Downloads!LastStopCheck, Downloads!Validate, Downloads!Complete, Downloads!Clear,
           Downloads!At
<1>3. pc \in DownloadPc
    BY DEF DownloadPc, Downloads!Working, Downloads!Ended
<1>4. /\ download' \in [Downloads!Download -> DownloadState]
      /\ \A e \in Downloads!Download \ {d} : download'[e] = download[e]
      /\ download'[d].pc = pc /\ download'[d].revision = download[d].revision
      /\ download'[d].stop = download[d].stop /\ download'[d].early = download[d].early
    BY <1>0, <1>2, <1>3, DownloadGoes
<1>5. dir' = IF download[d].pc = "complete"
             THEN [dir EXCEPT !.there = TRUE, !.meta = "complete", !.revision = download[d].revision]
             ELSE dir
    BY DEF Downloads!LastStopCheck, Downloads!Validate, Downloads!Complete, Downloads!Clear,
           Downloads!WriteMetadata, Downloads!At
<1>6. /\ dir' \in DirState /\ dir'.files = dir.files
      /\ download[d].pc = "complete" => /\ dir'.there /\ dir'.meta = "complete"
                                        /\ dir'.revision = download[d].revision
    BY <1>0, <1>1, <1>5 DEF DirState
<1>7. DownloadTypes'
    BY <1>0, <1>1, <1>4, <1>6 DEF DownloadTypes
<1>8. Heeds(d)'
    BY <1>0, <1>1, <1>2, <1>4 DEF Heeds, Downloads!Working
<1>9. ASSUME ~overlap PROVE Alone /\ Progress(d)
    BY <1>1, <1>9 DEF DownloadInv, Alone
<1>10. ASSUME ~overlap, download[d].pc # "complete" PROVE Progress(d)' /\ Whole'
  <2>1. dir' = dir /\ Whole
    BY <1>5, <1>9, <1>10 DEF Alone
  <2>2. pc \in {"validate", "complete"} => Written(d, NFiles + 1)
    BY <1>2, <1>9, <1>10 DEF Progress
  <2>. QED
    BY <1>2, <1>4, <1>10, <2>1, <2>2 DEF Progress, Written, Whole, Downloads!IsComplete
<1>11. ASSUME ~overlap, download[d].pc = "complete"
       PROVE  Progress(d)' /\ Whole' /\ ~Downloads!IsComplete
  <2>1. Written(d, NFiles + 1)
    BY <1>9, <1>11 DEF Progress
  <2>2. \A f \in Downloads!File : dir'.files[f] = dir'.revision
    BY <1>6, <1>11, <2>1, HubAssumption DEF Written, Downloads!File
  <2>3. dir'.revision \notin {Downloads!Absent, Downloads!Part}
    BY <1>1, <1>6, <1>11, HubAssumption DEF Downloads!Absent, Downloads!Part, Downloads!Revision
  <2>4. Downloads!IsComplete'
    BY <1>6, <1>11, <2>2, <2>3 DEF Downloads!IsComplete, Downloads!Validated
  <2>. QED
    BY <1>2, <1>4, <1>11, <2>1, <2>2, <2>4 DEF Progress, Written, Whole, Downloads!IsComplete
<1>12. download[d].pc = "clear" /\ ~overlap => Downloads!IsComplete
    BY <1>9 DEF Progress
<1>13. Downloads!IsComplete /\ ~overlap => dir' = dir
    BY <1>5, <1>11
<1>14. ~overlap => Progress(d)' /\ Whole'
    BY <1>10, <1>11
<1>. QED
    BY <1>1, <1>4, <1>7, <1>8, <1>12, <1>13, <1>14, DownloadMoves

LEMMA DownloadCrashes ==
    ASSUME DownloadInv, Downloads!Crash
    PROVE  DownloadInv' /\ Ends
<1>0. /\ DownloadTypes /\ download \in [Downloads!Download -> DownloadState] /\ dir \in DirState
      /\ \A d \in Downloads!Download : Heeds(d)
    BY DEF DownloadInv, DownloadTypes
<1>1. /\ UNCHANGED <<hub, overlap>> /\ handles' = [f \in Downloads!File |-> {}]
      /\ download' = [d \in Downloads!Download |->
             IF download[d].pc \in Downloads!Asking \cup Downloads!Working
             THEN [download[d] EXCEPT !.pc = "dead"] ELSE [download[d] EXCEPT !.answered = TRUE]]
    BY DEF Downloads!Crash
<1>2. \/ dir' = dir
      \/ /\ dir' = [dir EXCEPT !.meta = "none", !.revision = 0]
         /\ \E d \in Downloads!Active : download[d].pc \in {"describe", "complete"}
    BY DEF Downloads!Crash
<1>3. dir' \in DirState /\ (dir' # dir => dir'.meta = "none")
    BY <1>0, <1>2 DEF DirState
<1>4. ASSUME NEW d \in Downloads!Download
      PROVE  /\ download'[d] \in DownloadState /\ download'[d].pc \notin Downloads!Asking \cup Downloads!Working
             /\ download'[d].early = download[d].early /\ download'[d].stop = download[d].stop
             /\ download'[d].pc \in {download[d].pc, "dead"}
             /\ download'[d].pc # "completed" \/ download[d].pc = "completed"
  <2>1. download[d] \in DownloadState /\ "dead" \in DownloadPc
        /\ "dead" \notin Downloads!Asking \cup Downloads!Working
    BY <1>0 DEF DownloadPc, Downloads!Asking, Downloads!Working
  <2>2. CASE download[d].pc \in Downloads!Asking \cup Downloads!Working
    <3>1. download'[d] = [download[d] EXCEPT !.pc = "dead"]
      BY <1>1, <2>2
    <3>. QED
      BY <2>1, <3>1 DEF DownloadState
  <2>3. CASE download[d].pc \notin Downloads!Asking \cup Downloads!Working
    <3>1. download'[d] = [download[d] EXCEPT !.answered = TRUE]
      BY <1>1, <2>3
    <3>. QED
      BY <2>1, <2>3, <3>1 DEF DownloadState
  <2>. QED
    BY <2>2, <2>3
<1>5. DownloadTypes'
  <2>1. download' \in [Downloads!Download -> DownloadState]
    BY <1>1, <1>4
  <2>2. handles' \in [Downloads!File -> SUBSET Downloads!Download]
    BY <1>1
  <2>. QED
    BY <1>0, <1>1, <1>3, <2>1, <2>2 DEF DownloadTypes
<1>6. \A d \in Downloads!Download : Heeds(d)'
  <2> SUFFICES ASSUME NEW d \in Downloads!Download PROVE Heeds(d)'
    OBVIOUS
  <2>1. \A f \in Downloads!File : d \notin handles'[f]
    BY <1>1
  <2>2. download'[d].pc \notin {"file", "open", "write", "reset", "describe", "start"} \cup Downloads!Working
    BY <1>4 DEF Downloads!Asking, Downloads!Working
  <2>3. download'[d].early =>
           download'[d].pc \in {"file", "open", "write", "stop", "cancelled", "failed", "dead"}
    BY <1>0, <1>4 DEF Heeds
  <2>4. download'[d].early => download'[d].stop
    BY <1>0, <1>4 DEF Heeds
  <2>. QED
    BY <2>1, <2>2, <2>3, <2>4 DEF Heeds
<1>7. Downloads!Active' = {}
    BY <1>4 DEF Downloads!Active
<1>8. ~overlap /\ Downloads!IsComplete => dir' = dir
    BY <1>2 DEF DownloadInv, Alone, Progress, Written, Downloads!IsComplete
<1>9. ~overlap => Whole'
  <2>1. CASE dir' = dir
    BY <2>1 DEF DownloadInv, Alone, Whole, Downloads!IsComplete
  <2>2. CASE dir' # dir
    BY <1>3, <2>2 DEF Whole, Downloads!IsComplete
  <2>. QED
    BY <2>1, <2>2
<1>10. Downloads!CompleteStays
    BY <1>1, <1>8 DEF Downloads!CompleteStays
<1>11. Downloads!CompletedIsThere
    BY <1>4 DEF Downloads!CompletedIsThere, Downloads!At
<1>. QED
    BY <1>1, <1>5, <1>6, <1>7, <1>9, <1>10, <1>11 DEF DownloadInv, Alone, Ends

LEMMA DownloadSteps ==
    ASSUME DownloadInv, [Downloads!Next]_(Downloads!vars)
    PROVE  DownloadInv' /\ Ends
<1>1. CASE UNCHANGED <<dir, handles, download, overlap>> /\ hub' \in Downloads!Revision
  <2>1. DownloadTypes'
    BY <1>1 DEF DownloadInv, DownloadTypes
  <2>2. \A d \in Downloads!Download : Heeds(d)'
    BY <1>1 DEF DownloadInv, Heeds
  <2>3. ~overlap' => Alone'
    BY <1>1 DEF DownloadInv, Alone, Progress, Written, Whole, Downloads!IsComplete, Downloads!Active
  <2>4. Ends
    BY <1>1 DEF Ends, Downloads!CompleteStays, Downloads!CompletedIsThere, Downloads!At
  <2>. QED
    BY <2>1, <2>2, <2>3, <2>4 DEF DownloadInv
<1>2. CASE Downloads!NewRevision
  <2>1. hub \in Downloads!Revision
    BY DEF DownloadInv, DownloadTypes
  <2>2. hub' \in Downloads!Revision
    BY <1>2, <2>1, HubAssumption DEF Downloads!NewRevision, Downloads!Revision
  <2>. QED
    BY <1>1, <1>2, <2>2 DEF Downloads!NewRevision
<1>3. CASE Downloads!Rest \/ UNCHANGED Downloads!vars
    BY <1>1, <1>3 DEF Downloads!Rest, Downloads!vars, DownloadInv, DownloadTypes
<1>. QED
    BY <1>2, <1>3, DownloadAsks, DownloadResets, DownloadPrepares, DownloadWrites,
       DownloadCompletes, DownloadCrashes DEF Downloads!Next
------------------------------------------------------------------------------
(* huggingface_catalog.py *)

\* Where the token of a query comes from, as long as it was not changed in between, and
\* what the query knows of the downloaded model.
QueryAt(q) ==
    /\ ~mixed =>
         /\ query[q].pc # "idle" => query[q].key.token = query[q].asked
         /\ query[q].pc = "marking" => query[q].token = query[q].asked
         /\ query[q].pc \in {"storing", "answered"} => query[q].answer.token = query[q].asked
    /\ query[q].pc = "storing" => query[q].answer.downloaded \subseteq {1}

CatalogInv ==
    /\ query = [q \in Query |-> query[q]] /\ mixed \in BOOLEAN /\ late \in BOOLEAN
    /\ cache = [k \in DOMAIN cache |-> cache[k]]
    /\ \A q \in Query : QueryAt(q)
    /\ ~mixed => \A k \in DOMAIN cache : cache[k].token = k.token
    /\ Catalog!CacheSeesDownload

LEMMA CatalogStarts == Catalog!Init => CatalogInv
<1> SUFFICES ASSUME Catalog!Init PROVE CatalogInv
    OBVIOUS
<1>1. mixed \in BOOLEAN /\ late \in BOOLEAN
    BY Zenon DEF Catalog!Init
<1>2. /\ DOMAIN cache = {} /\ cache = [k \in DOMAIN cache |-> cache[k]]
      /\ query = [q \in Query |-> query[q]] /\ downloaded = "no"
    BY DEF Catalog!Init
<1>3. \A q \in Query : query[q].pc = "idle"
    BY DEF Catalog!Init, Catalog!Idle
<1>. QED
    BY <1>1, <1>2, <1>3 DEF CatalogInv, QueryAt, Catalog!CacheSeesDownload

LEMMA CatalogIsCached == CatalogInv => Catalog!AnswerOfToken /\ Catalog!CacheSeesDownload
BY DEF CatalogInv, QueryAt, Catalog!AnswerOfToken, Catalog!At

\* A step of one query that leaves the cache and the download.
LEMMA QueryMoves ==
    ASSUME CatalogInv, NEW q \in Query, NEW r, query' = [query EXCEPT ![q] = r],
           UNCHANGED <<token, downloaded, cache, late>>,
           mixed' \in BOOLEAN, mixed => mixed', QueryAt(q)'
    PROVE  CatalogInv'
<1>1. query' = [o \in Query |-> query'[o]] /\ \A o \in Query \ {q} : query'[o] = query[o]
    BY DEF CatalogInv
<1>2. \A o \in Query : QueryAt(o)'
    BY <1>1 DEF CatalogInv, QueryAt
<1>3. Catalog!CacheSeesDownload'
    BY DEF CatalogInv, Catalog!CacheSeesDownload
<1>. QED
    BY <1>1, <1>2, <1>3 DEF CatalogInv

LEMMA CatalogSteps == CatalogInv /\ [Catalog!Next]_(Catalog!vars) => CatalogInv'
<1> SUFFICES ASSUME CatalogInv, [Catalog!Next]_(Catalog!vars) PROVE CatalogInv'
    OBVIOUS
<1>0. query = [q \in Query |-> query[q]] /\ mixed \in BOOLEAN
    BY DEF CatalogInv
<1>1. ASSUME NEW q \in Query, NEW r \in Catalog!Request, NEW refresh \in BOOLEAN,
             Catalog!Ask(q, r, refresh)
      PROVE  CatalogInv'
  <2> DEFINE key == Catalog!CacheKey(r)
  <2>1. UNCHANGED <<token, downloaded, cache, late, mixed>> /\ key.token = token
    BY <1>1 DEF Catalog!Ask, Catalog!CacheKey
  <2>2. CASE ~refresh /\ key \in DOMAIN cache
    <3> DEFINE s == [pc |-> "answered", key |-> key, asked |-> token, answer |-> cache[key]]
    <3>1. query' = [query EXCEPT ![q] = s]
      BY <1>1, <2>2 DEF Catalog!Ask
    <3>2. query'[q] = s
      BY <1>0, <3>1
    <3>3. QueryAt(q)'
      BY <2>1, <2>2, <3>2 DEF CatalogInv, QueryAt
    <3>. QED
      BY <1>0, <2>1, <3>1, <3>3, QueryMoves
  <2>3. CASE ~(~refresh /\ key \in DOMAIN cache)
    <3> DEFINE s == [pc |-> "listing", key |-> key, asked |-> token]
    <3>1. query' = [query EXCEPT ![q] = s]
      BY <1>1, <2>3 DEF Catalog!Ask
    <3>2. query'[q] = s
      BY <1>0, <3>1
    <3>3. QueryAt(q)'
      BY <2>1, <3>2 DEF CatalogInv, QueryAt
    <3>. QED
      BY <1>0, <2>1, <3>1, <3>3, QueryMoves
  <2>. QED
    BY <2>2, <2>3
<1>2. ASSUME NEW q \in Query, Catalog!Fetch(q) PROVE CatalogInv'
  <2> DEFINE s == [pc |-> "marking", key |-> query[q].key, asked |-> query[q].asked, token |-> token,
                   rows |-> Catalog!Listed(query[q].key.request, token)]
  <2>1. /\ query[q].pc = "listing" /\ query' = [query EXCEPT ![q] = s]
        /\ UNCHANGED <<token, downloaded, cache, late>>
    BY <1>0, <1>2 DEF Catalog!Fetch, Catalog!At
  <2>2. mixed' = (mixed \/ token # query[q].asked)
    BY <1>2 DEF Catalog!Fetch
  <2>3. mixed' \in BOOLEAN /\ (mixed => mixed') /\ (~mixed' => ~mixed /\ token = query[q].asked)
    BY <1>0, <2>2, Zenon
  <2>4. /\ query'[q].pc = "marking" /\ query'[q].key = query[q].key
        /\ query'[q].asked = query[q].asked /\ query'[q].token = token
    BY <1>0, <2>1
  <2>5. QueryAt(q)'
    BY <2>1, <2>3, <2>4 DEF CatalogInv, QueryAt
  <2> HIDE DEF s
  <2>. QED
    BY <2>1, <2>3, <2>5, QueryMoves
<1>3. ASSUME NEW q \in Query, Catalog!Mark(q) PROVE CatalogInv'
  <2> DEFINE found == Catalog!Page(query[q].key.request, query[q].rows)
             here  == IF downloaded = "no" THEN {} ELSE {1} \cap found.rows
             s     == [pc |-> "storing", key |-> query[q].key, asked |-> query[q].asked,
                       answer |-> [rows |-> found.rows, more |-> found.more, token |-> query[q].token,
                                   downloaded |-> here]]
  <2>1. /\ query[q].pc = "marking" /\ query' = [query EXCEPT ![q] = s]
        /\ UNCHANGED <<token, downloaded, cache, late, mixed>>
    BY <1>0, <1>3 DEF Catalog!Mark, Catalog!At
  <2>2. here \subseteq {1}
    OBVIOUS
  <2> HIDE DEF found, here
  <2>3. /\ query'[q].pc = "storing" /\ query'[q].key = query[q].key
        /\ query'[q].asked = query[q].asked /\ query'[q].answer.token = query[q].token
        /\ query'[q].answer.downloaded = here
    BY <1>0, <2>1
  <2>4. QueryAt(q)'
    BY <2>1, <2>2, <2>3 DEF CatalogInv, QueryAt
  <2> HIDE DEF s
  <2>. QED
    BY <1>0, <2>1, <2>4, QueryMoves
<1>4. ASSUME NEW q \in Query, Catalog!FetchFails(q) PROVE CatalogInv'
  <2>1. query' = [query EXCEPT ![q] = Catalog!Idle]
        /\ UNCHANGED <<token, downloaded, cache, late, mixed>>
    BY <1>4 DEF Catalog!FetchFails
  <2>2. query'[q].pc = "idle"
    BY <1>0, <2>1 DEF Catalog!Idle
  <2>3. QueryAt(q)'
    BY <2>2 DEF QueryAt
  <2>. QED
    BY <1>0, <2>1, <2>3, QueryMoves
<1>5. ASSUME NEW q \in Query, Catalog!Store(q) PROVE CatalogInv'
  <2> DEFINE key    == query[q].key
             answer == query[q].answer
             s      == [pc |-> "answered", key |-> key, asked |-> query[q].asked, answer |-> answer]
  <2>1. /\ query[q].pc = "storing" /\ query' = [query EXCEPT ![q] = s]
        /\ cache' = [k \in DOMAIN cache \cup {key} |-> IF k = key THEN answer ELSE cache[k]]
        /\ UNCHANGED <<token, downloaded, mixed>>
    BY <1>0, <1>5 DEF Catalog!Store, Catalog!At
  <2>2. late' = (late \/ (downloaded = "yes" /\ 1 \in answer.rows /\ answer.downloaded = {}))
    BY <1>5 DEF Catalog!Store
  <2>3. late' \in BOOLEAN /\ (late => late')
        /\ (~late' => ~(downloaded = "yes" /\ 1 \in answer.rows /\ answer.downloaded = {}))
    BY <2>2, Zenon DEF CatalogInv
  <2>4. /\ query' = [o \in Query |-> query'[o]] /\ query'[q] = s
        /\ \A o \in Query \ {q} : query'[o] = query[o]
    BY <1>0, <2>1
  <2>5. /\ ~mixed => key.token = query[q].asked /\ answer.token = query[q].asked
        /\ answer.downloaded \subseteq {1}
    BY <2>1 DEF CatalogInv, QueryAt
  <2>6. \A o \in Query : QueryAt(o)'
    BY <2>1, <2>4, <2>5 DEF CatalogInv, QueryAt
  <2>7. cache' = [k \in DOMAIN cache' |-> cache'[k]] /\ DOMAIN cache' = DOMAIN cache \cup {key}
        /\ \A k \in DOMAIN cache' : cache'[k] = IF k = key THEN answer ELSE cache[k]
    BY <2>1
  <2>8. ~mixed' => \A k \in DOMAIN cache' : cache'[k].token = k.token
    BY <2>1, <2>5, <2>7 DEF CatalogInv
  <2>9. Catalog!CacheSeesDownload'
    <3> SUFFICES ASSUME downloaded = "yes", ~late', NEW k \in DOMAIN cache',
                        1 \in cache'[k].rows
                 PROVE  1 \in cache'[k].downloaded
      BY <2>1 DEF Catalog!CacheSeesDownload
    <3>1. CASE k = key
      <4>1. cache'[k] = answer
        BY <2>7, <3>1
      <4>2. answer.downloaded # {}
        BY <2>3, <4>1
      <4>. QED
        BY <2>5, <4>1, <4>2
    <3>2. CASE k # key
      BY <2>3, <2>7, <3>2 DEF CatalogInv, Catalog!CacheSeesDownload
    <3>. QED
      BY <3>1, <3>2
  <2>. QED
    BY <2>1, <2>3, <2>4, <2>6, <2>7, <2>8, <2>9, <1>0 DEF CatalogInv
<1>6. CASE Catalog!Expire
  <2>1. PICK k \in DOMAIN cache : cache' = [x \in DOMAIN cache \ {k} |-> cache[x]]
    BY <1>6 DEF Catalog!Expire
  <2>2. UNCHANGED <<downloaded, query, late, mixed>>
    BY <1>6 DEF Catalog!Expire
  <2>3. /\ cache' = [x \in DOMAIN cache' |-> cache'[x]] /\ DOMAIN cache' \subseteq DOMAIN cache
        /\ \A x \in DOMAIN cache' : cache'[x] = cache[x]
    BY <2>1
  <2>. QED
    BY <2>2, <2>3 DEF CatalogInv, QueryAt, Catalog!CacheSeesDownload
<1>7. CASE Catalog!Configure
    BY <1>7 DEF Catalog!Configure, CatalogInv, QueryAt, Catalog!CacheSeesDownload
<1>8. CASE Catalog!DownloadWritten
    BY <1>8 DEF Catalog!DownloadWritten, CatalogInv, QueryAt, Catalog!CacheSeesDownload
<1>9. CASE Catalog!ClearCache
  <2>1. cache' = [k \in {} |-> Catalog!NoAnswer] /\ UNCHANGED <<query, late, mixed>>
    BY <1>9 DEF Catalog!ClearCache
  <2>2. DOMAIN cache' = {} /\ cache' = [k \in DOMAIN cache' |-> cache'[k]]
    BY <2>1
  <2>. QED
    BY <2>1, <2>2 DEF CatalogInv, QueryAt, Catalog!CacheSeesDownload
<1>10. CASE UNCHANGED Catalog!vars
    BY <1>10 DEF Catalog!vars, CatalogInv, QueryAt, Catalog!CacheSeesDownload
<1>. QED
    BY <1>1, <1>2, <1>3, <1>4, <1>5, <1>6, <1>7, <1>8, <1>9, <1>10 DEF Catalog!Next

\* The instance counts as the finite sets do.
LEMMA CatalogCounts == ASSUME NEW S PROVE Catalog!Cardinality(S) = Cardinality(S)
  BY DEF Catalog!Cardinality, Cardinality

\* The rows of a page have one place each, from the first to as many as there are.
LEMMA PlacesCount ==
    ASSUME NEW S \in SUBSET Nat, IsFiniteSet(S)
    PROVE  /\ Cardinality(S) \in Nat
           /\ \A i \in S : Catalog!Place(S, i) \in 1..Cardinality(S)
           /\ \A n \in 1..Cardinality(S) : \E i \in S : Catalog!Place(S, i) = n
<1> DEFINE UpTo(i) == {k \in S : k <= i}
           c == Cardinality(S)
           f == [i \in S |-> Cardinality(UpTo(i))]
<1>1. c \in Nat
    BY FS_CardinalityType
<1>2. ASSUME NEW i \in S
      PROVE  /\ Catalog!Place(S, i) = f[i] /\ f[i] = Cardinality(UpTo(i))
             /\ IsFiniteSet(UpTo(i)) /\ Cardinality(UpTo(i)) \in 1..c
  <2>1. UpTo(i) \in SUBSET S /\ i \in UpTo(i)
    OBVIOUS
  <2>2. IsFiniteSet(UpTo(i)) /\ Cardinality(UpTo(i)) <= c
    BY <2>1, FS_Subset
  <2>3. Cardinality(UpTo(i)) \in Nat /\ Cardinality(UpTo(i)) # 0
    BY <2>1, <2>2, FS_CardinalityType, FS_EmptySet
  <2>4. Catalog!Place(S, i) = Cardinality(UpTo(i))
    BY CatalogCounts DEF Catalog!Place
  <2>. QED
    BY <1>1, <2>2, <2>3, <2>4
<1>3. ASSUME NEW i \in S, NEW k \in S, i < k PROVE f[i] # f[k]
  <2>1. i \in Nat /\ k \in Nat /\ \A h \in S : h \in Nat
    OBVIOUS
  <2>2. UpTo(i) \in SUBSET UpTo(k) /\ k \in UpTo(k) /\ k \notin UpTo(i)
    <3>1. \A h \in S : h <= i => h <= k
      BY ONLY <1>3, <2>1
    <3>2. k <= k /\ ~(k <= i)
      BY ONLY <1>3, <2>1
    <3>. QED
      BY ONLY <3>1, <3>2, k \in S
  <2>3. UpTo(i) # UpTo(k) /\ IsFiniteSet(UpTo(k))
    BY ONLY <1>2, <2>2, k \in S
  <2> HIDE DEF UpTo
  <2>4. Cardinality(UpTo(k)) # Cardinality(UpTo(i))
    BY ONLY <2>2, <2>3, FS_Subset
  <2>. QED
    BY ONLY <1>2, <2>4, i \in S, k \in S
<1>4. f \in Injection(S, 1..c)
  <2>1. f \in [S -> 1..c]
    BY <1>2
  <2>2. \A i, k \in S : f[i] = f[k] => i = k
    <3>1. \A i, k \in S : i = k \/ i < k \/ k < i
      OBVIOUS
    <3>. QED
      BY <1>3, <3>1
  <2> HIDE DEF f
  <2>. QED
    BY <2>1, <2>2 DEF Injection, IsInjective
<1>5. IsFiniteSet(1..c) /\ Cardinality(1..c) = c
  <2> HIDE DEF c
  <2>1. 1 \in Int /\ c \in Int
    BY <1>1
  <2>2. IsFiniteSet(1..c) /\ Cardinality(1..c) = IF 1 > c THEN 0 ELSE c - 1 + 1
    BY <2>1, FS_Interval, Zenon
  <2>. QED
    BY <1>1, <2>2
<1>6. f \in Surjection(S, 1..c)
  <2> HIDE DEF f
  <2>. QED
    BY <1>4, <1>5, FS_Injection, Zenon
<1>. QED
    BY <1>1, <1>2, <1>6 DEF Surjection

\* The first of the rows keep their places.
LEMMA PlacesStay ==
    ASSUME NEW S \in SUBSET Nat, NEW T \in SUBSET S, \A i \in T, k \in S : k <= i => k \in T
    PROVE  \A i \in T : Catalog!Place(T, i) = Catalog!Place(S, i)
<1> SUFFICES ASSUME NEW i \in T PROVE Catalog!Place(T, i) = Catalog!Place(S, i)
    OBVIOUS
<1>1. {k \in T : k <= i} = {k \in S : k <= i}
    OBVIOUS
<1>. QED
    BY <1>1 DEF Catalog!Place

\* Places grow with the rows.
LEMMA PlacesGrow ==
    ASSUME NEW S \in SUBSET Nat, IsFiniteSet(S), NEW i \in S, NEW k \in S, k <= i
    PROVE  Catalog!Place(S, k) <= Catalog!Place(S, i)
<1> DEFINE UpTo(h) == {g \in S : g <= h}
<1>1. UpTo(k) \in SUBSET UpTo(i) /\ UpTo(i) \in SUBSET S
  <2>1. i \in Nat /\ k \in Nat /\ \A g \in S : g \in Nat
    OBVIOUS
  <2>2. \A g \in S : g <= k => g <= i
    BY <2>1
  <2>. QED
    BY ONLY <2>2
<1>2. ASSUME NEW h PROVE Catalog!Place(S, h) = Cardinality(UpTo(h))
  <2>1. Catalog!Place(S, h) = Catalog!Cardinality(UpTo(h))
    BY DEF Catalog!Place
  <2> HIDE DEF UpTo
  <2>. QED
    BY <2>1, CatalogCounts
<1> HIDE DEF UpTo
<1>3. IsFiniteSet(UpTo(i))
    BY <1>1, FS_Subset
<1>4. Cardinality(UpTo(k)) <= Cardinality(UpTo(i))
    BY <1>1, <1>3, FS_Subset
<1>. QED
    BY <1>2, <1>4

\* The page after another: it goes on where that ended, and is asked for with no smaller
\* limit.
LEMMA NextPage ==
    ASSUME Catalog!TypeOK, NEW r \in Catalog!Request, NEW s \in Catalog!Request, NEW t,
           r.visibility = s.visibility, s.page = r.page + 1
    PROVE  LET R == Catalog!Page(r, Catalog!Listed(r, t))
               S == Catalog!Page(s, Catalog!Listed(s, t)) IN
           /\ R.rows \cap S.rows = {}
           /\ R.more => S.rows # {}
           /\ /\ S.rows # {} /\ r.visibility \in {"all", "gated"}
              /\ \A i \in DOMAIN listing : listing[i] # "unnamed"
              => R.more
<1> DEFINE Near == Catalog!Listed(r, t)
           Far  == Catalog!Listed(s, t)
           All  == Catalog!Seen(r, t)
           V    == {i \in Near : Catalog!Shown(r, i)}
           W    == {i \in Far : Catalog!Shown(r, i)}
           b    == r.page * PageSize
<1>1. /\ PageSize \in Nat /\ PageSize >= 1 /\ MaxFetch \in Nat
      /\ r.page \in Nat /\ s.page \in Nat
    BY CatalogAssumption DEF Catalog!Request
<1>2. /\ b \in Nat /\ s.page * PageSize = b + PageSize
      /\ (s.page - 1) * PageSize = b /\ (r.page - 1) * PageSize = b - PageSize
    BY <1>1
<1>3. All \in SUBSET Nat /\ IsFiniteSet(All)
  <2>1. PICK n \in 0..MaxRows : listing \in [1..n -> ModelKind]
    BY DEF Catalog!TypeOK
  <2>2. n \in Nat /\ 1 \in Int /\ n \in Int /\ DOMAIN listing = 1..n
    BY <2>1, CatalogAssumption
  <2>3. IsFiniteSet(1..n)
    BY <2>2, FS_Interval, Zenon
  <2>4. All \in SUBSET (1..n)
    BY <2>2 DEF Catalog!Seen
  <2>. QED
    BY <2>2, <2>3, <2>4, FS_Subset
<1>4. Catalog!Seen(s, t) = All /\ \A i : Catalog!Shown(s, i) <=> Catalog!Shown(r, i)
    BY DEF Catalog!Seen, Catalog!Shown
<1>5. /\ Catalog!Limit(r) = Catalog!Lower(MaxFetch, IF r.visibility = "private" THEN 2 * (b + 1) ELSE b + 1)
      /\ Catalog!Limit(s) = Catalog!Lower(MaxFetch, IF r.visibility = "private"
                                               THEN 2 * (b + PageSize + 1) ELSE b + PageSize + 1)
    BY <1>2 DEF Catalog!Limit
<1>6. /\ Near = {i \in All : Catalog!Place(All, i) <= Catalog!Limit(r)}
      /\ Far = {i \in All : Catalog!Place(All, i) <= Catalog!Limit(s)}
    BY <1>4 DEF Catalog!Listed
<1>7. LET R == Catalog!Page(r, Near)
          S == Catalog!Page(s, Far) IN
      /\ R.rows = {i \in V : Catalog!Place(V, i) \in (b - PageSize + 1)..b}
      /\ S.rows = {i \in W : Catalog!Place(W, i) \in (b + 1)..(b + PageSize)}
      /\ R.more = (Cardinality(V) > b)
  <2>1. {i \in Far : Catalog!Shown(s, i)} = W
    BY <1>4
  <2>2. b - PageSize + PageSize = b
    BY <1>1, <1>2
  <2> HIDE DEF Near, Far, All, b
  <2>. QED
    BY <1>2, <2>1, <2>2, CatalogCounts DEF Catalog!Page
<1> HIDE DEF Near, Far, All, b
<1>8. /\ Catalog!Limit(r) \in Nat /\ Catalog!Limit(s) \in Nat
      /\ Catalog!Limit(r) <= Catalog!Limit(s) /\ Catalog!Limit(s) <= MaxFetch
      /\ r.visibility # "private" /\ MaxFetch > b => Catalog!Limit(r) = b + 1
    BY <1>1, <1>2, <1>5 DEF Catalog!Lower
<1>9. \A i \in All : Catalog!Place(All, i) \in Nat
    BY <1>3, PlacesCount
<1>10. /\ Near \subseteq Far /\ Far \subseteq All
       /\ \A i \in Near, k \in All : k <= i => k \in Near
       /\ \A i \in Far, k \in All : k <= i => k \in Far
  <2>1. \A i, k \in All : k <= i => Catalog!Place(All, k) <= Catalog!Place(All, i)
    BY <1>3, PlacesGrow
  <2>2. Near \subseteq Far /\ Far \subseteq All
    BY <1>6, <1>8, <1>9
  <2>. QED
    BY <1>6, <1>8, <1>9, <2>1, <2>2
<1>11. /\ V \in SUBSET W /\ W \in SUBSET Nat /\ V \in SUBSET Nat /\ Near \in SUBSET Nat
       /\ Far \in SUBSET Nat
       /\ \A i \in V, k \in W : k <= i => k \in V
    BY <1>3, <1>10
<1>12. /\ IsFiniteSet(V) /\ IsFiniteSet(W) /\ IsFiniteSet(Near) /\ IsFiniteSet(Far)
  <2>1. V \in SUBSET All /\ W \in SUBSET All /\ Near \in SUBSET All /\ Far \in SUBSET All
    BY <1>10
  <2>. QED
    BY ONLY <1>3, <2>1, FS_Subset
<1>13. \A i \in V : Catalog!Place(V, i) = Catalog!Place(W, i)
  <2> HIDE DEF V, W
  <2>. QED
    BY <1>11, PlacesStay
<1>14. Catalog!Page(r, Near).rows \cap Catalog!Page(s, Far).rows = {}
  <2> HIDE DEF V, W
  <2>1. \A i \in V : ~(Catalog!Place(V, i) \in (b - PageSize + 1)..b
                       /\ Catalog!Place(W, i) \in (b + 1)..(b + PageSize))
    BY <1>1, <1>2, <1>13
  <2>. QED
    BY ONLY <1>7, <2>1
<1>15. Catalog!Page(r, Near).more => Catalog!Page(s, Far).rows # {}
  <2> SUFFICES ASSUME Cardinality(V) > b PROVE Catalog!Page(s, Far).rows # {}
    BY <1>7
  <2>1. PICK i \in V : Catalog!Place(V, i) = b + 1
    <3> HIDE DEF V
    <3>1. Cardinality(V) \in Nat
      BY <1>11, <1>12, PlacesCount
    <3>2. b + 1 \in 1..Cardinality(V)
      BY <1>2, <3>1
    <3>. QED
      BY <1>11, <1>12, <3>2, PlacesCount
  <2>2. i \in W /\ Catalog!Place(W, i) = b + 1
    BY <1>11, <1>13, <2>1
  <2>3. b + 1 \in (b + 1)..(b + PageSize)
    BY <1>1, <1>2
  <2> HIDE DEF V, W
  <2>. QED
    BY ONLY <1>7, <2>2, <2>3
<1>16. ASSUME Catalog!Page(s, Far).rows # {}, r.visibility \in {"all", "gated"},
              \A i \in DOMAIN listing : listing[i] # "unnamed"
       PROVE  Catalog!Page(r, Near).more
  <2>1. \A i \in All : Catalog!Shown(r, i)
    BY <1>16 DEF All, Catalog!Seen, Catalog!Shown
  <2>2. V = Near /\ W = Far
    BY <1>10, <2>1
  <2>3. PICK i \in Far : Catalog!Place(Far, i) \in (b + 1)..(b + PageSize)
    BY <1>7, <1>16, <2>2
  <2>4. Catalog!Place(All, i) = Catalog!Place(Far, i) /\ i \in All
    BY <1>3, <1>10, PlacesStay
  <2>5. Catalog!Place(All, i) > b /\ Catalog!Place(All, i) <= Catalog!Limit(s)
    BY <1>1, <1>2, <1>6, <2>3, <2>4
  <2>6. Catalog!Limit(r) = b + 1
    BY <1>1, <1>2, <1>8, <1>9, <1>16, <2>4, <2>5
  <2>7. b + 1 \in 1..Cardinality(All)
    BY <1>2, <1>3, <2>4, <2>5, PlacesCount
  <2>8. PICK e \in All : Catalog!Place(All, e) = b + 1
    BY <1>3, <2>7, PlacesCount
  <2>9. e \in Near
    BY <1>6, <1>2, <2>6, <2>8
  <2>10. Catalog!Place(Near, e) = b + 1
    BY <1>3, <1>10, <2>8, <2>9, PlacesStay
  <2>11. Cardinality(Near) \in Nat /\ b + 1 \in 1..Cardinality(Near)
    BY <1>11, <1>12, <2>9, <2>10, PlacesCount
  <2> HIDE DEF V, W
  <2>12. Cardinality(V) > b
    BY <1>2, <2>2, <2>11
  <2>. QED
    BY ONLY <1>7, <2>12
<1>. QED
    BY <1>14, <1>15, <1>16 DEF Near, Far

\* An answer is the page of its request and its token.
PageOf(answer, r) ==
    LET found == Catalog!Page(r, Catalog!Listed(r, answer.token)) IN
    answer.rows = found.rows /\ answer.more = found.more

\* What a query has of its page.
QueryPage(q) ==
    /\ query[q].pc = "marking" =>
         query[q].rows = Catalog!Listed(query[q].key.request, query[q].token)
    /\ query[q].pc = "storing" => PageOf(query[q].answer, query[q].key.request)

PagesInv ==
    /\ Catalog!TypeOK
    /\ \A q \in Query : QueryPage(q)
    /\ \A k \in DOMAIN cache : PageOf(cache[k], k.request)

LEMMA PagesStart == Catalog!Init => PagesInv
<1> SUFFICES ASSUME Catalog!Init PROVE PagesInv
    OBVIOUS
<1>1. \A q \in Query : query[q].pc = "idle"
    BY DEF Catalog!Init, Catalog!Idle
<1>2. DOMAIN cache = {}
    BY DEF Catalog!Init
<1>3. /\ listing \in UNION {[1..n -> ModelKind] : n \in 0..MaxRows}
      /\ token = NoToken /\ tokens = 0 /\ downloaded = "no"
    BY DEF Catalog!Init
<1>4. late \in BOOLEAN /\ mixed \in BOOLEAN
    BY Zenon DEF Catalog!Init
<1>5. tokens \in 0..MaxTokens
    BY <1>3, CatalogAssumption
<1>6. Catalog!TypeOK
    BY <1>1, <1>2, <1>3, <1>4, <1>5 DEF Catalog!TypeOK, Catalog!At
<1>. QED
    BY <1>1, <1>2, <1>6 DEF PagesInv, QueryPage

LEMMA PagesAreTiled == PagesInv => Catalog!PagesTile
<1> SUFFICES ASSUME PagesInv, NEW j \in DOMAIN cache, NEW k \in DOMAIN cache,
                    j.request.visibility = k.request.visibility,
                    cache[j].token = cache[k].token, k.request.page = j.request.page + 1
             PROVE  /\ cache[j].rows \cap cache[k].rows = {}
                    /\ cache[j].more => cache[k].rows # {}
                    /\ /\ cache[k].rows # {} /\ j.request.visibility \in {"all", "gated"}
                       /\ \A i \in DOMAIN listing : listing[i] # "unnamed"
                       => cache[j].more
    BY DEF Catalog!PagesTile
<1> DEFINE r == j.request s == k.request t == cache[j].token
           R == Catalog!Page(r, Catalog!Listed(r, t))
           S == Catalog!Page(s, Catalog!Listed(s, t))
<1>1. r \in Catalog!Request /\ s \in Catalog!Request /\ Catalog!TypeOK
    BY DEF PagesInv, Catalog!TypeOK, Catalog!Key
<1>2. /\ cache[j].rows = R.rows /\ cache[j].more = R.more
      /\ cache[k].rows = S.rows
    BY DEF PagesInv, PageOf
<1>3. r.visibility = s.visibility /\ s.page = r.page + 1
    OBVIOUS
<1> HIDE DEF r, s, t
<1>4. /\ R.rows \cap S.rows = {}
      /\ R.more => S.rows # {}
      /\ /\ S.rows # {} /\ r.visibility \in {"all", "gated"}
         /\ \A i \in DOMAIN listing : listing[i] # "unnamed"
         => R.more
    BY <1>1, <1>3, NextPage
<1> HIDE DEF R, S
<1>. QED
    BY <1>2, <1>4 DEF r

\* The pages depend on the listing, which is the hub's.
LEMMA SamePages ==
    ASSUME listing' = listing
    PROVE  /\ \A r, x : Catalog!Page(r, x)' = Catalog!Page(r, x)
           /\ \A r, t : Catalog!Listed(r, t)' = Catalog!Listed(r, t)
           /\ \A a, r : PageOf(a, r)' = PageOf(a, r)
<1>1. \A r, x : Catalog!Page(r, x)' = Catalog!Page(r, x)
    BY DEF Catalog!Page, Catalog!Shown, Catalog!Place
<1>2. \A r, t : Catalog!Listed(r, t)' = Catalog!Listed(r, t)
    BY DEF Catalog!Listed, Catalog!Seen, Catalog!Place, Catalog!Limit
<1>3. \A a, r : PageOf(a, r)' = PageOf(a, r)
    BY <1>1, <1>2 DEF PageOf
<1>. QED
    BY <1>1, <1>2, <1>3

\* A step of one query that leaves the cache.
LEMMA QueryPages ==
    ASSUME CatalogInv, CatalogInv', PagesInv, NEW q \in Query, NEW s,
           query' = [query EXCEPT ![q] = s],
           UNCHANGED <<listing, token, tokens, downloaded, cache>>,
           s.pc \in {"idle", "listing", "marking", "storing", "answered"},
           s.pc # "idle" => s.key \in Catalog!Key,
           s.pc = "marking" => s.rows = Catalog!Listed(s.key.request, s.token),
           s.pc = "storing" => PageOf(s.answer, s.key.request)
    PROVE  PagesInv'
<1>1. query'[q] = s /\ \A o \in Query \ {q} : query'[o] = query[o]
    BY DEF CatalogInv
<1>2. late' \in BOOLEAN /\ mixed' \in BOOLEAN
    BY DEF CatalogInv
<1>3. Catalog!TypeOK'
    BY <1>1, <1>2 DEF PagesInv, Catalog!TypeOK, Catalog!At
<1>4. \A o \in Query : QueryPage(o)'
    BY <1>1, SamePages DEF PagesInv, QueryPage
<1>5. (\A k \in DOMAIN cache : PageOf(cache[k], k.request))'
    BY SamePages DEF PagesInv
<1>. QED
    BY <1>3, <1>4, <1>5 DEF PagesInv

LEMMA PagesSteps ==
    ASSUME CatalogInv, CatalogInv', PagesInv, [Catalog!Next]_(Catalog!vars)
    PROVE  PagesInv'
<1>0. query = [q \in Query |-> query[q]] /\ token \in Token \cup {NoToken}
    BY DEF CatalogInv, PagesInv, Catalog!TypeOK
<1>1. ASSUME NEW q \in Query, NEW r \in Catalog!Request, NEW refresh \in BOOLEAN,
             Catalog!Ask(q, r, refresh)
      PROVE  PagesInv'
  <2> DEFINE key == Catalog!CacheKey(r)
             s   == IF ~refresh /\ key \in DOMAIN cache
                    THEN [pc |-> "answered", key |-> key, asked |-> token, answer |-> cache[key]]
                    ELSE [pc |-> "listing", key |-> key, asked |-> token]
  <2>1. query' = [query EXCEPT ![q] = s] /\ UNCHANGED <<listing, token, tokens, downloaded, cache>>
    BY <1>1 DEF Catalog!Ask
  <2>2. key \in Catalog!Key
    BY <1>0 DEF Catalog!CacheKey, Catalog!Key
  <2> HIDE DEF key
  <2>3. s.pc \in {"listing", "answered"} /\ s.key = key
    OBVIOUS
  <2> HIDE DEF s
  <2>. QED
    BY <2>1, <2>2, <2>3, QueryPages
<1>2. ASSUME NEW q \in Query, Catalog!Fetch(q) PROVE PagesInv'
  <2> DEFINE s == [pc |-> "marking", key |-> query[q].key, asked |-> query[q].asked, token |-> token,
                   rows |-> Catalog!Listed(query[q].key.request, token)]
  <2>1. /\ query[q].pc = "listing" /\ query' = [query EXCEPT ![q] = s]
        /\ UNCHANGED <<listing, token, tokens, downloaded, cache>>
    BY <1>0, <1>2 DEF Catalog!Fetch, Catalog!At
  <2>2. query[q].key \in Catalog!Key
    BY <2>1 DEF PagesInv, Catalog!TypeOK, Catalog!At
  <2>3. /\ s.pc = "marking" /\ s.key = query[q].key
        /\ s.rows = Catalog!Listed(s.key.request, s.token)
    OBVIOUS
  <2> HIDE DEF s
  <2>. QED
    BY <2>1, <2>2, <2>3, QueryPages
<1>3. ASSUME NEW q \in Query, Catalog!Mark(q) PROVE PagesInv'
  <2> DEFINE found  == Catalog!Page(query[q].key.request, query[q].rows)
             here   == IF downloaded = "no" THEN {} ELSE {1} \cap found.rows
             answer == [rows |-> found.rows, more |-> found.more, token |-> query[q].token,
                        downloaded |-> here]
             s      == [pc |-> "storing", key |-> query[q].key, asked |-> query[q].asked,
                        answer |-> answer]
  <2>1. /\ query[q].pc = "marking" /\ query' = [query EXCEPT ![q] = s]
        /\ UNCHANGED <<listing, token, tokens, downloaded, cache>>
    BY <1>0, <1>3 DEF Catalog!Mark, Catalog!At
  <2>2. query[q].key \in Catalog!Key
    BY <2>1 DEF PagesInv, Catalog!TypeOK, Catalog!At
  <2>3. query[q].rows = Catalog!Listed(query[q].key.request, query[q].token)
    BY <2>1 DEF PagesInv, QueryPage
  <2>4. PageOf(answer, query[q].key.request)
    BY <2>3 DEF PageOf
  <2> HIDE DEF answer
  <2>5. s.pc = "storing" /\ s.key = query[q].key /\ s.answer = answer
    OBVIOUS
  <2> HIDE DEF s
  <2>. QED
    BY <2>1, <2>2, <2>4, <2>5, QueryPages
<1>4. ASSUME NEW q \in Query, Catalog!FetchFails(q) PROVE PagesInv'
  <2>1. /\ query' = [query EXCEPT ![q] = Catalog!Idle]
        /\ UNCHANGED <<listing, token, tokens, downloaded, cache>>
    BY <1>4 DEF Catalog!FetchFails
  <2>2. Catalog!Idle.pc = "idle"
    BY DEF Catalog!Idle
  <2>. QED
    BY <2>1, <2>2, QueryPages
<1>5. ASSUME NEW q \in Query, Catalog!Store(q) PROVE PagesInv'
  <2> DEFINE key    == query[q].key
             answer == query[q].answer
             s      == [pc |-> "answered", key |-> key, asked |-> query[q].asked, answer |-> answer]
  <2>1. /\ query[q].pc = "storing" /\ query' = [query EXCEPT ![q] = s]
        /\ cache' = [k \in DOMAIN cache \cup {key} |-> IF k = key THEN answer ELSE cache[k]]
        /\ UNCHANGED <<listing, token, tokens, downloaded>>
    BY <1>0, <1>5 DEF Catalog!Store, Catalog!At
  <2>2. key \in Catalog!Key /\ PageOf(answer, key.request)
    BY <2>1 DEF PagesInv, QueryPage, Catalog!TypeOK, Catalog!At
  <2> HIDE DEF key, answer
  <2>3. query'[q] = s /\ \A o \in Query \ {q} : query'[o] = query[o]
    BY <1>0, <2>1
  <2>4. s.pc = "answered" /\ s.key = key
    OBVIOUS
  <2> HIDE DEF s
  <2>5. /\ DOMAIN cache' = DOMAIN cache \cup {key}
        /\ \A k \in DOMAIN cache' : cache'[k] = IF k = key THEN answer ELSE cache[k]
    BY <2>1
  <2>6. Catalog!TypeOK'
    BY <2>1, <2>2, <2>3, <2>4, <2>5 DEF PagesInv, CatalogInv, Catalog!TypeOK, Catalog!At
  <2>7. \A o \in Query : QueryPage(o)'
    BY <2>1, <2>3, <2>4, SamePages DEF PagesInv, QueryPage
  <2>8. ASSUME NEW k \in DOMAIN cache' PROVE PageOf(cache'[k], k.request)
    BY <2>2, <2>5, <2>8 DEF PagesInv
  <2>9. (\A k \in DOMAIN cache : PageOf(cache[k], k.request))'
    BY <2>1, <2>8, SamePages
  <2>. QED
    BY <2>6, <2>7, <2>9 DEF PagesInv
<1>6. ASSUME UNCHANGED <<listing, query, late, mixed>>, DOMAIN cache' \subseteq DOMAIN cache,
             \A x \in DOMAIN cache' : cache'[x] = cache[x], token' \in Token \cup {NoToken},
             tokens' \in 0..MaxTokens, downloaded' \in {"no", "written", "yes"}
      PROVE  PagesInv'
  <2>1. Catalog!TypeOK'
    BY <1>6 DEF PagesInv, Catalog!TypeOK, Catalog!At
  <2>2. \A o \in Query : QueryPage(o)'
    BY <1>6, SamePages DEF PagesInv, QueryPage
  <2>3. ASSUME NEW k \in DOMAIN cache' PROVE PageOf(cache'[k], k.request)
    BY <1>6, <2>3 DEF PagesInv
  <2>4. (\A k \in DOMAIN cache : PageOf(cache[k], k.request))'
    BY <1>6, <2>3, SamePages
  <2>. QED
    BY <2>1, <2>2, <2>4 DEF PagesInv
<1>7. /\ token \in Token \cup {NoToken} /\ tokens \in 0..MaxTokens
      /\ downloaded \in {"no", "written", "yes"}
    BY DEF PagesInv, Catalog!TypeOK
<1>8. CASE Catalog!Expire
  <2>1. PICK k \in DOMAIN cache : cache' = [x \in DOMAIN cache \ {k} |-> cache[x]]
    BY <1>8 DEF Catalog!Expire
  <2>2. UNCHANGED <<listing, token, tokens, downloaded, query, late, mixed>>
    BY <1>8 DEF Catalog!Expire
  <2>. QED
    BY <1>6, <1>7, <2>1, <2>2
<1>9. CASE Catalog!Configure
  <2>1. tokens' \in 0..MaxTokens /\ token' \in Token \cup {NoToken}
    BY <1>7, <1>9, CatalogAssumption DEF Catalog!Configure
  <2>. QED
    BY <1>6, <1>7, <1>9, <2>1 DEF Catalog!Configure
<1>10. CASE Catalog!DownloadWritten
    BY <1>6, <1>7, <1>10 DEF Catalog!DownloadWritten
<1>11. CASE Catalog!ClearCache
  <2>1. DOMAIN cache' = {}
    BY <1>11 DEF Catalog!ClearCache
  <2>. QED
    BY <1>6, <1>7, <1>11, <2>1 DEF Catalog!ClearCache
<1>12. CASE UNCHANGED Catalog!vars
    BY <1>6, <1>7, <1>12 DEF Catalog!vars
<1>. QED
    BY <1>1, <1>2, <1>3, <1>4, <1>5, <1>8, <1>9, <1>10, <1>11, <1>12 DEF Catalog!Next
------------------------------------------------------------------------------
(* The hub, and what has ended *)

\* huggingface_downloads.py: over failures, cancellations, ends of the process and new
\* revisions of the hub, a directory that counts as complete holds every file of the one
\* revision its metadata names, unless two downloads shared it; and a download that was
\* told in time to stop does not complete. huggingface_catalog.py: consecutive pages of one
\* listing share no row, and none promises a next page that turns out empty, whatever is
\* visible, hidden or unnamed; an answer goes to queries that read the token it was
\* fetched with, unless the token changed between the two reads of a query; and once a
\* download cleared the cache no cached page shows its model as missing, unless a query
\* that looked before stored its page after. For any files, revisions, downloads, rows,
\* page sizes, queries and tokens.
THEOREM HubIsAlwaysTrue == ServicesSpec => []HubIsTrue
<1> DEFINE Inv == /\ which = "downloads" => DownloadInv
                  /\ which = "catalog" => CatalogInv /\ PagesInv
<1>1. ServicesInit => Inv
    BY DownloadsStart, CatalogStarts, PagesStart
       DEF ServicesInit, JobsInit, DownloadsInit, CatalogInit, ChatInit, RegistryInit,
           SchemaInit, SettingsInit
<1>2. Inv /\ [ServicesNext]_all => Inv'
  <2> SUFFICES ASSUME Inv, [ServicesNext]_all PROVE Inv'
    OBVIOUS
  <2>1. which' = which
    BY DEF ServicesNext, JobsNext, DownloadsNext, CatalogNext, ChatNext, RegistryNext,
           SchemaNext, SettingsNext, Stopped, all
  <2>2. CASE which = "downloads"
    <3>1. DownloadsNext \/ UNCHANGED all
      BY <2>2 DEF ServicesNext, JobsNext, DownloadsNext, CatalogNext, ChatNext, RegistryNext,
                  SchemaNext, SettingsNext, Stopped, all
    <3>2. [Downloads!Next]_(Downloads!vars)
      BY <3>1 DEF DownloadsNext, all, Downloads!vars
    <3>. QED
      BY <2>1, <2>2, <3>2, DownloadSteps
  <2>3. CASE which = "catalog"
    <3>1. CatalogNext \/ UNCHANGED all
      BY <2>3 DEF ServicesNext, JobsNext, DownloadsNext, CatalogNext, ChatNext, RegistryNext,
                  SchemaNext, SettingsNext, Stopped, all
    <3>2. [Catalog!Next]_(Catalog!vars)
      BY <3>1 DEF CatalogNext, all, Catalog!vars
    <3>3. CatalogInv'
      BY <2>3, <3>2, CatalogSteps
    <3>. QED
      BY <2>1, <2>3, <3>2, <3>3, PagesSteps
  <2>. QED
    BY <2>1, <2>2, <2>3
<1>3. Inv => HubIsTrue
    BY DownloadsAreTrue, CatalogIsCached, PagesAreTiled DEF HubIsTrue, Catalog!CatalogIsTrue
<1>. QED
    BY <1>1, <1>2, <1>3, PTL DEF ServicesSpec

\* What has ended is not undone: a job keeps its end, whatever is cancelled, started or
\* pruned around it, and the registry keeps no more ended jobs than its limit (jobs.py); a
\* complete download stays (huggingface_downloads.py); a schema is replaced only by a
\* whole newer one (migration.py).
THEOREM EndsAlwaysStay == ServicesSpec => EndsStay
<1> DEFINE Inv  == /\ which = "jobs" => JobInv /\ OverInv
                   /\ which = "downloads" => DownloadInv
                   /\ which = "migration" => SchemaInv /\ \A p \in Process : Grown(p)
           Kept == /\ which = "jobs" => Jobs!JobsStayEnded
                   /\ which = "downloads" => Downloads!CompleteStays /\ Downloads!CompletedIsThere
                   /\ which = "migration" => Schema!OnlyWholeSchemas
<1>1. ServicesInit => Inv
  <2>1. Schema!Init => \A p \in Process : Grown(p)
    BY DEF Schema!Init, Grown
  <2>. QED
    BY <2>1, JobStarts, JobsAreOver, DownloadsStart, SchemaStarts
       DEF ServicesInit, JobsInit, DownloadsInit, CatalogInit, ChatInit, RegistryInit,
           SchemaInit, SettingsInit
<1>2. Inv /\ [ServicesNext]_all => Inv' /\ Kept
  <2> SUFFICES ASSUME Inv, [ServicesNext]_all PROVE Inv' /\ Kept
    OBVIOUS
  <2>1. which' = which
    BY DEF ServicesNext, JobsNext, DownloadsNext, CatalogNext, ChatNext, RegistryNext,
           SchemaNext, SettingsNext, Stopped, all
  <2>2. CASE which = "jobs"
    <3>1. JobsNext \/ UNCHANGED all
      BY <2>2 DEF ServicesNext, JobsNext, DownloadsNext, CatalogNext, ChatNext, RegistryNext,
                  SchemaNext, SettingsNext, Stopped, all
    <3>2. [Jobs!Next]_(Jobs!vars)
      BY <3>1 DEF JobsNext, all, Jobs!vars
    <3>. QED
      BY <2>1, <2>2, <3>2, JobSteps, JobOverSteps
  <2>3. CASE which = "downloads"
    <3>1. DownloadsNext \/ UNCHANGED all
      BY <2>3 DEF ServicesNext, JobsNext, DownloadsNext, CatalogNext, ChatNext, RegistryNext,
                  SchemaNext, SettingsNext, Stopped, all
    <3>2. [Downloads!Next]_(Downloads!vars)
      BY <3>1 DEF DownloadsNext, all, Downloads!vars
    <3>. QED
      BY <2>1, <2>3, <3>2, DownloadSteps DEF Ends
  <2>4. CASE which = "migration"
    <3>1. SchemaNext \/ UNCHANGED all
      BY <2>4 DEF ServicesNext, JobsNext, DownloadsNext, CatalogNext, ChatNext, RegistryNext,
                  SchemaNext, SettingsNext, Stopped, all
    <3>2. [Schema!Next]_(Schema!vars)
      BY <3>1 DEF SchemaNext, all, Schema!vars
    <3>. QED
      BY <2>1, <2>4, <3>2, SchemaSteps, GrownSteps
  <2>. QED
    BY <2>1, <2>2, <2>3, <2>4
<1>3. Inv /\ [ServicesNext]_all => Inv'
    BY <1>2
<1>4. Inv /\ [ServicesNext]_all => [Kept]_all
    BY <1>2
<1>. QED
    BY <1>1, <1>3, <1>4, PTL DEF ServicesSpec, EndsStay

------------------------------------------------------------------------------
(* Types: what the invariants leave open *)

LEMMA JobsAreTyped == JobInv /\ OverInv => Jobs!TypeOK
<1> SUFFICES ASSUME JobInv, OverInv PROVE Jobs!TypeOK
    OBVIOUS
<1>1. ASSUME NEW j \in Jobs!Job, NEW k \in Jobs!Job
      PROVE  j # k /\ {state[j].status, state[k].status} \subseteq Jobs!Terminal
                 <=> (j \in ended[k] <=> k \notin ended[j])
    BY DEF OverInv, EndsOrdered, Over
<1>. QED
    BY <1>1 DEF JobInv, JobTypes, JobState, JobId, JobStatus, ThreadPc, OverInv, EndsOrdered,
                Jobs!TypeOK

LEMMA RegistryIsTyped == RegistryInv => Registry!TypeOK
  BY DEF RegistryInv, RegistryTypes, ImporterState, RegistryPc, Registry!TypeOK

\* The lock is of a process that started, or of none.
LockTyped == lock \in Process \cup {Schema!Nobody}

LEMMA LockSteps == LockTyped /\ [Schema!Next]_(Schema!vars) => LockTyped'
  BY DEF LockTyped, Schema!Next, Schema!vars, Schema!Wait, Schema!Acquire, Schema!TimeOut, Schema!Check,
         Schema!Upgrade, Schema!Commit, Schema!Crash, Schema!Refuse

LEMMA SchemaIsTyped == SchemaInv /\ LockTyped => Schema!TypeOK
  BY DEF SchemaInv, SchemaTypes, SchemaPc, SchemaAt, LockTyped, Schema!TypeOK

\* A load that is to shorten has read more than its limit, and recovery repeats turns of
\* chat runs only.
ChatRest ==
    /\ \A c \in Caller : caller[c].pc = "shorten" => Len(caller[c].read) > caller[c].limit
    /\ crashes \in 0..MaxCrashes /\ repeated \subseteq owned

LEMMA ChatIsTyped == ChatInv /\ ChatRest => Chat!TypeOK
<1> SUFFICES ASSUME ChatInv, ChatRest PROVE Chat!TypeOK
    OBVIOUS
<1>1. ASSUME NEW k \in Chat!Kind
      PROVE  /\ \A i \in DOMAIN store[k] : store[k][i] \in Chat!Message
             /\ \A i \in DOMAIN log[k] : log[k][i] \in Chat!Message
  <2>1. store[k] \in Seq(Chat!Message) /\ log[k] \in Seq(Chat!Message)
    BY DEF ChatInv, ChatTypes
  <2>. QED
    BY <2>1
<1>2. ASSUME NEW c \in Caller
      PROVE  /\ caller[c].pc \in ChatPc /\ caller[c].use \in Chat!Use /\ caller[c].kind \in Chat!Kind
             /\ caller[c].limit \in ChatLimit \cup {1} /\ caller[c].turn \in Chat!Turn \cup {0}
  <2>1. caller[c] \in ChatState /\ 0..MaxTurns \subseteq Chat!Turn \cup {0}
    BY BoundsAssumption DEF ChatInv, ChatTypes, Chat!Turn
  <2>. QED
    BY <2>1 DEF ChatState
<1>. QED
    BY <1>1, <1>2 DEF ChatInv, ChatTypes, ChatRest, ChatPc, Chat!TypeOK

\* A step that leaves no other load than before between its two halves.
LEMMA ChatRests ==
    ASSUME ChatRest, crashes' = crashes, owned \subseteq owned', repeated' \subseteq repeated \cup owned',
           \A c \in Caller : caller'[c].pc = "shorten" =>
               \/ Len(caller'[c].read) > caller'[c].limit
               \/ /\ caller[c].pc = "shorten" /\ caller'[c].read = caller[c].read
                  /\ caller'[c].limit = caller[c].limit
    PROVE  ChatRest'
  BY DEF ChatRest

LEMMA ChatRestSteps == ChatInv /\ ChatRest /\ [Chat!Next]_(Chat!vars) => ChatRest'
<1> SUFFICES ASSUME ChatInv, ChatRest, [Chat!Next]_(Chat!vars) PROVE ChatRest'
    OBVIOUS
<1>1. /\ \A c \in Caller : caller[c] \in ChatState
      /\ caller = [c \in Caller |-> caller[c]]
    BY DEF ChatInv, ChatTypes
<1>2. ASSUME NEW c \in Caller, NEW r, caller' = [caller EXCEPT ![c] = r], crashes' = crashes,
             owned \subseteq owned', repeated' = repeated,
             r.pc = "shorten" => Len(r.read) > r.limit
      PROVE  ChatRest'
  <2>1. \A o \in Caller : caller'[o] = IF o = c THEN r ELSE caller[o]
    BY <1>1, <1>2
  <2>. QED
    BY <1>2, <2>1, ChatRests
<1>3. ASSUME NEW k \in Chat!Kind, NEW o \in Caller, NEW x, x = Chat!Outdated(k)[o], x.pc = "shorten"
      PROVE  caller[o].pc = "shorten" /\ x.read = caller[o].read /\ x.limit = caller[o].limit
    BY <1>1, <1>3 DEF Chat!Outdated, ChatState
<1>4. ASSUME NEW c \in Caller, NEW r, NEW k \in Chat!Kind, caller' = [Chat!Outdated(k) EXCEPT ![c] = r],
             crashes' = crashes, UNCHANGED <<owned, repeated>>, r.pc # "shorten"
      PROVE  ChatRest'
  <2>1. \A o \in Caller : caller'[o] = IF o = c THEN r ELSE Chat!Outdated(k)[o]
    BY <1>4 DEF Chat!Outdated
  <2>2. ASSUME NEW o \in Caller, caller'[o].pc = "shorten"
        PROVE  /\ caller[o].pc = "shorten" /\ caller'[o].read = caller[o].read
               /\ caller'[o].limit = caller[o].limit
    BY <1>3, <1>4, <2>1, <2>2
  <2>. QED
    BY <1>4, <2>2, ChatRests
<1>5. ASSUME NEW c \in Caller, NEW use \in Chat!Use, NEW kind \in Chat!Kind, NEW limit \in ChatLimit,
             Chat!Begin(c, use, kind, limit)
      PROVE  ChatRest'
  <2> DEFINE r == [Chat!Idle EXCEPT !.pc = "load", !.use = use, !.kind = kind, !.limit = limit,
                                    !.turn = turns' * (IF use = "view" THEN 0 ELSE 1)]
  <2>1. r.pc = "load"
    BY DEF Chat!Idle
  <2>2. /\ caller' = [caller EXCEPT ![c] = r] /\ owned \subseteq owned'
        /\ UNCHANGED <<crashes, repeated>>
    BY <1>5 DEF Chat!Begin
  <2> HIDE DEF r
  <2>. QED
    BY <1>2, <2>1, <2>2
<1>6. ASSUME NEW c \in Caller, Chat!Loaded(c).pc = "shorten" PROVE FALSE
    BY <1>1, <1>6 DEF Chat!Loaded, Chat!Idle, ChatState
<1>7. ASSUME NEW c \in Caller, Chat!Load(c) PROVE ChatRest'
  <2> DEFINE messages == store[caller[c].kind]
             longer   == [caller[c] EXCEPT !.pc = "shorten", !.read = messages]
  <2>1. longer.read = messages /\ longer.limit = caller[c].limit
    BY <1>1 DEF ChatState
  <2>2. /\ caller' = [caller EXCEPT ![c] = IF Len(messages) > caller[c].limit THEN longer
                                           ELSE Chat!Loaded(c)]
        /\ UNCHANGED <<crashes, owned, repeated>>
    BY <1>1, <1>7 DEF Chat!Load
  <2> HIDE DEF longer, messages
  <2>. QED
    BY <1>2, <1>6, <2>1, <2>2
<1>8. ASSUME NEW c \in Caller, Chat!Shorten(c) PROVE ChatRest'
  <2> DEFINE r == [Chat!Loaded(c) EXCEPT !.read = <<>>, !.stale = FALSE]
  <2>1. r.pc # "shorten"
    BY <1>1 DEF Chat!Loaded, Chat!Idle, ChatState
  <2>2. /\ caller' = [Chat!Outdated(caller[c].kind) EXCEPT ![c] = r]
        /\ UNCHANGED <<crashes, owned, repeated>> /\ caller[c].kind \in Chat!Kind
    BY <1>1, <1>8 DEF Chat!Shorten, ChatState
  <2> HIDE DEF r
  <2>. QED
    BY <1>4, <2>1, <2>2
<1>9. ASSUME NEW c \in Caller, Chat!AppendExchange(c) PROVE ChatRest'
    BY <1>1, <1>4, <1>9 DEF Chat!AppendExchange, Chat!Idle, ChatState
<1>10. ASSUME NEW c \in Caller, Chat!AppendChatResult(c) PROVE ChatRest'
  <2> DEFINE k == caller[c].kind
             r == [Chat!Outdated(k)[c] EXCEPT !.pc = "recorded"]
  <2>1. k \in Chat!Kind /\ caller[c] \in ChatState /\ caller[c].pc # "shorten"
    BY <1>1, <1>10 DEF Chat!AppendChatResult, ChatState
  <2>2. r.pc = "recorded"
    BY <2>1 DEF Chat!Outdated, ChatState
  <2>3. /\ caller' = [Chat!Outdated(k) EXCEPT ![c] = r]
        /\ UNCHANGED <<crashes, owned, repeated>>
    BY <1>10 DEF Chat!AppendChatResult
  <2> HIDE DEF r, k
  <2>. QED
    BY <1>4, <2>1, <2>2, <2>3
<1>11. ASSUME NEW c \in Caller, Chat!NextNode(c) \/ Chat!Complete(c) \/ Chat!Fail(c) PROVE ChatRest'
  <2>1. [caller[c] EXCEPT !.pc = "load"].pc = "load" /\ Chat!Idle.pc = "idle"
    BY <1>1 DEF Chat!Idle, ChatState
  <2>2. /\ \/ caller' = [caller EXCEPT ![c] = [caller[c] EXCEPT !.pc = "load"]]
           \/ caller' = [caller EXCEPT ![c] = Chat!Idle]
        /\ UNCHANGED <<crashes, owned, repeated>>
    BY <1>11 DEF Chat!NextNode, Chat!Complete, Chat!Fail
  <2>. QED
    BY <1>2, <2>1, <2>2
<1>12. ASSUME NEW k \in Chat!Kind, Chat!ClearMessages(k) PROVE ChatRest'
    BY <1>3, <1>12, ChatRests DEF Chat!ClearMessages
<1>13. CASE Chat!Crash
  <2>1. \A c \in Caller : caller[c].pc = "recorded" => caller[c].turn \in owned
    BY DEF ChatInv, ChatAt
  <2>2. crashes' \in 0..MaxCrashes /\ repeated' \subseteq owned /\ owned' = owned
    BY <1>13, <2>1, BoundsAssumption DEF Chat!Crash, ChatRest
  <2>3. ASSUME NEW c \in Caller PROVE caller'[c].pc # "shorten"
    <3>1. caller'[c] = Chat!Idle \/ (caller'[c] = Chat!Recovered(c) /\ caller[c].pc # "shorten")
      BY <1>13 DEF Chat!Crash
    <3>2. Chat!Idle.pc = "idle" /\ (caller[c].pc # "shorten" => Chat!Recovered(c).pc # "shorten")
      BY <1>1 DEF Chat!Idle, Chat!Recovered, ChatState
    <3>. QED
      BY <3>1, <3>2
  <2>. QED
    BY <2>2, <2>3 DEF ChatRest
<1>14. CASE UNCHANGED Chat!vars
    BY <1>14 DEF Chat!vars, ChatRest
<1>. QED
    BY <1>5, <1>7, <1>8, <1>9, <1>10, <1>11, <1>12, <1>13, <1>14 DEF Chat!Next

\* A directory that is not there holds nothing, and nobody has a file of it open.
DownloadRest ==
    /\ crashes \in 0..MaxCrashes
    /\ told \in [Downloads!Download -> {"none", "start", "progress", "message"}]
    /\ ~dir.there => dir = Downloads!NoDir /\ \A f \in Downloads!File : handles[f] = {}

LEMMA DownloadsAreTyped == DownloadInv /\ DownloadRest => Downloads!TypeOK
<1> SUFFICES ASSUME DownloadInv, DownloadRest PROVE Downloads!TypeOK
    OBVIOUS
<1>1. /\ dir.there \in BOOLEAN /\ dir.meta \in {"none", "partial", "complete"}
      /\ dir.revision \in Downloads!Revision \cup {0}
      /\ dir.files \in [Downloads!File -> Downloads!Content]
    BY DEF DownloadInv, DownloadTypes, DirState
<1>2. \A d \in Downloads!Download : \A f \in Downloads!File : d \in handles[f] =>
           download[d].pc = "write" /\ download[d].file = f
    BY DEF DownloadInv, Heeds
<1>3. /\ hub \in Downloads!Revision /\ overlap \in BOOLEAN
      /\ handles \in [Downloads!File -> SUBSET Downloads!Download]
      /\ download \in [Downloads!Download -> DownloadState]
    BY DEF DownloadInv, DownloadTypes
<1>. QED
    BY ONLY <1>1, <1>2, <1>3, DownloadRest
       DEF DownloadRest, DownloadState, DownloadPc, Downloads!TypeOK

LEMMA DownloadRestSteps ==
    DownloadInv /\ DownloadRest /\ [Downloads!Next]_(Downloads!vars) => DownloadRest'
<1> SUFFICES ASSUME DownloadInv, DownloadRest, [Downloads!Next]_(Downloads!vars) PROVE DownloadRest'
    OBVIOUS
<1>1. dir \in DirState /\ handles \in [Downloads!File -> SUBSET Downloads!Download]
    BY DEF DownloadInv, DownloadTypes
<1>2. ASSUME crashes' \in 0..MaxCrashes, NEW d \in Downloads!Download,
             NEW t \in {"none", "start", "progress", "message"},
             told' = told \/ told' = [told EXCEPT ![d] = t],
             ~dir'.there => dir' = Downloads!NoDir /\ \A f \in Downloads!File : handles'[f] = {}
      PROVE  DownloadRest'
    BY <1>2 DEF DownloadRest
<1>3. ASSUME NEW d \in Downloads!Download, crashes' = crashes,
             told' = told \/ \E t \in {"none", "start", "progress", "message"} : told' = [told EXCEPT ![d] = t],
             \/ dir'.there
             \/ dir' = dir /\ \A f \in Downloads!File : handles'[f] \subseteq handles[f]
      PROVE  DownloadRest'
  <2>1. crashes' \in 0..MaxCrashes
    BY <1>3 DEF DownloadRest
  <2>2. ~dir'.there => dir' = Downloads!NoDir /\ \A f \in Downloads!File : handles'[f] = {}
    BY <1>3 DEF DownloadRest
  <2>3. PICK t \in {"none", "start", "progress", "message"} : told' = told \/ told' = [told EXCEPT ![d] = t]
    BY <1>3
  <2>. QED
    BY <1>2, <2>1, <2>2, <2>3
<1>4. ASSUME NEW new \in Downloads!Removals, dir' = new,
             \A f \in Downloads!File : new.files[f] = Downloads!Absent => handles'[f] = {}
      PROVE  ~dir'.there => dir' = Downloads!NoDir /\ \A f \in Downloads!File : handles'[f] = {}
  <2>1. new = Downloads!NoDir \/ new.there
    BY DEF Downloads!Removals, Downloads!NoDir
  <2>2. \A f \in Downloads!File : Downloads!NoDir.files[f] = Downloads!Absent
    BY DEF Downloads!NoDir
  <2>. QED
    BY <1>4, <2>1, <2>2
<1>5. ASSUME NEW d \in Downloads!Download,
             \/ Downloads!Ask(d) \/ Downloads!Check(d) \/ Downloads!Manifest(d) \/ Downloads!Announce(d)
             \/ Downloads!Cancel(d) \/ Downloads!LastStopCheck(d) \/ Downloads!Validate(d)
             \/ Downloads!Clear(d)
      PROVE  DownloadRest'
    BY <1>3, <1>5 DEF Downloads!Ask, Downloads!Check, Downloads!Manifest, Downloads!Announce,
                      Downloads!Cancel, Downloads!LastStopCheck, Downloads!Validate, Downloads!Clear
<1>6. ASSUME NEW d \in Downloads!Download,
             \/ Downloads!Describe(d) \/ Downloads!Start(d) \/ Downloads!BeginFile(d)
             \/ Downloads!Complete(d)
      PROVE  DownloadRest'
  <2>1. dir'.there /\ UNCHANGED <<crashes, told>>
    BY <1>1, <1>6 DEF Downloads!Describe, Downloads!Start, Downloads!BeginFile, Downloads!Complete,
                      Downloads!WriteMetadata, DirState
  <2>. QED
    BY <1>3, <2>1
<1>7. ASSUME NEW d \in Downloads!Download, Downloads!Open(d) PROVE DownloadRest'
  <2>1. dir'.there /\ UNCHANGED <<crashes, told>>
    BY <1>1, <1>7 DEF Downloads!Open, DirState
  <2>. QED
    BY <1>3, <2>1
<1>8. ASSUME NEW d \in Downloads!Download, Downloads!Reset(d) PROVE DownloadRest'
  <2>1. PICK new \in Downloads!Removals : dir' = [new EXCEPT !.there = TRUE]
    BY <1>8 DEF Downloads!Reset
  <2>2. dir'.there
    BY <2>1 DEF Downloads!Removals, Downloads!NoDir
  <2>. QED
    BY <1>3, <1>8, <2>2 DEF Downloads!Reset
<1>9. ASSUME NEW d \in Downloads!Download, Downloads!Stop(d) PROVE DownloadRest'
  <2>1. PICK new \in Downloads!Removals :
            dir' = new
            /\ handles' = [f \in Downloads!File |-> IF new.files[f] = Downloads!Absent THEN {}
                                                    ELSE Downloads!Close(d)[f]]
    BY <1>9 DEF Downloads!Stop
  <2>2. ~dir'.there => dir' = Downloads!NoDir /\ \A f \in Downloads!File : handles'[f] = {}
    BY <1>4, <2>1
  <2>3. told' = [told EXCEPT ![d] = "message"] /\ crashes' \in 0..MaxCrashes
    BY <1>9 DEF Downloads!Stop, DownloadRest
  <2>. QED
    BY <1>2, <2>2, <2>3
<1>10. ASSUME NEW d \in Downloads!Download, Downloads!Fail(d) PROVE DownloadRest'
  <2>1. /\ UNCHANGED <<crashes, told, dir>>
        /\ \A f \in Downloads!File : handles'[f] \subseteq handles[f]
    BY <1>10 DEF Downloads!Fail, Downloads!Close
  <2>. QED
    BY <1>3, <2>1
<1>11. ASSUME NEW d \in Downloads!Download, Downloads!EndFile(d) PROVE DownloadRest'
  <2>1. /\ UNCHANGED crashes /\ told' = [told EXCEPT ![d] = "progress"]
        /\ \A f \in Downloads!File : handles'[f] \subseteq handles[f]
    BY <1>11 DEF Downloads!EndFile, Downloads!Close
  <2>2. dir' = dir \/ dir'.there
    <3>1. download[d].file \in Downloads!File
      BY <1>11 DEF Downloads!EndFile, Downloads!At, DownloadInv, Heeds
    <3>2. CASE d \notin handles[download[d].file]
      BY <1>11, <3>2 DEF Downloads!EndFile
    <3>3. CASE d \in handles[download[d].file]
      <4>1. dir.there
        BY <3>1, <3>3 DEF DownloadRest
      <4>. QED
        BY <1>1, <1>11, <3>3, <4>1 DEF Downloads!EndFile, DirState
    <3>. QED
      BY <3>2, <3>3
  <2>. QED
    BY <1>3, <2>1, <2>2
<1>12. CASE Downloads!Crash
  <2>1. crashes' \in 0..MaxCrashes /\ told' = told
    BY <1>12, BoundsAssumption DEF Downloads!Crash, DownloadRest
  <2>2. dir' = dir \/ dir'.there
    <3>1. dir' = dir \/ (dir.there /\ dir' = [dir EXCEPT !.meta = "none", !.revision = 0])
      BY <1>12 DEF Downloads!Crash
    <3>. QED
      BY <1>1, <3>1 DEF DirState
  <2>3. \A f \in Downloads!File : handles'[f] = {}
    BY <1>12 DEF Downloads!Crash
  <2>. QED
    BY <2>1, <2>2, <2>3 DEF DownloadRest
<1>13. CASE Downloads!NewRevision \/ Downloads!Rest \/ UNCHANGED Downloads!vars
    BY <1>13 DEF Downloads!NewRevision, Downloads!Rest, Downloads!vars, DownloadRest
<1>. QED
    BY <1>5, <1>6, <1>7, <1>8, <1>9, <1>10, <1>11, <1>12, <1>13 DEF Downloads!Next
------------------------------------------------------------------------------
(* Types of the provider settings, whatever overlaps *)

Keys   == [Settings!Provider -> Settings!Value]
Masked == [Settings!Provider -> Settings!Value \cup {"keep"}]

\* The rows have a provider and an id of their own, and their ids are bounded.
RowsTyped ==
    /\ \A x \in rows : x.provider \in Settings!Provider /\ x.key \in ApiKey /\ x.id \in Nat
    /\ \A x, y \in rows : x.id = y.id \/ x.provider = y.provider => x = y
    /\ \E b \in Nat : \A x \in rows : x.id <= b

DeskTyped ==
    /\ page \in PageState /\ page.saved <= page.revision
    /\ page.op \in {"load", "loading"} => profile # Settings!NoProfile
    /\ want \in Keys /\ excused \in BOOLEAN
    /\ profile = Settings!NoProfile \/ profile \in Keys

\* The page waits for the answer of this request.
ByPage(r) == request[r].kind # "none" /\ request[r].for = "page"

\* What the page that waits for a request is at.
OnPage(q) ==
    /\ page.in
    /\ q.kind = "save" => page.saving /\ q.revision \in Nat /\ q.revision <= page.revision
    /\ q.kind # "save" => /\ page.saved = page.revision /\ ~page.saving
                          /\ page.op \in {"saving", "loading"}

RequestTyped(q) ==
    /\ DOMAIN q = DOMAIN Settings!NoRequest
    /\ q.kind \in {"none", "save", "profile", "activate"}
    /\ q.kind # "none" => q.payload \in Masked
    /\ q.then = Settings!NoProfile \/ q.then \in Masked
    /\ q.pc # "new" => q.resolved \in Keys
    /\ q.kind = "activate" => profile # Settings!NoProfile
    /\ q.kind # "none" /\ q.for = "page" => OnPage(q)

\* One request is the page's own at most, and it is a save exactly while the page saves.
SettingsTyped ==
    /\ RowsTyped /\ DeskTyped
    /\ request = [r \in Settings!Request |-> request[r]]
    /\ \A r \in Settings!Request : RequestTyped(request[r])
    /\ \A r, s \in Settings!Request : ByPage(r) /\ ByPage(s) => r = s
    /\ page.saving => \E r \in Settings!Request : ByPage(r) /\ request[r].kind = "save"

LEMMA NoRequestTyped ==
    /\ RequestTyped(Settings!NoRequest) /\ Settings!NoRequest.kind = "none"
    /\ RequestTyped(Settings!NoRequest)'
  BY DEF RequestTyped, Settings!NoRequest, Settings!NoProfile, Settings!Provider

\* A request that was just made.
LEMMA NewRequestTyped ==
    ASSUME NEW kind \in {"save", "profile", "activate"}, NEW for, NEW revision, NEW payload \in Masked
    PROVE  LET q == [Settings!NoRequest EXCEPT !.kind = kind, !.for = for, !.revision = revision,
                                               !.payload = payload] IN
           /\ DOMAIN q = DOMAIN Settings!NoRequest
           /\ q.kind = kind /\ q.for = for /\ q.revision = revision /\ q.payload = payload
           /\ q.then = Settings!NoProfile /\ q.pc = "new"
  BY DEF Settings!NoRequest

LEMMA StoredIsTyped == RowsTyped => Settings!Stored \in Keys
<1> SUFFICES ASSUME RowsTyped, NEW p \in Settings!Provider PROVE Settings!Stored[p] \in Settings!Value
    BY StoredIsFunction DEF Keys
<1> DEFINE s == {x \in rows : x.provider = p}
<1>1. Settings!Stored[p] = IF s = {} THEN Settings!None ELSE (CHOOSE x \in s : TRUE).key
    BY DEF Settings!Stored, Settings!KeysOf
<1>2. s # {} => (CHOOSE x \in s : TRUE) \in s
    OBVIOUS
<1>. QED
    BY <1>1, <1>2 DEF RowsTyped, Settings!Value

LEMMA PayloadIsTyped == page \in PageState => Settings!Payload(page.form) \in Masked
<1> SUFFICES ASSUME page \in PageState, NEW p \in Settings!Provider
             PROVE  Settings!Payload(page.form)[p] \in Settings!Value \cup {"keep"}
    BY DEF Settings!Payload, Masked
<1>1. page.form[p].key \in Settings!Value
    BY DEF PageState
<1>. QED
    BY <1>1 DEF Settings!Payload, Settings!Value

LEMMA ResolvedIsTyped ==
    ASSUME NEW m \in Masked, NEW k \in Keys PROVE Settings!Resolved(m, k) \in Keys
  BY DEF Settings!Resolved, Masked, Keys

LEMMA SettingsTypedStart == Settings!Init => SettingsTyped
<1> SUFFICES ASSUME Settings!Init PROVE SettingsTyped
    OBVIOUS
<1>1. PICK key \in Settings!Value :
         /\ rows = IF key = Settings!None THEN {} ELSE {[id |-> 1, provider |-> 1, key |-> key]}
         /\ want = [p \in Settings!Provider |-> IF p = 1 THEN key ELSE Settings!None]
    BY DEF Settings!Init
<1>2. /\ profile = Settings!NoProfile /\ page = Settings!Away /\ excused = FALSE
      /\ request = [r \in Settings!Request |-> Settings!NoRequest]
    BY DEF Settings!Init
<1>3. RowsTyped
  <2>1. 1 \in Settings!Provider
    BY BoundsAssumption DEF Settings!Provider
  <2>2. \A x \in rows : x = [id |-> 1, provider |-> 1, key |-> key] /\ key \in ApiKey
    BY <1>1 DEF Settings!Value
  <2>3. \A x \in rows : x.id = 1 /\ x.provider = 1 /\ x.key \in ApiKey
    BY <2>2
  <2>4. \A x, y \in rows : x = y
    BY <2>2
  <2>. QED
    BY <2>1, <2>3, <2>4 DEF RowsTyped
<1>4. DeskTyped
  <2>1. want \in Keys
    BY <1>1 DEF Keys, Settings!Value
  <2>2. page.op = "none" /\ page.saved = 0 /\ page.revision = 0
    BY <1>2 DEF Settings!Away
  <2>3. page \in PageState
    BY <1>2, PageIsAway
  <2>4. profile = Settings!NoProfile /\ excused \in BOOLEAN
    BY <1>2
  <2>. QED
    BY <2>1, <2>2, <2>3, <2>4 DEF DeskTyped
<1>5. ~page.saving
    BY <1>2 DEF Settings!Away
<1>6. \A r \in Settings!Request : RequestTyped(request[r]) /\ ~ByPage(r)
    BY <1>2, NoRequestTyped DEF ByPage
<1>. QED
    BY <1>2, <1>3, <1>4, <1>5, <1>6 DEF SettingsTyped

LEMMA SettingsAreTyped == SettingsTyped => Settings!TypeOK
<1> SUFFICES ASSUME SettingsTyped PROVE Settings!TypeOK
    OBVIOUS
<1> DEFINE mine == {r \in Settings!Active : request[r].for = "page"}
<1>1. Settings!Cardinality(mine) <= 1
  <2>1. \A r, s \in mine : r = s
    BY DEF SettingsTyped, Settings!Active, ByPage
  <2>2. mine = {} \/ \E r : mine = {r}
    BY <2>1
  <2>3. Settings!Cardinality(mine) = Cardinality(mine)
    BY DEF Settings!Cardinality, Cardinality
  <2> HIDE DEF mine
  <2>4. CASE mine = {}
    BY <2>3, <2>4, FS_EmptySet
  <2>5. CASE \E r : mine = {r}
    BY <2>3, <2>5, FS_Singleton
  <2>. QED
    BY <2>2, <2>4, <2>5
<1>2. page.saving => \E r \in Settings!Active : request[r].for = "page" /\ request[r].kind = "save"
    BY DEF SettingsTyped, Settings!Active, ByPage
<1>3. /\ page.in \in BOOLEAN /\ page.timer \in BOOLEAN /\ page.saving \in BOOLEAN
      /\ page.op \in {"none", "save", "load", "saving", "loading"}
    BY DEF SettingsTyped, DeskTyped, PageState
<1> HIDE DEF mine
<1>4. /\ \A x \in rows : x.provider \in Settings!Provider /\ x.key \in ApiKey /\ x.id \in Nat
      /\ \A x, y \in rows : x.id = y.id \/ x.provider = y.provider => x = y
    BY DEF SettingsTyped, RowsTyped
<1>5. /\ page.saved <= page.revision /\ want \in Keys /\ excused \in BOOLEAN
      /\ profile = Settings!NoProfile \/ profile \in Keys
    BY DEF SettingsTyped, DeskTyped
<1>. QED
    BY ONLY <1>1, <1>2, <1>3, <1>4, <1>5 DEF Settings!TypeOK, Keys, mine

\* A step that changes no request.
LEMMA DeskMoves ==
    ASSUME SettingsTyped, UNCHANGED <<rows, request, profile>>, DeskTyped',
           page'.saving => page.saving,
           \A r \in Settings!Request : ByPage(r) => OnPage(request[r])'
    PROVE  SettingsTyped'
<1>1. RowsTyped'
    BY DEF SettingsTyped, RowsTyped, Settings!Provider
<1>2. ASSUME NEW r \in Settings!Request PROVE RequestTyped(request[r])'
  <2>1. RequestTyped(request[r]) /\ request'[r] = request[r]
    BY DEF SettingsTyped
  <2>2. request[r].kind # "none" /\ request[r].for = "page" => OnPage(request[r])'
    BY DEF ByPage
  <2>3. Masked' = Masked /\ Keys' = Keys
    BY DEF Masked, Keys, Settings!Provider, Settings!Value
  <2>. QED
    BY <2>1, <2>2, <2>3, Zenon
       DEF RequestTyped, Settings!NoRequest, Settings!NoProfile, Settings!Provider
<1>. QED
    BY <1>1, <1>2 DEF SettingsTyped, ByPage, Settings!Request

\* A step that changes one request: the only one of the page, or one the page knows nothing of.
LEMMA RequestChanges ==
    ASSUME SettingsTyped, NEW r \in Settings!Request, NEW q, request' = [request EXCEPT ![r] = q],
           RowsTyped', DeskTyped', profile # Settings!NoProfile => profile' # Settings!NoProfile,
           RequestTyped(request[r])',
           \/ /\ \A s \in Settings!Request \ {r} : ~ByPage(s)
              /\ page'.saving => q.kind = "save" /\ q.for = "page"
           \/ /\ page' = page /\ ~ByPage(r)
              /\ q.kind = "none" \/ q.for # "page"
    PROVE  SettingsTyped'
<1>1. /\ request'[r] = q /\ \A s \in Settings!Request \ {r} : request'[s] = request[s]
      /\ request' = [s \in Settings!Request |-> request'[s]]
    BY DEF SettingsTyped
<1>2. /\ \A s \in Settings!Request \ {r} : ByPage(s)' <=> ByPage(s)
      /\ Settings!Request' = Settings!Request
    BY <1>1 DEF ByPage, Settings!Request
<1>3. ASSUME NEW s \in Settings!Request PROVE RequestTyped(request[s])'
  <2>1. CASE s = r
    BY <2>1
  <2>2. CASE s # r
    <3>1. RequestTyped(request[s]) /\ request'[s] = request[s]
      BY <1>1, <2>2 DEF SettingsTyped
    <3>2. ByPage(s) => page' = page /\ OnPage(request[s])'
      BY <2>2, <3>1 DEF RequestTyped, ByPage, OnPage
    <3>3. Masked' = Masked /\ Keys' = Keys
      BY DEF Masked, Keys, Settings!Provider, Settings!Value
    <3>. QED
      BY <3>1, <3>2, <3>3, Zenon
         DEF ByPage, RequestTyped, Settings!NoRequest, Settings!NoProfile, Settings!Provider
  <2>. QED
    BY <2>1, <2>2
<1>4. ByPage(r)' <=> q.kind # "none" /\ q.for = "page"
    BY <1>1 DEF ByPage
<1>5. \A s, t \in Settings!Request : ByPage(s)' /\ ByPage(t)' => s = t
  <2>1. \A s, t \in Settings!Request : ByPage(s) /\ ByPage(t) => s = t
    BY DEF SettingsTyped
  <2>. QED
    BY <1>2, <1>4, <2>1
<1>6. page'.saving => \E s \in Settings!Request : ByPage(s)' /\ request'[s].kind = "save"
  <2>1. ASSUME page'.saving, page' = page, ~ByPage(r)
        PROVE  \E s \in Settings!Request : ByPage(s)' /\ request'[s].kind = "save"
    <3>1. PICK s \in Settings!Request : ByPage(s) /\ request[s].kind = "save"
      BY <2>1 DEF SettingsTyped
    <3>2. s # r /\ ByPage(s)' /\ request'[s].kind = "save"
      BY <1>1, <1>2, <2>1, <3>1
    <3>. QED
      BY <3>2
  <2>2. ASSUME page'.saving, q.kind = "save", q.for = "page"
        PROVE  \E s \in Settings!Request : ByPage(s)' /\ request'[s].kind = "save"
    BY <1>1, <1>4, <2>2
  <2>. QED
    BY <2>1, <2>2
<1>. QED
    BY <1>1, <1>2, <1>3, <1>5, <1>6 DEF SettingsTyped

\* What a page that is not at the server has to do with the requests there.
LEMMA PageIsFree ==
    ASSUME SettingsTyped
    PROVE  /\ ~page.in => \A r \in Settings!Request : ~ByPage(r)
           /\ ~page.saving /\ page.op \notin {"saving", "loading"} =>
                \A r \in Settings!Request : ~ByPage(r)
           /\ ~page.saving /\ page.saved < page.revision => \A r \in Settings!Request : ~ByPage(r)
           /\ page \in PageState
<1>1. \A r \in Settings!Request : ByPage(r) => OnPage(request[r])
    BY DEF SettingsTyped, RequestTyped, ByPage
<1>2. page \in PageState /\ page.saved \in Nat /\ page.revision \in Nat
    BY DEF SettingsTyped, DeskTyped, PageState
<1>3. page.saved < page.revision => page.saved # page.revision
    BY <1>2
<1>. QED
    BY <1>1, <1>2, <1>3 DEF OnPage

LEMMA LoadTyped == SettingsTyped /\ Settings!LoadPage => SettingsTyped'
<1> SUFFICES ASSUME SettingsTyped, Settings!LoadPage PROVE SettingsTyped'
    OBVIOUS
<1>1. /\ ~page.in /\ UNCHANGED <<rows, profile, request, want>>
      /\ page' = [Settings!Away EXCEPT !.in = TRUE, !.form = Settings!FormOf(Settings!Stored)]
      /\ excused' = (excused \/ Settings!Active # {})
    BY DEF Settings!LoadPage
<1>2. Settings!FormOf(Settings!Stored) \in
         [Settings!Provider -> [key : Settings!Value, has : BOOLEAN, dirty : BOOLEAN]]
    BY DEF Settings!FormOf, Settings!Value
<1>3. page' \in PageState
    BY <1>1, <1>2, PageIsAway, Zenon DEF PageState
<1>4. page'.revision = 0 /\ page'.saved = 0 /\ page'.op = "none" /\ ~page'.saving
    BY <1>1 DEF Settings!Away
<1>5. /\ want \in Keys /\ excused \in BOOLEAN
      /\ profile = Settings!NoProfile \/ profile \in Keys
    BY DEF SettingsTyped, DeskTyped
<1>6. page'.saved <= page'.revision /\ page'.op \notin {"load", "loading"} /\ excused' \in BOOLEAN
    BY <1>1, <1>4, <1>5
<1>7. DeskTyped'
  <2>1. want' \in Keys' /\ (profile' = Settings!NoProfile' \/ profile' \in Keys')
    BY <1>1, <1>5 DEF Keys, Settings!NoProfile, Settings!Provider, Settings!Value
  <2>. QED
    BY <1>3, <1>6, <2>1 DEF DeskTyped, PageState, Settings!Provider, Settings!Value
<1>. QED
    BY <1>1, <1>4, <1>7, DeskMoves, PageIsFree

LEMMA RowsHold == RowsTyped /\ UNCHANGED rows => RowsTyped'
  BY DEF RowsTyped, Settings!Provider

LEMMA DeskHolds ==
    ASSUME NEW w \in PageState, page' = w, w.saved <= w.revision,
           w.op \in {"load", "loading"} => profile' # Settings!NoProfile,
           want' \in Keys, excused' \in BOOLEAN,
           profile' = Settings!NoProfile \/ profile' \in Keys
    PROVE  DeskTyped'
  BY DEF DeskTyped, PageState, Keys, Settings!NoProfile, Settings!Provider, Settings!Value

LEMMA EditTyped ==
    ASSUME SettingsTyped, NEW p \in Settings!Provider, NEW key \in Settings!Value,
           Settings!Edit(p, key)
    PROVE  SettingsTyped'
<1> DEFINE entry == [key |-> key, has |-> page.form[p].has, dirty |-> TRUE]
           w     == [page EXCEPT !.form[p] = entry, !.revision = @ + 1, !.timer = TRUE]
<1>1. /\ page.in /\ page.op = "none" /\ UNCHANGED <<rows, profile, request, excused>>
      /\ want' = [want EXCEPT ![p] = key] /\ page' = w
    BY DEF Settings!Edit
<1>2. /\ page \in PageState /\ page.saved \in Nat /\ page.revision \in Nat
      /\ page.saved <= page.revision /\ want \in Keys /\ excused \in BOOLEAN
      /\ profile = Settings!NoProfile \/ profile \in Keys
    BY DEF SettingsTyped, DeskTyped, PageState
<1>3. w \in PageState
  <2>1. page.form \in [Settings!Provider -> [key : Settings!Value, has : BOOLEAN, dirty : BOOLEAN]]
    BY <1>2 DEF PageState
  <2>2. entry \in [key : Settings!Value, has : BOOLEAN, dirty : BOOLEAN]
    BY <2>1
  <2> HIDE DEF entry
  <2>3. [page.form EXCEPT ![p] = entry]
          \in [Settings!Provider -> [key : Settings!Value, has : BOOLEAN, dirty : BOOLEAN]]
    BY <2>1, <2>2
  <2>4. page.revision + 1 \in Nat
    BY <1>2
  <2>. QED
    BY <1>2, <2>3, <2>4, Zenon DEF PageState
<1>4. /\ w.in = page.in /\ w.revision = page.revision + 1 /\ w.saved = page.saved
      /\ w.saving = page.saving /\ w.op = page.op
    BY <1>2 DEF PageState
<1> HIDE DEF w, entry
<1>5. want' \in Keys
    BY <1>1, <1>2 DEF Keys
<1>6. DeskTyped'
  <2>1. w.saved <= w.revision /\ w.op \notin {"load", "loading"}
    BY <1>1, <1>2, <1>4
  <2>. QED
    BY <1>1, <1>2, <1>3, <1>5, <2>1, DeskHolds DEF Settings!NoProfile, Settings!Provider
<1>7. ASSUME NEW r \in Settings!Request, ByPage(r) PROVE OnPage(request[r])'
  <2>1. OnPage(request[r]) /\ request'[r] = request[r]
    BY <1>1, <1>7 DEF SettingsTyped, RequestTyped, ByPage
  <2>2. request[r].kind = "save" /\ page.saving /\ request[r].revision \in Nat
        /\ request[r].revision <= page.revision
    BY <1>1, <2>1 DEF OnPage
  <2>3. request[r].revision <= page.revision + 1
    BY <1>2, <2>2
  <2>. QED
    BY <1>1, <1>4, <2>1, <2>2, <2>3 DEF OnPage
<1>. QED
    BY <1>1, <1>4, <1>6, <1>7, DeskMoves

\* A step of the page that sends nothing and leaves its form and its revisions.
LEMMA DeskRests ==
    ASSUME SettingsTyped, NEW w \in PageState, page' = w,
           UNCHANGED <<rows, request, profile, want, excused>>,
           w.in = page.in, w.revision = page.revision, w.saved = page.saved, w.saving = page.saving,
           w.op = page.op \/ page.op \notin {"saving", "loading"},
           w.op \in {"load", "loading"} => profile # Settings!NoProfile
    PROVE  SettingsTyped'
<1>1. DeskTyped'
    BY DeskHolds DEF SettingsTyped, DeskTyped, Settings!NoProfile, Settings!Provider
<1>2. ASSUME NEW r \in Settings!Request, ByPage(r) PROVE OnPage(request[r])'
  <2>1. OnPage(request[r]) /\ request'[r] = request[r]
    BY <1>2 DEF SettingsTyped, RequestTyped, ByPage
  <2>. QED
    BY <2>1 DEF OnPage
<1>. QED
    BY <1>1, <1>2, DeskMoves

\* A request that is made where there was none.
LEMMA NewRequestHolds ==
    ASSUME NEW r \in Settings!Request, DOMAIN request'[r] = DOMAIN Settings!NoRequest,
           request'[r].kind \in {"save", "profile", "activate"}, request'[r].payload \in Masked,
           request'[r].then = Settings!NoProfile, request'[r].pc = "new",
           request'[r].kind = "activate" => profile' # Settings!NoProfile,
           request'[r].for = "page" => OnPage(request[r])'
    PROVE  RequestTyped(request[r])'
<1>1. Masked' = Masked
    BY DEF Masked, Settings!Provider, Settings!Value
<1>. QED
    BY <1>1 DEF RequestTyped, Settings!NoRequest, Settings!NoProfile, Settings!Provider

LEMMA SendTyped ==
    ASSUME SettingsTyped, page.in, NEW w \in PageState, page' = w, UNCHANGED <<rows, profile, want>>,
           w.in = page.in, w.revision = page.revision, w.saved = page.saved,
           \A r \in Settings!Request : ~ByPage(r),
           NEW kind \in {"save", "profile", "activate"}, NEW revision \in Nat,
           Settings!Send(kind, "page", revision, Settings!Payload(page.form)),
           kind = "save" => w.saving /\ revision = page.revision,
           kind # "save" => ~w.saving /\ page.saved = page.revision /\ w.op \in {"saving", "loading"},
           kind = "activate" \/ w.op \in {"load", "loading"} => profile # Settings!NoProfile
    PROVE  SettingsTyped'
<1> DEFINE m == Settings!Payload(page.form)
           q == [Settings!NoRequest EXCEPT !.kind = kind, !.for = "page", !.revision = revision,
                                           !.payload = m]
<1>1. PICK r \in Settings!Free : request' = [request EXCEPT ![r] = q]
    BY DEF Settings!Send
<1>2. r \in Settings!Request /\ request'[r] = q
    BY <1>1 DEF Settings!Free, SettingsTyped
<1>3. m \in Masked /\ page \in PageState
    BY PayloadIsTyped DEF SettingsTyped, DeskTyped
<1> HIDE DEF m
<1>4. /\ DOMAIN q = DOMAIN Settings!NoRequest
      /\ q.kind = kind /\ q.for = "page" /\ q.revision = revision /\ q.payload = m
      /\ q.then = Settings!NoProfile /\ q.pc = "new"
    BY <1>3, NewRequestTyped
<1>5. OnPage(request[r])'
  <2>1. revision <= revision
    OBVIOUS
  <2>. QED
    BY <1>2, <1>4, <2>1 DEF OnPage
<1>6. RequestTyped(request[r])'
  <2> HIDE DEF q
  <2>1. kind = "activate" => profile' # Settings!NoProfile
    BY DEF Settings!NoProfile, Settings!Provider
  <2>. QED
    BY ONLY <1>2, <1>3, <1>4, <1>5, <2>1, kind \in {"save", "profile", "activate"}, NewRequestHolds
<1>7. DeskTyped'
  <2>1. excused' \in BOOLEAN
    BY DEF Settings!Send, SettingsTyped, DeskTyped
  <2>. QED
    BY <2>1, DeskHolds DEF SettingsTyped, DeskTyped, Settings!NoProfile, Settings!Provider
<1>8. RowsTyped'
    BY RowsHold DEF SettingsTyped
<1>9. page'.saving => q.kind = "save" /\ q.for = "page"
    BY <1>4
<1> HIDE DEF q
<1>. QED
    BY <1>1, <1>2, <1>6, <1>7, <1>8, <1>9, RequestChanges DEF Settings!NoProfile, Settings!Provider

LEMMA FlushTyped ==
    ASSUME SettingsTyped, Settings!Flush \/ Settings!Timer \/ Settings!Proceed PROVE SettingsTyped'
<1>1. page \in PageState /\ (page.op \in {"load", "loading"} => profile # Settings!NoProfile)
    BY DEF SettingsTyped, DeskTyped
<1>2. ASSUME page' = [page EXCEPT !.timer = FALSE], UNCHANGED <<rows, profile, request, want, excused>>
      PROVE  SettingsTyped'
  <2> DEFINE w == [page EXCEPT !.timer = FALSE]
  <2>1. w \in PageState
    BY <1>1, Zenon DEF PageState
  <2>2. w.in = page.in /\ w.revision = page.revision /\ w.saved = page.saved
        /\ w.saving = page.saving /\ w.op = page.op
    BY <1>1 DEF PageState
  <2>3. page' = w
    BY <1>2
  <2> HIDE DEF w
  <2>. QED
    BY <1>1, <1>2, <2>1, <2>2, <2>3, DeskRests
<1>3. CASE Settings!Timer
    BY <1>2, <1>3 DEF Settings!Timer
<1>4. CASE Settings!Flush
  <2>1. CASE page.saving
    BY <1>2, <1>4, <2>1 DEF Settings!Flush
  <2>2. CASE ~page.saving
    <3> DEFINE w == [page EXCEPT !.timer = FALSE, !.saving = TRUE]
    <3>1. w \in PageState
      BY <1>1, Zenon DEF PageState
    <3>2. w.in = page.in /\ w.revision = page.revision /\ w.saved = page.saved /\ w.saving
          /\ w.op = page.op /\ page.revision \in Nat
      BY <1>1 DEF PageState
    <3>3. /\ page' = w /\ page.in /\ page.saved < page.revision
          /\ Settings!Send("save", "page", page.revision, Settings!Payload(page.form))
          /\ UNCHANGED <<rows, profile, want>>
      BY <1>4, <2>2 DEF Settings!Flush
    <3>4. \A r \in Settings!Request : ~ByPage(r)
      BY <2>2, <3>3, PageIsFree
    <3> HIDE DEF w
    <3>. QED
      BY <1>1, <3>1, <3>2, <3>3, <3>4, SendTyped
  <2>. QED
    BY <2>1, <2>2
<1>5. CASE Settings!Proceed
  <2> DEFINE op == IF page.op = "save" THEN "saving" ELSE "loading"
             kind == IF page.op = "save" THEN "profile" ELSE "activate"
             w == [page EXCEPT !.op = op]
  <2>1. /\ page' = w /\ page.in /\ page.saved = page.revision /\ ~page.saving
        /\ page.op \in {"save", "load"}
        /\ Settings!Send(kind, "page", 0, Settings!Payload(page.form))
        /\ UNCHANGED <<rows, profile, want>>
    BY <1>5 DEF Settings!Proceed
  <2>2. /\ op \in {"none", "save", "load", "saving", "loading"} /\ op \in {"saving", "loading"}
        /\ kind \in {"profile", "activate"}
        /\ kind = "activate" \/ op \in {"load", "loading"} => profile # Settings!NoProfile
    BY <1>1, <2>1
  <2>3. w \in PageState
    BY <1>1, <2>2, Zenon DEF PageState
  <2>4. w.in = page.in /\ w.revision = page.revision /\ w.saved = page.saved
        /\ w.saving = page.saving /\ w.op = op
    BY <1>1 DEF PageState
  <2>5. \A r \in Settings!Request : ~ByPage(r)
    BY <2>1, PageIsFree
  <2> HIDE DEF w, op, kind
  <2>. QED
    BY <2>1, <2>2, <2>3, <2>4, <2>5, SendTyped
<1>. QED
    BY <1>3, <1>4, <1>5

LEMMA OpenTyped ==
    ASSUME SettingsTyped, NEW op, Settings!OpenProfile(op) PROVE SettingsTyped'
<1> DEFINE w == [page EXCEPT !.op = op]
<1>1. /\ page \in PageState /\ op \in {"save", "load"} /\ page.op = "none" /\ page' = w
      /\ op = "load" => profile # Settings!NoProfile
      /\ UNCHANGED <<rows, profile, request, want, excused>>
    BY DEF SettingsTyped, DeskTyped, Settings!OpenProfile
<1>2. op \in {"none", "save", "load", "saving", "loading"}
    BY <1>1
<1>3. w \in PageState
    BY <1>1, <1>2, Zenon DEF PageState
<1>4. w.in = page.in /\ w.revision = page.revision /\ w.saved = page.saved
      /\ w.saving = page.saving /\ w.op = op
    BY <1>1 DEF PageState
<1> HIDE DEF w
<1>. QED
    BY <1>1, <1>3, <1>4, DeskRests

LEMMA LeaveTyped ==
    ASSUME SettingsTyped, NEW unload \in BOOLEAN, Settings!Leave(unload) PROVE SettingsTyped'
<1> DEFINE mine  == {r \in Settings!Active : request[r].for = "page"}
           dirty == page.saved < page.revision
           last  == Settings!Payload(page.form)
           then(r) == IF dirty /\ page.saving /\ ~unload /\ request[r].revision < page.revision
                      THEN last ELSE Settings!NoProfile
           loose == [r \in Settings!Request |-> IF r \notin mine THEN request[r]
                       ELSE [request[r] EXCEPT !.for = "nobody", !.then = then(r)]]
           new   == [Settings!NoRequest EXCEPT !.kind = "save", !.payload = last]
<1>1. /\ page' = Settings!Away /\ UNCHANGED <<rows, profile, want>>
      /\ IF dirty /\ ~page.saving
         THEN /\ \E r \in Settings!Free : request' = [loose EXCEPT ![r] = new]
              /\ excused' = (excused \/ Settings!Active # {})
         ELSE /\ request' = loose
              /\ excused' = (excused \/ (unload /\ \E r \in mine : request[r].kind = "save"
                                                   /\ request[r].revision < page.revision))
    BY DEF Settings!Leave
<1>2. /\ DeskTyped /\ page \in PageState /\ excused \in BOOLEAN
      /\ \A r \in Settings!Request : RequestTyped(request[r])
    BY DEF SettingsTyped, DeskTyped
<1>3. last \in Masked
    BY <1>2, PayloadIsTyped
<1> HIDE DEF last
<1>4. ASSUME NEW r \in Settings!Request
      PROVE  /\ DOMAIN loose[r] = DOMAIN Settings!NoRequest
             /\ loose[r].kind = request[r].kind /\ loose[r].payload = request[r].payload
             /\ loose[r].pc = request[r].pc /\ loose[r].resolved = request[r].resolved
             /\ loose[r].then = Settings!NoProfile \/ loose[r].then \in Masked
             /\ loose[r].kind = "none" \/ loose[r].for # "page"
  <2>1. RequestTyped(request[r])
    BY <1>2
  <2>2. CASE r \in mine
    <3>1. loose[r] = [request[r] EXCEPT !.for = "nobody", !.then = then(r)]
      BY <2>2
    <3>2. then(r) = Settings!NoProfile \/ then(r) \in Masked
      BY <1>3
    <3> HIDE DEF then, loose, mine
    <3>. QED
      BY <2>1, <3>1, <3>2 DEF RequestTyped, Settings!NoRequest
  <2>3. CASE r \notin mine
    BY <2>1, <2>3 DEF RequestTyped, Settings!Active
  <2>. QED
    BY <2>2, <2>3
<1>5. /\ DOMAIN new = DOMAIN Settings!NoRequest
      /\ new.kind = "save" /\ new.for # "page" /\ new.payload = last
      /\ new.then = Settings!NoProfile /\ new.pc = "new"
    BY DEF Settings!NoRequest
<1>6. /\ request' = [r \in Settings!Request |-> request'[r]]
      /\ \A r \in Settings!Request : request'[r] \in {loose[r], new}
  <2>1. loose = [r \in Settings!Request |-> loose[r]]
    OBVIOUS
  <2> HIDE DEF loose, new, dirty
  <2>. QED
    BY <1>1, <2>1 DEF Settings!Free
<1>7. excused' \in BOOLEAN
    BY <1>1, <1>2
<1>8. ~page'.saving /\ page'.saved <= page'.revision /\ page'.op \notin {"load", "loading"}
  <2>1. page'.saved = 0 /\ page'.revision = 0 /\ page'.op = "none" /\ ~page'.saving
    BY <1>1 DEF Settings!Away
  <2>. QED
    BY <2>1
<1>9. DeskTyped'
    BY <1>1, <1>2, <1>7, <1>8, PageIsAway, DeskHolds DEF DeskTyped, Settings!NoProfile, Settings!Provider
<1>10. RowsTyped'
    BY <1>1, RowsHold DEF SettingsTyped
<1> HIDE DEF loose, new
<1>11. Masked' = Masked /\ Keys' = Keys /\ Settings!NoProfile' = Settings!NoProfile
    BY DEF Masked, Keys, Settings!NoProfile, Settings!Provider, Settings!Value
<1>12. ASSUME NEW r \in Settings!Request PROVE RequestTyped(request[r])' /\ ~ByPage(r)'
  <2>1. CASE request'[r] = new
    BY <1>3, <1>5, <1>11, <2>1 DEF RequestTyped, ByPage, Settings!NoRequest
  <2>2. CASE request'[r] = loose[r]
    <3>1. RequestTyped(request[r])
      BY <1>2
    <3>2. profile' = profile
      BY <1>1
    <3>. QED
      BY <1>4, <1>11, <2>2, <3>1, <3>2 DEF RequestTyped, ByPage, Settings!NoRequest
  <2>. QED
    BY <1>6, <2>1, <2>2
<1>. QED
    BY <1>6, <1>8, <1>9, <1>10, <1>12 DEF SettingsTyped, Settings!Request

\* A request that the page waits for is the only one, and is its save if it saves.
LEMMA PageHasOne ==
    ASSUME SettingsTyped, NEW r \in Settings!Request, ByPage(r)
    PROVE  /\ OnPage(request[r]) /\ \A s \in Settings!Request \ {r} : ~ByPage(s)
           /\ page.saving <=> request[r].kind = "save"
  BY DEF SettingsTyped, RequestTyped, ByPage, OnPage

\* A step of the server that the page does not see.
LEMMA ServerTyped ==
    ASSUME SettingsTyped, NEW r \in Settings!Request, NEW q, request' = [request EXCEPT ![r] = q],
           UNCHANGED <<rows, profile, page, want, excused>>,
           DOMAIN q = DOMAIN Settings!NoRequest, q.kind = request[r].kind, q.for = request[r].for,
           q.revision = request[r].revision, q.payload = request[r].payload,
           q.then = request[r].then, q.pc # "new" => q.resolved \in Keys
    PROVE  SettingsTyped'
<1>1. RowsTyped' /\ DeskTyped'
  <2>1. DeskTyped'
    BY DEF SettingsTyped, DeskTyped, PageState, Keys, Settings!NoProfile, Settings!Provider,
           Settings!Value
  <2>. QED
    BY <2>1, RowsHold DEF SettingsTyped
<1>2. request'[r] = q /\ RequestTyped(request[r])
    BY DEF SettingsTyped
<1>3. RequestTyped(request[r])'
  <2>1. Masked' = Masked /\ Keys' = Keys /\ Settings!NoProfile' = Settings!NoProfile
    BY DEF Masked, Keys, Settings!NoProfile, Settings!Provider, Settings!Value
  <2>2. q.kind # "none" /\ q.for = "page" => OnPage(request[r])'
    BY <1>2 DEF RequestTyped, OnPage
  <2>. QED
    BY <1>2, <2>1, <2>2 DEF RequestTyped, Settings!NoRequest
<1>4. CASE ByPage(r)
    BY <1>1, <1>3, <1>4, PageHasOne, RequestChanges
       DEF ByPage, Settings!NoProfile, Settings!Provider
<1>5. CASE ~ByPage(r)
    BY <1>1, <1>3, <1>5, RequestChanges DEF ByPage, Settings!NoProfile, Settings!Provider
<1>. QED
    BY <1>4, <1>5

LEMMA WorkTyped ==
    ASSUME SettingsTyped, NEW r \in Settings!Request, Settings!Resolve(r) \/ Settings!ReadRows(r)
    PROVE  SettingsTyped'
<1>1. /\ RequestTyped(request[r]) /\ RowsTyped /\ UNCHANGED <<rows, profile, page, want, excused>>
      /\ profile = Settings!NoProfile \/ profile \in Keys
      /\ request = [s \in Settings!Request |-> request[s]]
    BY DEF SettingsTyped, DeskTyped, Settings!Resolve, Settings!ReadRows
<1>2. CASE Settings!Resolve(r)
  <2>1. PICK k : /\ request' = [request EXCEPT ![r].pc = "rows", ![r].resolved = k]
                 /\ \/ request[r].kind = "activate" /\ k = profile
                    \/ k = Settings!Resolved(request[r].payload, Settings!Stored)
    BY <1>1, <1>2 DEF Settings!Resolve
  <2>2. request[r].kind \in {"save", "activate"}
    BY <1>2 DEF Settings!Resolve, Settings!Is
  <2>3. k \in Keys
    BY <1>1, <2>1, <2>2, StoredIsTyped, ResolvedIsTyped DEF RequestTyped
  <2> DEFINE q == [request[r] EXCEPT !.pc = "rows", !.resolved = k]
  <2>4. /\ DOMAIN q = DOMAIN Settings!NoRequest /\ q.kind = request[r].kind
        /\ q.for = request[r].for /\ q.revision = request[r].revision
        /\ q.payload = request[r].payload /\ q.then = request[r].then /\ q.resolved = k
    BY <1>1 DEF RequestTyped, Settings!NoRequest
  <2>5. request' = [request EXCEPT ![r] = q]
    BY <1>1, <2>1
  <2> HIDE DEF q
  <2>. QED
    BY <1>1, <2>3, <2>4, <2>5, ServerTyped
<1>3. CASE Settings!ReadRows(r)
  <2> DEFINE ids == {x.id : x \in rows}
             q == [request[r] EXCEPT !.pc = "write", !.ids = ids]
  <2>1. request[r].pc = "rows" /\ request' = [request EXCEPT ![r] = q]
    BY <1>1, <1>3 DEF Settings!ReadRows, Settings!Is
  <2> HIDE DEF ids
  <2>2. /\ DOMAIN q = DOMAIN Settings!NoRequest /\ q.kind = request[r].kind
        /\ q.for = request[r].for /\ q.revision = request[r].revision
        /\ q.payload = request[r].payload /\ q.then = request[r].then
        /\ q.resolved = request[r].resolved
    BY <1>1 DEF RequestTyped, Settings!NoRequest
  <2>3. q.resolved \in Keys
    BY <1>1, <2>1, <2>2 DEF RequestTyped
  <2> HIDE DEF q
  <2>. QED
    BY <1>1, <2>1, <2>2, <2>3, ServerTyped
<1>. QED
    BY <1>2, <1>3

\* A save that nobody waits for, made of what a page left behind.
LEMMA LooseTyped ==
    ASSUME SettingsTyped, NEW r \in Settings!Request, RowsTyped', DeskTyped',
           profile # Settings!NoProfile => profile' # Settings!NoProfile,
           request' = [request EXCEPT ![r] =
               IF request[r].then = Settings!NoProfile THEN Settings!NoRequest
               ELSE [Settings!NoRequest EXCEPT !.kind = "save", !.payload = request[r].then]],
           ByPage(r) => ~page'.saving, ~ByPage(r) => page' = page
    PROVE  SettingsTyped'
<1> DEFINE new == [Settings!NoRequest EXCEPT !.kind = "save", !.payload = request[r].then]
           q   == IF request[r].then = Settings!NoProfile THEN Settings!NoRequest ELSE new
<1>1. request' = [request EXCEPT ![r] = q] /\ request'[r] = q
    BY DEF SettingsTyped
<1>2. request[r].then # Settings!NoProfile => request[r].then \in Masked
    BY DEF SettingsTyped, RequestTyped
<1>3. /\ DOMAIN new = DOMAIN Settings!NoRequest /\ new.kind = "save" /\ new.for = "nobody"
      /\ new.payload = request[r].then /\ new.then = Settings!NoProfile /\ new.pc = "new"
    BY DEF Settings!NoRequest
<1>4. Settings!NoRequest.kind = "none"
    BY NoRequestTyped
<1> HIDE DEF new
<1>5. q.kind = "none" \/ q.for # "page"
    BY <1>3, <1>4
<1>6. RequestTyped(request[r])'
  <2>1. CASE q = new /\ request[r].then # Settings!NoProfile
    BY <1>1, <1>2, <1>3, <2>1, NewRequestHolds
  <2>2. CASE q = Settings!NoRequest
    BY <1>1, <2>2, NoRequestTyped DEF RequestTyped, Settings!NoRequest, Settings!NoProfile,
                                      Settings!Provider
  <2>. QED
    BY <2>1, <2>2
<1> HIDE DEF q
<1>7. CASE ByPage(r)
    BY <1>1, <1>6, <1>7, PageHasOne, RequestChanges
<1>8. CASE ~ByPage(r)
    BY <1>1, <1>5, <1>6, <1>8, RequestChanges
<1>. QED
    BY <1>7, <1>8

\* The request of the page is answered and gone.
LEMMA DoneTyped ==
    ASSUME SettingsTyped, NEW r \in Settings!Request, ByPage(r), RowsTyped', DeskTyped',
           profile # Settings!NoProfile => profile' # Settings!NoProfile,
           request' = [request EXCEPT ![r] = Settings!NoRequest], ~page'.saving
    PROVE  SettingsTyped'
<1>1. request'[r] = Settings!NoRequest
    BY DEF SettingsTyped
<1>2. RequestTyped(request[r])'
    BY <1>1, NoRequestTyped DEF RequestTyped, Settings!NoRequest, Settings!NoProfile,
                                Settings!Provider
<1>. QED
    BY <1>2, PageHasOne, RequestChanges

\* The page has edits of its own by now, and saves again.
LEMMA AgainTyped ==
    ASSUME SettingsTyped, NEW r \in Settings!Request, ByPage(r), RowsTyped', DeskTyped',
           profile # Settings!NoProfile => profile' # Settings!NoProfile,
           request' = [request EXCEPT ![r] = [Settings!NoRequest EXCEPT !.kind = "save",
               !.for = "page", !.revision = page.revision, !.payload = Settings!Payload(page.form)]],
           page'.in, page'.saving, page'.revision = page.revision
    PROVE  SettingsTyped'
<1> DEFINE m == Settings!Payload(page.form)
           q == [Settings!NoRequest EXCEPT !.kind = "save", !.for = "page",
                                           !.revision = page.revision, !.payload = m]
<1>1. request' = [request EXCEPT ![r] = q] /\ request'[r] = q
    BY DEF SettingsTyped
<1>2. m \in Masked /\ page.revision \in Nat
    BY PayloadIsTyped DEF SettingsTyped, DeskTyped, PageState
<1> HIDE DEF m
<1>3. /\ DOMAIN q = DOMAIN Settings!NoRequest
      /\ q.kind = "save" /\ q.for = "page" /\ q.revision = page.revision /\ q.payload = m
      /\ q.then = Settings!NoProfile /\ q.pc = "new"
    BY DEF Settings!NoRequest
<1> HIDE DEF q
<1>4. OnPage(request[r])'
  <2>1. page.revision <= page.revision
    BY <1>2
  <2>. QED
    BY <1>1, <1>2, <1>3, <2>1 DEF OnPage
<1>5. RequestTyped(request[r])'
    BY <1>1, <1>2, <1>3, <1>4, NewRequestHolds
<1>. QED
    BY <1>1, <1>3, <1>5, PageHasOne, RequestChanges

LEMMA AnswerTyped ==
    ASSUME SettingsTyped, NEW r \in Settings!Request,
           request[r].kind \in {"save", "profile", "activate"}, NEW keys,
           Settings!Answered(r, keys), RowsTyped', want' \in Keys, excused' \in BOOLEAN,
           profile' = Settings!NoProfile \/ profile' \in Keys,
           profile # Settings!NoProfile => profile' # Settings!NoProfile
    PROVE  SettingsTyped'
<1>1. /\ page \in PageState /\ page.saved \in Nat /\ page.revision \in Nat
      /\ page.saved <= page.revision /\ RequestTyped(request[r])
      /\ page.op \in {"load", "loading"} => profile # Settings!NoProfile
    BY DEF SettingsTyped, DeskTyped, PageState
<1>2. ASSUME NEW w \in PageState, page' = w, w.saved <= w.revision,
             w.op = page.op \/ w.op = "none"
      PROVE  DeskTyped'
    BY <1>1, <1>2, DeskHolds
<1>3. CASE request[r].for # "page"
  <2>1. page' = page /\ ~ByPage(r)
        /\ request' = [request EXCEPT ![r] =
               IF request[r].then = Settings!NoProfile THEN Settings!NoRequest
               ELSE [Settings!NoRequest EXCEPT !.kind = "save", !.payload = request[r].then]]
    BY <1>3 DEF Settings!Answered, ByPage
  <2>. QED
    BY <1>1, <1>2, <2>1, LooseTyped
<1>4. CASE request[r].for = "page"
  <2>1. ByPage(r) /\ OnPage(request[r]) /\ (page.saving <=> request[r].kind = "save")
    BY <1>4, PageHasOne DEF ByPage
  <2>2. CASE request[r].kind = "save" /\ request[r].revision < page.revision
    <3> DEFINE w == [page EXCEPT !.saved = request[r].revision]
    <3>1. request[r].revision \in Nat /\ request[r].revision # page.revision
      <4>1. request[r].revision \in Nat
        BY <2>1, <2>2 DEF OnPage
      <4>. QED
        BY <1>1, <2>2, <4>1
    <3>2. /\ page' = w
          /\ request' = [request EXCEPT ![r] = [Settings!NoRequest EXCEPT !.kind = "save",
                !.for = "page", !.revision = page.revision, !.payload = Settings!Payload(page.form)]]
      BY ONLY <1>4, <2>2, <3>1, Settings!Answered(r, keys) DEF Settings!Answered
    <3>3. w \in PageState
      BY <1>1, <3>1, Zenon DEF PageState
    <3>4. w.saved = request[r].revision /\ w.revision = page.revision /\ w.op = page.op
          /\ w.in = page.in /\ w.saving = page.saving
      BY <1>1 DEF PageState
    <3> HIDE DEF w
    <3>5. DeskTyped'
      <4>1. w.saved <= w.revision
        BY <1>1, <2>2, <3>1, <3>4
      <4>. QED
        BY <1>2, <3>2, <3>3, <3>4, <4>1
    <3>. QED
      BY <2>1, <2>2, <3>2, <3>4, <3>5, AgainTyped DEF OnPage
  <2>3. CASE request[r].kind = "save" /\ ~(request[r].revision < page.revision)
    <3> DEFINE w == [page EXCEPT !.saved = request[r].revision, !.saving = FALSE]
    <3>1. request[r].revision = page.revision
      BY <1>1, <2>1, <2>3 DEF OnPage
    <3>2. page' = w /\ request' = [request EXCEPT ![r] = Settings!NoRequest]
      BY <1>4, <2>3, <3>1 DEF Settings!Answered
    <3>3. w \in PageState
      BY <1>1, <3>1, Zenon DEF PageState
    <3>4. w.saved = page.revision /\ w.revision = page.revision /\ w.op = page.op /\ ~w.saving
      BY <1>1, <3>1 DEF PageState
    <3> HIDE DEF w
    <3>5. w.saved <= w.revision
      BY <1>1, <3>4
    <3>. QED
      BY <1>2, <2>1, <3>2, <3>3, <3>4, <3>5, DoneTyped
  <2>4. CASE request[r].kind = "profile"
    <3> DEFINE w == [page EXCEPT !.op = "none"]
    <3>1. page' = w /\ request' = [request EXCEPT ![r] = Settings!NoRequest]
      BY <1>4, <2>4 DEF Settings!Answered
    <3>2. w \in PageState
      BY <1>1, Zenon DEF PageState
    <3>3. w.saved = page.saved /\ w.revision = page.revision /\ w.op = "none" /\ ~w.saving
      BY <1>1, <2>1, <2>4 DEF PageState
    <3> HIDE DEF w
    <3>. QED
      BY <1>1, <1>2, <2>1, <3>1, <3>2, <3>3, DoneTyped
  <2>5. CASE request[r].kind = "activate"
    <3> DEFINE form == Settings!FormOf(keys)
               w == [page EXCEPT !.op = "none", !.form = form, !.revision = @ + 1,
                                 !.saved = page.revision + 1]
    <3>1. page' = w /\ request' = [request EXCEPT ![r] = Settings!NoRequest]
      BY <1>4, <2>5 DEF Settings!Answered
    <3>2. form \in [Settings!Provider -> [key : Settings!Value, has : BOOLEAN, dirty : BOOLEAN]]
      BY DEF Settings!FormOf, Settings!Value
    <3> HIDE DEF form
    <3>3. page.revision + 1 \in Nat
      BY <1>1
    <3>4. w \in PageState
      BY <1>1, <3>2, <3>3, Zenon DEF PageState
    <3>5. w.saved = page.revision + 1 /\ w.revision = page.revision + 1 /\ w.op = "none" /\ ~w.saving
      BY <1>1, <2>1, <2>5 DEF PageState
    <3> HIDE DEF w
    <3>6. w.saved <= w.revision
      BY <1>1, <3>5
    <3>. QED
      BY <1>2, <2>1, <3>1, <3>4, <3>5, <3>6, DoneTyped
  <2>. QED
    BY <2>2, <2>3, <2>4, <2>5
<1>. QED
    BY <1>3, <1>4

\* A request that fails, or whose answer is lost.
LEMMA RefuseTyped ==
    ASSUME SettingsTyped, NEW r \in Settings!Request, request[r].kind \in {"save", "profile", "activate"},
           Settings!Refused(r), UNCHANGED <<rows, profile, want>>
    PROVE  SettingsTyped'
<1>1. /\ page \in PageState /\ page.saved \in Nat /\ page.revision \in Nat
      /\ page.saved <= page.revision /\ RequestTyped(request[r])
      /\ page.op \in {"load", "loading"} => profile # Settings!NoProfile
      /\ want' \in Keys /\ excused \in BOOLEAN /\ profile' = profile
      /\ profile = Settings!NoProfile \/ profile \in Keys
    BY DEF SettingsTyped, DeskTyped, PageState
<1>2. excused' \in BOOLEAN /\ RowsTyped'
    BY <1>1, RowsHold DEF Settings!Refused, SettingsTyped
<1>3. ASSUME NEW w \in PageState, page' = w, w.saved <= w.revision,
             w.op = page.op \/ w.op = "none"
      PROVE  DeskTyped'
    BY <1>1, <1>2, <1>3, DeskHolds
<1> DEFINE again == [Settings!NoRequest EXCEPT !.kind = "save", !.for = "page",
                        !.revision = page.revision, !.payload = Settings!Payload(page.form)]
           loose == [Settings!NoRequest EXCEPT !.kind = "save", !.payload = request[r].then]
           next  == IF request[r].then = Settings!NoProfile THEN Settings!NoRequest ELSE loose
           older == request[r].kind = "save" /\ request[r].revision < page.revision
<1>4. request' = [request EXCEPT ![r] =
          IF request[r].for = "page" /\ older THEN again ELSE next]
    BY DEF Settings!Refused
<1>5. page' = IF request[r].for # "page" THEN page
              ELSE IF request[r].kind = "save" /\ request[r].revision = page.revision
                   THEN [page EXCEPT !.saving = FALSE, !.op = "none"]
                   ELSE IF request[r].kind = "save" THEN page ELSE [page EXCEPT !.op = "none"]
    BY DEF Settings!Refused
<1>6. CASE request[r].for # "page"
  <2>1. page' = page /\ ~ByPage(r) /\ request' = [request EXCEPT ![r] = next]
    BY <1>4, <1>5, <1>6 DEF ByPage
  <2>. QED
    BY <1>1, <1>2, <1>3, <2>1, LooseTyped
<1>7. CASE request[r].for = "page"
  <2>1. ByPage(r) /\ OnPage(request[r]) /\ (page.saving <=> request[r].kind = "save")
    BY <1>7, PageHasOne DEF ByPage
  <2>2. CASE older
    <3>1. request[r].revision \in Nat /\ request[r].revision # page.revision
      <4>1. request[r].revision \in Nat
        BY <2>1, <2>2 DEF OnPage
      <4>. QED
        BY <1>1, <2>2, <4>1
    <3>2. request' = [request EXCEPT ![r] = again]
      BY <1>4, <1>7, <2>2
    <3>3. page' = page
      BY ONLY <1>5, <1>7, <2>2, <3>1
    <3>4. DeskTyped' /\ page.in /\ page.saving
      BY <1>1, <1>3, <2>1, <2>2, <3>3 DEF OnPage
    <3>. QED
      BY <1>1, <1>2, <2>1, <3>2, <3>3, <3>4, AgainTyped
  <2>3. CASE ~older
    <3>1. request' = [request EXCEPT ![r] = next]
      BY <1>4, <1>7, <2>3
    <3>2. request[r].kind = "save" => request[r].revision = page.revision
      BY <1>1, <2>1, <2>3 DEF OnPage
    <3> DEFINE w == IF request[r].kind = "save" THEN [page EXCEPT !.saving = FALSE, !.op = "none"]
                    ELSE [page EXCEPT !.op = "none"]
    <3> HIDE DEF next, again, older
    <3>3. page' = w
      BY ONLY <1>5, <1>7, <3>2
    <3>4. w \in PageState
      <4>1. /\ [page EXCEPT !.saving = FALSE, !.op = "none"] \in PageState
            /\ [page EXCEPT !.op = "none"] \in PageState
        BY <1>1, Zenon DEF PageState
      <4>. QED
        BY <4>1
    <3>5. w.saved = page.saved /\ w.revision = page.revision /\ w.op = "none" /\ ~w.saving
      BY <1>1, <2>1 DEF PageState
    <3> HIDE DEF w
    <3>6. DeskTyped' /\ ~page'.saving
      BY <1>1, <1>3, <3>3, <3>4, <3>5
    <3> USE DEF next
    <3>. QED
      BY <1>1, <1>2, <2>1, <3>1, <3>6, LooseTyped
  <2>. QED
    BY <2>2, <2>3
<1>. QED
    BY <1>6, <1>7

LEMMA BreakTyped ==
    ASSUME SettingsTyped, NEW r \in Settings!Request, Settings!Break(r) PROVE SettingsTyped'
<1> DEFINE w == [page EXCEPT !.saving = FALSE, !.op = "none"]
           q == [request[r] EXCEPT !.for = "nobody"]
<1>1. /\ page \in PageState /\ page.saved <= page.revision /\ RequestTyped(request[r])
      /\ want \in Keys /\ excused \in BOOLEAN /\ UNCHANGED <<rows, profile, want>>
      /\ profile = Settings!NoProfile \/ profile \in Keys
      /\ request = [s \in Settings!Request |-> request[s]]
    BY DEF SettingsTyped, DeskTyped, Settings!Break
<1>2. page' = w /\ request' = [request EXCEPT ![r] = q] /\ ByPage(r)
    BY <1>1 DEF Settings!Break, Settings!Active, ByPage
<1>3. excused' \in BOOLEAN /\ RowsTyped'
    BY <1>1, RowsHold DEF Settings!Break, SettingsTyped
<1>4. w \in PageState
    BY <1>1, Zenon DEF PageState
<1>5. w.saved = page.saved /\ w.revision = page.revision /\ w.op = "none" /\ ~w.saving
    BY <1>1 DEF PageState
<1>6. /\ DOMAIN q = DOMAIN Settings!NoRequest /\ q.kind = request[r].kind /\ q.for = "nobody"
      /\ q.payload = request[r].payload /\ q.then = request[r].then /\ q.pc = request[r].pc
      /\ q.resolved = request[r].resolved
    BY <1>1 DEF RequestTyped, Settings!NoRequest
<1> HIDE DEF w, q
<1>7. DeskTyped'
    BY <1>1, <1>2, <1>3, <1>4, <1>5, DeskHolds
<1>8. RequestTyped(request[r])'
  <2>1. request'[r] = q
    BY <1>1, <1>2
  <2>2. Masked' = Masked /\ Keys' = Keys /\ Settings!NoProfile' = Settings!NoProfile
    BY DEF Masked, Keys, Settings!NoProfile, Settings!Provider, Settings!Value
  <2>. QED
    BY <1>1, <1>6, <2>1, <2>2 DEF RequestTyped, Settings!NoRequest
<1>. QED
    BY <1>1, <1>2, <1>3, <1>5, <1>7, <1>8, PageHasOne, RequestChanges

\* A bounded set of numbers has a greatest one.
LEMMA GreatestIsThere ==
    ASSUME NEW S, S \in SUBSET Nat, S # {}, NEW b \in Nat, \A x \in S : x <= b
    PROVE  Settings!Max(S) \in S /\ \A x \in S : x <= Settings!Max(S)
<1> DEFINE above == {n \in Nat : \A x \in S : x <= n}
<1>1. b \in above
    OBVIOUS
<1>2. PICK n \in above : \A m \in above : ~(<<m, n>> \in OpToRel(<, Nat))
  <2> HIDE DEF above
  <2>1. above \in SUBSET Nat
    BY DEF above
  <2>. QED
    BY <1>1, <2>1, NatLessThanWellFounded, WFMin
<1>3. \A m \in above : ~(m < n)
    BY <1>2 DEF OpToRel
<1>4. n \in S
  <2> SUFFICES ASSUME n \notin S PROVE FALSE
    OBVIOUS
  <2>1. \A x \in S : x \in Nat /\ x < n
    OBVIOUS
  <2>2. n > 0 /\ n - 1 \in Nat
    <3>1. PICK x \in S : x \in Nat /\ x < n
      BY <2>1
    <3>. QED
      BY <3>1
  <2>3. n - 1 \in above
    BY <2>1, <2>2
  <2>. QED
    BY <1>3, <2>2, <2>3
<1>5. \A x \in S : x <= n
    BY <1>2
<1>6. \E x \in S : \A y \in S : x >= y
    BY <1>4, <1>5
<1>7. Settings!Max(S) = CHOOSE x \in S : \A y \in S : x >= y
    BY DEF Settings!Max
<1>. QED
    BY <1>6, <1>7

LEMMA SettingsCounts == ASSUME NEW S PROVE Settings!Cardinality(S) = Cardinality(S)
  BY DEF Settings!Cardinality, Cardinality

\* The providers that a save writes are counted from one, each by a number of its own.
LEMMA RanksAreApart ==
    ASSUME NEW new \in SUBSET Settings!Provider, NEW p \in new
    PROVE  LET rank(q) == Settings!Cardinality({o \in new : o <= q}) IN
           /\ rank(p) \in 1..NProviders
           /\ \A q \in new : rank(q) = rank(p) => q = p
<1> DEFINE UpTo(q) == {o \in new : o <= q}
<1>1. 1 \in Int /\ NProviders \in Int /\ NProviders \in Nat /\ NProviders >= 1
    BY BoundsAssumption
<1>2. IsFiniteSet(1..NProviders) /\ Cardinality(1..NProviders) = NProviders
  <2>1. Cardinality(1..NProviders) = IF 1 > NProviders THEN 0 ELSE NProviders - 1 + 1
    BY <1>1, FS_Interval, Zenon
  <2>. QED
    BY <1>1, <2>1, FS_Interval
<1>3. new \subseteq 1..NProviders /\ \A o \in new : o \in Int
    BY <1>1 DEF Settings!Provider
<1>4. ASSUME NEW q \in new
      PROVE  IsFiniteSet(UpTo(q)) /\ Cardinality(UpTo(q)) \in 1..NProviders
  <2>1. UpTo(q) \in SUBSET (1..NProviders) /\ q \in UpTo(q)
    <3>1. q \in Int /\ q <= q
      BY <1>3, <1>4
    <3>. QED
      BY <1>3, <1>4, <3>1, Zenon
  <2> HIDE DEF UpTo
  <2>2. /\ IsFiniteSet(UpTo(q)) /\ Cardinality(UpTo(q)) <= NProviders
        /\ Cardinality(UpTo(q)) \in Nat /\ Cardinality(UpTo(q)) # 0
    BY <1>2, <2>1, FS_Subset, FS_CardinalityType, FS_EmptySet
  <2>. QED
    BY <1>1, <2>2
<1>5. ASSUME NEW q \in new, Cardinality(UpTo(q)) = Cardinality(UpTo(p)) PROVE q = p
  <2>1. UpTo(q) \subseteq UpTo(p) \/ UpTo(p) \subseteq UpTo(q)
    <3>1. q \in Int /\ p \in Int
      BY <1>3, <1>5
    <3>2. CASE q <= p
      <4>1. \A o \in new : o <= q => o <= p
        BY ONLY <1>3, <3>1, <3>2
      <4>. QED
        BY <4>1, Zenon
    <3>3. CASE p <= q
      <4>1. \A o \in new : o <= p => o <= q
        BY ONLY <1>3, <3>1, <3>3
      <4>. QED
        BY <4>1, Zenon
    <3>. QED
      BY <3>1, <3>2, <3>3
  <2>2. q \in UpTo(q) /\ p \in UpTo(p)
    <3>1. q \in Int /\ p \in Int /\ q <= q /\ p <= p
      BY <1>3, <1>5
    <3>. QED
      BY <1>5, <3>1, Zenon
  <2>3. UpTo(q) = UpTo(p)
    <3> HIDE DEF UpTo
    <3>. QED
      BY <1>4, <1>5, <2>1, FS_Subset
  <2>. QED
    BY <1>3, <2>2, <2>3
<1>. QED
    BY <1>4, <1>5, SettingsCounts, Zenon

\* The providers a save has keys for, and the rows it adds to those it keeps.
Keyed(keys) == {p \in Settings!Provider : keys[p] # Settings!None}
AddedRows(kept, keys) ==
    LET base == Settings!Max({0} \cup {x.id : x \in kept})
        rank(p) == Settings!Cardinality({o \in Keyed(keys) : o <= p}) IN
    {[id |-> base + rank(p), provider |-> p, key |-> keys[p]] : p \in Keyed(keys)}

\* A save that keeps what others wrote gives its rows ids above theirs.
LEMMA WrittenAreTyped ==
    ASSUME RowsTyped, NEW kept \in SUBSET rows, NEW keys \in Keys,
           \A x \in kept : x.provider \notin Keyed(keys), rows' = kept \cup AddedRows(kept, keys)
    PROVE  RowsTyped'
<1> DEFINE new == Keyed(keys)
           ids == {0} \cup {x.id : x \in kept}
           base == Settings!Max(ids)
           rank(p) == Settings!Cardinality({o \in new : o <= p})
           row(p) == [id |-> base + rank(p), provider |-> p, key |-> keys[p]]
<1>0. rows' = kept \cup {row(p) : p \in new}
    BY DEF AddedRows
<1>1. base \in Nat /\ \A x \in kept : x.id <= base
  <2>1. PICK b \in Nat : \A x \in rows : x.id <= b
    BY DEF RowsTyped
  <2>2. ids \in SUBSET Nat /\ ids # {} /\ \A i \in ids : i <= b
    BY <2>1 DEF RowsTyped
  <2> HIDE DEF ids
  <2>3. base \in ids /\ \A i \in ids : i <= base
    BY <2>1, <2>2, GreatestIsThere
  <2>. QED
    BY <2>2, <2>3 DEF ids
<1>2. \A p \in new : rank(p) \in 1..NProviders /\ \A q \in new : rank(q) = rank(p) => q = p
  <2>1. new \in SUBSET Settings!Provider
    BY DEF Keyed
  <2> HIDE DEF new
  <2>. QED
    BY <2>1, RanksAreApart
<1>3. \A p \in new : p \in Settings!Provider /\ keys[p] \in ApiKey
    BY DEF Keyed, Keys, Settings!Value
<1>4. \A p \in new : row(p).id = base + rank(p) /\ row(p).provider = p /\ row(p).key = keys[p]
    OBVIOUS
<1> HIDE DEF base, rank, row, new
<1>5. NProviders \in Nat
    BY BoundsAssumption
<1>6. \A p \in new : /\ row(p).id \in Nat /\ row(p).id > base /\ row(p).id <= base + NProviders
                     /\ \A q \in new : row(p).id = row(q).id => p = q
    BY <1>1, <1>2, <1>4, <1>5
<1>7. \A x \in kept : /\ x.provider \in Settings!Provider /\ x.key \in ApiKey /\ x.id \in Nat
                      /\ x.id <= base /\ x.provider \notin new
                      /\ \A y \in kept : x.id = y.id \/ x.provider = y.provider => x = y
  <2>1. \A x \in kept : /\ x.provider \in Settings!Provider /\ x.key \in ApiKey /\ x.id \in Nat
                        /\ \A y \in kept : x.id = y.id \/ x.provider = y.provider => x = y
    BY DEF RowsTyped
  <2>. QED
    BY <1>1, <2>1 DEF new
<1>8. \A x \in rows' : x.provider \in Settings!Provider /\ x.key \in ApiKey /\ x.id \in Nat
    BY <1>0, <1>3, <1>4, <1>6, <1>7
<1>9. \A x, y \in rows' : x.id = y.id \/ x.provider = y.provider => x = y
  <2>1. \A p, q \in new : row(p).id = row(q).id \/ row(p).provider = row(q).provider => row(p) = row(q)
    BY <1>4, <1>6
  <2>2. \A x \in kept, p \in new : x.id # row(p).id /\ x.provider # row(p).provider
    BY <1>1, <1>4, <1>6, <1>7
  <2> SUFFICES ASSUME NEW x \in rows', NEW y \in rows', x.id = y.id \/ x.provider = y.provider
               PROVE  x = y
    OBVIOUS
  <2>3. (x \in kept \/ \E p \in new : x = row(p)) /\ (y \in kept \/ \E p \in new : y = row(p))
    BY <1>0
  <2>. QED
    BY ONLY <1>7, <2>1, <2>2, <2>3, x.id = y.id \/ x.provider = y.provider
<1>10. base + NProviders \in Nat /\ \A x \in rows' : x.id <= base + NProviders
    BY <1>0, <1>1, <1>5, <1>6, <1>7
<1>. QED
    BY <1>8, <1>9, <1>10 DEF RowsTyped, Settings!Provider

LEMMA WriteTyped ==
    ASSUME SettingsTyped, NEW r \in Settings!Request, Settings!Write(r) PROVE SettingsTyped'
<1> DEFINE keys == request[r].resolved
           kept == {x \in rows : x.id \notin request[r].ids}
           after == kept \cup AddedRows(kept, keys)
<1>1. /\ request[r].kind \in {"save", "profile", "activate"} /\ request[r].pc = "write"
      /\ profile' = profile
    BY DEF Settings!Write, Settings!Is
<1>2. /\ keys \in Keys /\ RowsTyped /\ want \in Keys /\ excused \in BOOLEAN
      /\ profile = Settings!NoProfile \/ profile \in Keys
    BY <1>1 DEF SettingsTyped, DeskTyped, RequestTyped
<1>3. CASE \E x \in kept : x.provider \in Keyed(keys)
  <2>1. Settings!Refused(r) /\ UNCHANGED <<rows, profile, want>>
    BY <1>3 DEF Settings!Write, Keyed
  <2>. QED
    BY <1>1, <2>1, RefuseTyped
<1>4. CASE \A x \in kept : x.provider \notin Keyed(keys)
  <2>1. rows' = after /\ Settings!Answered(r, Settings!KeysOf(after))
    BY <1>4 DEF Settings!Write, AddedRows, Keyed
  <2>2. (want' = want \/ want' = keys) /\ excused' = excused
    BY <1>4 DEF Settings!Write, Keyed
  <2>3. kept \in SUBSET rows
    OBVIOUS
  <2> HIDE DEF kept, keys
  <2>4. RowsTyped'
    BY <1>2, <1>4, <2>1, <2>3, WrittenAreTyped
  <2>5. want' \in Keys /\ excused' \in BOOLEAN
    BY ONLY <1>2, <2>2
  <2> HIDE DEF after
  <2>. QED
    BY <1>1, <1>2, <2>1, <2>4, <2>5, AnswerTyped
<1>. QED
    BY <1>3, <1>4

LEMMA ProfileTyped ==
    ASSUME SettingsTyped, NEW r \in Settings!Request, Settings!WriteProfile(r) PROVE SettingsTyped'
<1> DEFINE existing == IF profile = Settings!NoProfile
                       THEN [p \in Settings!Provider |-> Settings!None] ELSE profile
<1>1. /\ request[r].kind = "profile" /\ Settings!Answered(r, Settings!Stored)
      /\ profile' = Settings!Resolved(request[r].payload, existing)
      /\ UNCHANGED <<rows, want, excused>>
    BY DEF Settings!WriteProfile, Settings!Is
<1>2. /\ request[r].payload \in Masked /\ RowsTyped /\ want \in Keys /\ excused \in BOOLEAN
      /\ profile = Settings!NoProfile \/ profile \in Keys
    BY <1>1 DEF SettingsTyped, DeskTyped, RequestTyped
<1>3. existing \in Keys
    BY <1>2 DEF Keys, Settings!Value
<1>4. profile' \in Keys
    BY <1>1, <1>2, <1>3, ResolvedIsTyped
<1>5. profile' # Settings!NoProfile
  <2>1. 1 \in Settings!Provider
    BY BoundsAssumption DEF Settings!Provider
  <2>2. profile'[1] \in Settings!Value
    BY <1>4, <2>1 DEF Keys
  <2>3. "no profile" \notin Settings!Value
    BY NamesAssumption DEF Settings!Value, Settings!None
  <2>. QED
    BY <2>1, <2>2, <2>3 DEF Settings!NoProfile
<1> HIDE DEF existing
<1>6. RowsTyped'
    BY <1>1, <1>2, RowsHold
<1>7. request[r].kind \in {"save", "profile", "activate"} /\ want' \in Keys /\ excused' \in BOOLEAN
    BY <1>1, <1>2
<1>. QED
    BY <1>1, <1>4, <1>5, <1>6, <1>7, AnswerTyped

LEMMA SettingsTypedSteps == SettingsTyped /\ [Settings!Next]_(Settings!vars) => SettingsTyped'
<1> SUFFICES ASSUME SettingsTyped, [Settings!Next]_(Settings!vars) PROVE SettingsTyped'
    OBVIOUS
<1>1. CASE UNCHANGED Settings!vars
  <2>1. UNCHANGED <<rows, profile, page, request, want, excused>>
    BY <1>1 DEF Settings!vars
  <2>2. DeskTyped'
    BY <2>1 DEF SettingsTyped, DeskTyped, PageState, Keys, Settings!NoProfile, Settings!Provider,
                Settings!Value
  <2>3. \A r \in Settings!Request : ByPage(r) => OnPage(request[r])'
    BY <2>1 DEF SettingsTyped, RequestTyped, ByPage, OnPage
  <2>. QED
    BY <2>1, <2>2, <2>3, DeskMoves
<1>2. CASE Settings!LoadPage \/ Settings!Flush \/ Settings!Timer \/ Settings!Proceed
    BY <1>2, LoadTyped, FlushTyped
<1>3. ASSUME NEW p \in Settings!Provider, NEW key \in Settings!Value, Settings!Edit(p, key)
      PROVE  SettingsTyped'
    BY <1>3, EditTyped
<1>4. ASSUME NEW op \in {"save", "load"}, Settings!OpenProfile(op) PROVE SettingsTyped'
    BY <1>4, OpenTyped
<1>5. ASSUME NEW unload \in BOOLEAN, Settings!Leave(unload) PROVE SettingsTyped'
    BY <1>5, LeaveTyped
<1>6. ASSUME NEW r \in Settings!Request, Settings!Resolve(r) \/ Settings!ReadRows(r)
      PROVE  SettingsTyped'
    BY <1>6, WorkTyped
<1>7. ASSUME NEW r \in Settings!Request, Settings!Write(r) PROVE SettingsTyped'
    BY <1>7, WriteTyped
<1>8. ASSUME NEW r \in Settings!Request, Settings!WriteProfile(r) PROVE SettingsTyped'
    BY <1>8, ProfileTyped
<1>9. ASSUME NEW r \in Settings!Request, Settings!Fail(r) PROVE SettingsTyped'
  <2>1. /\ request[r].kind # "none" /\ Settings!Refused(r) /\ UNCHANGED <<rows, profile, want>>
    BY <1>9 DEF Settings!Fail, Settings!Active
  <2>2. request[r].kind \in {"save", "profile", "activate"}
    BY <2>1 DEF SettingsTyped, RequestTyped
  <2>. QED
    BY <2>1, <2>2, RefuseTyped
<1>10. ASSUME NEW r \in Settings!Request, Settings!Break(r) PROVE SettingsTyped'
    BY <1>10, BreakTyped
<1>. QED
    BY <1>1, <1>2, <1>3, <1>4, <1>5, <1>6, <1>7, <1>8, <1>9, <1>10 DEF Settings!Next

\* Every variable of every service has its type, for all bounds: the rows of the settings
\* have a provider and an id of their own, and the page waits for one request at most; no
\* two jobs end at once; a lock is of one process; a page of the catalog has its rows.
THEOREM ServicesAreTyped == ServicesSpec => []TypesOK
<1> DEFINE Inv == /\ which = "jobs" => JobInv /\ OverInv
                  /\ which = "downloads" => DownloadInv /\ DownloadRest
                  /\ which = "catalog" => CatalogInv /\ PagesInv
                  /\ which = "chat" => ChatInv /\ ChatRest
                  /\ which = "registry" => RegistryInv
                  /\ which = "migration" => SchemaInv /\ LockTyped
                  /\ which = "settings" => SettingsTyped
<1>1. ServicesInit => Inv
  <2>1. Downloads!Init => DownloadRest
    BY BoundsAssumption DEF Downloads!Init, DownloadRest, Downloads!NoDir
  <2>2. Chat!Init => ChatRest
    BY BoundsAssumption DEF Chat!Init, ChatRest, Chat!Idle
  <2>3. Schema!Init => LockTyped
    BY DEF Schema!Init, LockTyped
  <2>. QED
    BY <2>1, <2>2, <2>3, JobStarts, JobsAreOver, DownloadsStart, CatalogStarts, PagesStart,
       ChatStarts, RegistryStarts, SchemaStarts, SettingsTypedStart
       DEF ServicesInit, JobsInit, DownloadsInit, CatalogInit, ChatInit, RegistryInit,
           SchemaInit, SettingsInit
<1>2. Inv /\ [ServicesNext]_all => Inv'
  <2> SUFFICES ASSUME Inv, [ServicesNext]_all PROVE Inv'
    OBVIOUS
  <2>1. CASE JobsNext
    BY <2>1, JobSteps, JobOverSteps DEF JobsNext
  <2>2. CASE DownloadsNext
    BY <2>2, DownloadSteps, DownloadRestSteps DEF DownloadsNext
  <2>3. CASE CatalogNext
    BY <2>3, CatalogSteps, PagesSteps DEF CatalogNext
  <2>4. CASE ChatNext
    BY <2>4, ChatSteps, ChatRestSteps DEF ChatNext
  <2>5. CASE RegistryNext
    BY <2>5, RegistrySteps DEF RegistryNext
  <2>6. CASE SchemaNext
    BY <2>6, SchemaSteps, LockSteps DEF SchemaNext
  <2>7. CASE SettingsNext
    BY <2>7, SettingsTypedSteps DEF SettingsNext
  <2>8. CASE UNCHANGED all
    <3>1. /\ UNCHANGED which /\ UNCHANGED Jobs!vars /\ UNCHANGED Downloads!vars
          /\ UNCHANGED Catalog!vars /\ UNCHANGED Chat!vars /\ UNCHANGED Registry!vars
          /\ UNCHANGED Schema!vars /\ UNCHANGED Settings!vars
      BY <2>8 DEF all, Jobs!vars, Downloads!vars, Catalog!vars, Chat!vars, Registry!vars,
                  Schema!vars, Settings!vars
    <3>. QED
      BY <3>1, JobSteps, JobOverSteps, DownloadSteps, DownloadRestSteps, CatalogSteps, PagesSteps,
         ChatSteps, ChatRestSteps, RegistrySteps, SchemaSteps, LockSteps, SettingsTypedSteps
  <2>. QED
    BY <2>1, <2>2, <2>3, <2>4, <2>5, <2>6, <2>7, <2>8 DEF ServicesNext, Stopped
<1>3. Inv => TypesOK
    BY JobsAreTyped, DownloadsAreTyped, ChatIsTyped, RegistryIsTyped, SchemaIsTyped, SettingsAreTyped
       DEF TypesOK, PagesInv
<1>. QED
    BY <1>1, <1>2, <1>3, PTL DEF ServicesSpec
==============================================================================
