----------------------------- MODULE RunTracking -----------------------------
(***************************************************************************)
(* pages/WorkflowPage.tsx: how the editor starts a run, follows it by      *)
(* polling, shows its reviews, cancels and resumes it, and finds it again  *)
(* after the page was left or reloaded.  runWorkflow and the effect that   *)
(* resumes a tracked run are asynchronous functions of one mounted page;   *)
(* they go on when it is no longer mounted, and what they then set has no  *)
(* effect.  A request is one step when the server acts on it and one when  *)
(* the page acts on the answer, which may be lost.  Runs are those of      *)
(* ExecutionLifecycle, seen from outside.                                  *)
(***************************************************************************)
EXTENDS Naturals, FiniteSets

CONSTANTS
    MaxRuns,    \* bound: runs
    MaxPauses,  \* bound: reviews of a run
    MaxMounts,  \* bound: times the page is opened
    MaxLost     \* bound: requests or answers that are lost

Run   == 1..MaxRuns
NoRun == 0
Mount == 1..MaxMounts
Flow  == 1..MaxMounts + 1

VARIABLES
    server,  \* of each run: its status and its last token
    page,    \* the state of the mounted page
    stored,  \* active_run of the autosaved workflow
    mount,   \* times the page was opened
    flow,    \* the asynchronous functions that follow a run
    ask,     \* the cancel or resume request of each mount
    lost,    \* requests and answers lost
    orphan,  \* history: runs whose start the page could not record
    missed   \* history: runs cancelled or resumed without this page acting on it

vars == <<server, page, stored, mount, flow, ask, lost, orphan, missed>>

RunState  == [status : {"none", "active", "paused", "ended", "gone"}, token : 0..MaxPauses]
NoReview  == [run |-> NoRun, token |-> 0]
Closed    == [on |-> FALSE, active |-> NoRun, paused |-> NoReview, snapshot |-> NoRun,
              running |-> FALSE, pending |-> FALSE]
NoFlow    == [pc |-> "off", mount |-> 0, run |-> NoRun,
              read |-> [status |-> "none", token |-> 0]]
NoRequest == [pc |-> "off", kind |-> "cancel", run |-> NoRun, token |-> 0, running |-> FALSE,
              ok |-> FALSE]

TypeOK ==
    /\ server \in [Run -> RunState]
    /\ page.on \in BOOLEAN /\ page.active \in Run \cup {NoRun}
    /\ page.paused \in [run : Run \cup {NoRun}, token : 0..MaxPauses]
    /\ page.snapshot \in Run \cup {NoRun} /\ page.running \in BOOLEAN /\ page.pending \in BOOLEAN
    /\ stored \in Run \cup {NoRun} /\ mount \in 0..MaxMounts /\ lost \in 0..MaxLost
    /\ \A f \in Flow :
         /\ flow[f].pc \in {"off", "compile", "started", "poll", "read", "closing"}
         /\ flow[f].run \in Run \cup {NoRun} /\ flow[f].mount \in 0..mount
         /\ flow[f].pc = "off" => flow[f] = NoFlow
    /\ \A m \in Mount : ask[m].pc \in {"off", "sent", "answered"} /\ ask[m].run \in Run \cup {NoRun}
    /\ orphan \subseteq Run /\ missed \subseteq Run

Init ==
    /\ server = [r \in Run |-> [status |-> "none", token |-> 0]]
    /\ page = Closed /\ stored = NoRun /\ mount = 0
    /\ flow = [f \in Flow |-> NoFlow] /\ ask = [m \in Mount |-> NoRequest]
    /\ lost = 0 /\ orphan = {} /\ missed = {}

Live(r) == server[r].status \in {"active", "paused"}

\* A flow whose page is mounted.
Mounted(f) == page.on /\ flow[f].mount = mount

\* The effects of a rendering have run before the user acts on it.
Rendered == page.on /\ (page.snapshot = NoRun \/ page.running)

Changes(f, new) == page' = IF Mounted(f) THEN new ELSE page

-----------------------------------------------------------------------------
(* The server *)

Pause(r) ==
    /\ server[r].status = "active" /\ server[r].token < MaxPauses
    /\ server' = [server EXCEPT ![r] = [status |-> "paused", token |-> @.token + 1]]
    /\ UNCHANGED <<page, stored, mount, flow, ask, lost, orphan, missed>>

End(r) ==
    /\ server[r].status = "active"
    /\ server' = [server EXCEPT ![r].status = "ended"]
    /\ UNCHANGED <<page, stored, mount, flow, ask, lost, orphan, missed>>

\* Retention removes ended runs.
Forget(r) ==
    /\ server[r].status = "ended"
    /\ server' = [server EXCEPT ![r].status = "gone"]
    /\ UNCHANGED <<page, stored, mount, flow, ask, lost, orphan, missed>>

-----------------------------------------------------------------------------
(* runWorkflow, monitorExecutionRun, finalizeRunState *)

\* The signal of a controller is aborted: the flows of the mount that poll end and leave
\* the page as it is.
Aborted(m) ==
    [f \in Flow |-> IF flow[f].mount = m /\ flow[f].pc \in {"poll", "read"} THEN NoFlow ELSE flow[f]]

\* f polls with a new controller, the former one is aborted.
Monitor(f, run) ==
    [Aborted(mount) EXCEPT ![f] = [NoFlow EXCEPT !.pc = "poll", !.mount = mount, !.run = run]]

\* A flow begins.
Begins(f) == flow[f].pc = "off" /\ \A g \in 1..(f - 1) : flow[g].pc # "off"

RunWorkflow(f) ==
    /\ Rendered /\ page.active = NoRun /\ ~page.running
    /\ Begins(f)
    /\ page' = [page EXCEPT !.running = TRUE, !.snapshot = NoRun]
    /\ flow' = [flow EXCEPT ![f].pc = "compile", ![f].mount = mount]
    /\ UNCHANGED <<server, stored, mount, ask, lost, orphan, missed>>

\* The graph does not compile, or the request does not arrive.
RunRefused(f) ==
    /\ flow[f].pc = "compile"
    /\ Changes(f, [page EXCEPT !.running = FALSE])
    /\ flow' = [flow EXCEPT ![f] = NoFlow]
    /\ UNCHANGED <<server, stored, mount, ask, lost, orphan, missed>>

\* startExecution reaches the server.
StartAtServer(f, r) ==
    /\ flow[f].pc = "compile"
    /\ server[r].status = "none" /\ \A q \in 1..(r - 1) : server[q].status # "none"
    /\ server' = [server EXCEPT ![r].status = "active"]
    /\ flow' = [flow EXCEPT ![f].pc = "started", ![f].run = r]
    /\ orphan' = IF Mounted(f) THEN orphan ELSE orphan \cup {r}
    /\ UNCHANGED <<page, stored, mount, ask, lost, missed>>

\* When the page is gone, the poll that begins now changes nothing and is left out.
StartAnswered(f) ==
    /\ flow[f].pc = "started"
    /\ Changes(f, [page EXCEPT !.active = flow[f].run])
    /\ flow' = IF Mounted(f) THEN Monitor(f, flow[f].run) ELSE [flow EXCEPT ![f] = NoFlow]
    /\ UNCHANGED <<server, stored, mount, ask, lost, orphan, missed>>

StartLost(f) ==
    /\ flow[f].pc = "started" /\ lost < MaxLost
    /\ lost' = lost + 1 /\ orphan' = orphan \cup {flow[f].run}
    /\ Changes(f, [page EXCEPT !.running = FALSE])
    /\ flow' = [flow EXCEPT ![f] = NoFlow]
    /\ UNCHANGED <<server, stored, mount, ask, missed>>

\* getExecution reads the run.
Poll(f) ==
    /\ flow[f].pc = "poll"
    /\ flow' = [flow EXCEPT ![f].pc = "read", ![f].read = server[flow[f].run]]
    /\ UNCHANGED <<server, page, stored, mount, ask, lost, orphan, missed>>

\* The answer is that the run goes on; that it waits for a review, which the page shows;
\* that it has ended, after which other requests follow; or that nobody knows it.
Answered(f) ==
    /\ flow[f].pc = "read"
    /\ LET status == flow[f].read.status IN
       \/ /\ status = "active"
          /\ flow' = [flow EXCEPT ![f].pc = "poll"] /\ UNCHANGED page
       \/ /\ status = "paused"
          /\ Changes(f, [page EXCEPT !.running = FALSE,
                 !.paused = [run |-> flow[f].run, token |-> flow[f].read.token]])
          /\ flow' = [flow EXCEPT ![f] = NoFlow]
       \/ /\ status = "ended"
          /\ Changes(f, [page EXCEPT !.paused = NoReview])
          /\ flow' = [flow EXCEPT ![f].pc = "closing"]
       \/ /\ status = "gone"
          /\ Changes(f, [page EXCEPT !.running = FALSE, !.active = NoRun])
          /\ flow' = [flow EXCEPT ![f] = NoFlow]
    /\ UNCHANGED <<server, stored, mount, ask, lost, orphan, missed>>

\* Local saving and chat histories are through, or failed.
Close(f) ==
    /\ flow[f].pc = "closing"
    /\ Changes(f, [page EXCEPT !.running = FALSE, !.active = NoRun])
    /\ flow' = [flow EXCEPT ![f] = NoFlow]
    /\ UNCHANGED <<server, stored, mount, ask, lost, orphan, missed>>

\* The server cannot be reached: the run stays tracked.
PollLost(f) ==
    /\ flow[f].pc \in {"poll", "read"} /\ lost < MaxLost
    /\ lost' = lost + 1
    /\ Changes(f, [page EXCEPT !.running = FALSE])
    /\ flow' = [flow EXCEPT ![f] = NoFlow]
    /\ UNCHANGED <<server, stored, mount, ask, orphan, missed>>

\* The effect on resumeRunSnapshot and isRunning.
ResumeTracking(f) ==
    /\ page.on /\ page.snapshot # NoRun /\ ~page.running
    /\ Begins(f)
    /\ page' = [page EXCEPT !.snapshot = NoRun, !.running = TRUE]
    /\ flow' = Monitor(f, page.snapshot)
    /\ UNCHANGED <<server, stored, mount, ask, lost, orphan, missed>>

-----------------------------------------------------------------------------
(* Buttons *)

Reconnect ==
    /\ Rendered /\ page.active # NoRun /\ ~page.running /\ page.paused = NoReview
    /\ ~page.pending
    /\ page' = [page EXCEPT !.snapshot = page.active]
    /\ UNCHANGED <<server, stored, mount, flow, ask, lost, orphan, missed>>

\* requestCancellation; the function keeps isRunning as it was rendered.
RequestCancel ==
    /\ Rendered /\ page.active # NoRun /\ ~page.pending
    /\ page' = [page EXCEPT !.pending = TRUE]
    /\ ask' = [ask EXCEPT ![mount] = [NoRequest EXCEPT !.pc = "sent", !.run = page.active,
                                                       !.running = page.running]]
    /\ UNCHANGED <<server, stored, mount, flow, lost, orphan, missed>>

\* requestReviewResume
RequestResume ==
    /\ Rendered /\ page.active # NoRun /\ page.paused # NoReview /\ ~page.pending
    /\ page' = [page EXCEPT !.pending = TRUE]
    /\ ask' = [ask EXCEPT ![mount] = [NoRequest EXCEPT !.pc = "sent", !.kind = "resume",
                                         !.run = page.active, !.token = page.paused.token]]
    /\ UNCHANGED <<server, stored, mount, flow, lost, orphan, missed>>

\* What the server makes of a request: refused, or the run's new status.  The job of a
\* running run may still be in its handler.
Outcome(a) ==
    IF a.kind = "cancel"
    THEN CASE server[a.run].status = "active" -> {"active", "ended"}
           [] server[a.run].status = "paused" -> {"ended"}
           [] OTHER -> {}
    ELSE IF server[a.run] = [status |-> "paused", token |-> a.token] THEN {"active"} ELSE {}

AskAtServer(m) ==
    LET a == ask[m] IN
    /\ a.pc = "sent"
    /\ \/ \E status \in Outcome(a) :
            /\ server' = [server EXCEPT ![a.run].status = status]
            /\ ask' = [ask EXCEPT ![m].pc = "answered", ![m].ok = TRUE]
            /\ missed' = IF a.running \/ ~page.on \/ m # mount
                         THEN missed \cup {a.run} ELSE missed
       \/ /\ Outcome(a) = {}
          /\ ask' = [ask EXCEPT ![m].pc = "answered"]
          /\ UNCHANGED <<server, missed>>
    /\ UNCHANGED <<page, stored, mount, flow, lost, orphan>>

\* Mutant: a cancellation always makes the page follow the run anew.
AskAnsweredAlways(m) ==
    LET a == ask[m]
        follow == [page EXCEPT !.pending = FALSE, !.paused = NoReview, !.snapshot = a.run]
    IN
    /\ a.pc = "answered"
    /\ page' = CASE ~(page.on /\ m = mount) -> page
                 [] page.on /\ m = mount /\ a.ok -> follow
                 [] OTHER -> [page EXCEPT !.pending = FALSE]
    /\ ask' = [ask EXCEPT ![m] = NoRequest]
    /\ UNCHANGED <<server, stored, mount, flow, lost, orphan, missed>>

\* The page follows the run again when it was at rest as the request was made.
AskAnswered(m) ==
    LET a == ask[m]
        follow == [page EXCEPT !.pending = FALSE, !.paused = NoReview, !.snapshot = a.run]
    IN
    /\ a.pc = "answered"
    /\ page' = CASE ~(page.on /\ m = mount) -> page
                 [] page.on /\ m = mount /\ a.ok /\ ~a.running -> follow
                 [] OTHER -> [page EXCEPT !.pending = FALSE]
    /\ ask' = [ask EXCEPT ![m] = NoRequest]
    /\ UNCHANGED <<server, stored, mount, flow, lost, orphan, missed>>

\* The request or its answer is lost.
AskLost(m) ==
    /\ ask[m].pc # "off" /\ lost < MaxLost /\ lost' = lost + 1
    /\ page' = IF page.on /\ m = mount THEN [page EXCEPT !.pending = FALSE] ELSE page
    /\ missed' = IF ask[m].ok THEN missed \cup {ask[m].run} ELSE missed
    /\ ask' = [ask EXCEPT ![m] = NoRequest]
    /\ UNCHANGED <<server, stored, mount, flow, orphan>>

-----------------------------------------------------------------------------
(* The page comes and goes *)

\* useWorkflowAutosave, 150 ms after the last change.
Autosave ==
    /\ page.on /\ stored' = page.active
    /\ UNCHANGED <<server, page, mount, flow, ask, lost, orphan, missed>>

\* The route renders the page, which restores what was saved.
Open ==
    /\ ~page.on /\ mount < MaxMounts
    /\ mount' = mount + 1
    /\ page' = [Closed EXCEPT !.on = TRUE, !.active = stored, !.snapshot = stored]
    /\ UNCHANGED <<server, stored, flow, ask, lost, orphan, missed>>

\* Runs that this page was about to record.
Unrecorded == {flow[f].run : f \in {g \in Flow : flow[g].pc = "started" /\ Mounted(g)}}

\* Another route: the page saves, aborts the poll it follows and is unmounted.  What has
\* not begun to poll goes on.
Leave ==
    /\ page.on /\ page' = Closed /\ stored' = page.active
    /\ flow' = Aborted(mount)
    /\ orphan' = orphan \cup Unrecorded
    /\ missed' = missed \cup {ask[m].run : m \in {n \in Mount : ask[n].ok}}
    /\ UNCHANGED <<server, mount, ask, lost>>

\* The browser reloads or ends the page, which saves first or (when it is killed) not.
Reload ==
    /\ page.on /\ page' = Closed
    /\ \/ stored' = page.active /\ orphan' = orphan \cup Unrecorded
       \/ /\ UNCHANGED stored
          /\ orphan' = orphan \cup Unrecorded \cup ({page.active} \ {stored, NoRun})
    /\ flow' = [f \in Flow |-> NoFlow] /\ ask' = [m \in Mount |-> NoRequest]
    /\ UNCHANGED <<server, mount, lost, missed>>

-----------------------------------------------------------------------------

Next ==
    \/ \E r \in Run : Pause(r) \/ End(r) \/ Forget(r)
    \/ \E f \in Flow :
         \/ RunWorkflow(f) \/ RunRefused(f) \/ StartAnswered(f) \/ StartLost(f)
         \/ Poll(f) \/ Answered(f) \/ Close(f) \/ PollLost(f)
         \/ ResumeTracking(f)
         \/ \E r \in Run : StartAtServer(f, r)
    \/ \E m \in Mount : AskAtServer(m) \/ AskAnswered(m) \/ AskLost(m)
    \/ Reconnect \/ RequestCancel \/ RequestResume \/ Autosave \/ Open \/ Leave \/ Reload

Spec == Init /\ [][Next]_vars

-----------------------------------------------------------------------------
(* Properties *)

\* isRunning means that exactly one function follows a run, and it is the tracked one.
OneMonitor ==
    LET mine == {f \in Flow : flow[f].pc # "off" /\ Mounted(f)} IN
    page.on =>
        /\ page.running <=> mine # {}
        /\ Cardinality(mine) <= 1
        /\ \A f \in mine : flow[f].pc \in {"poll", "read", "closing"} =>
                               flow[f].run = page.active

\* "retains the active run across page reloads": a run that has not ended is tracked, by
\* the page or by what the next page restores.  Excused: the page was left, or the answer
\* lost, before the run was recorded.
Tracked(r) ==
    \/ page.active = r \/ (~page.on /\ stored = r)
    \/ \E f \in Flow : flow[f].pc = "started" /\ flow[f].run = r /\ Mounted(f)

NoRunForgotten == \A r \in Run \ orphan : Live(r) => Tracked(r)

\* "A new workflow run remains disabled until the tracked run finishes or is cancelled":
\* the editor has one run at a time.
OneRunAtATime == Cardinality({r \in Run \ orphan : Live(r)}) <= 1

\* The review that is shown is that of the tracked run, and nobody follows it meanwhile.
ReviewIsTracked ==
    page.paused # NoReview => page.paused.run = page.active /\ ~page.running

\* The same sentence, the other way round: a tracked run that has ended is followed or can
\* be followed by Reconnect.  Excused: it was cancelled or resumed by a request made while
\* the page still followed the run, or from an earlier page, or whose answer was lost.
\* The page then keeps showing a review that Resume and Cancel refuse, until it is
\* reloaded.
EndIsNoticed ==
    /\ Rendered /\ ~page.running /\ ~page.pending /\ page.active # NoRun
    /\ ~Live(page.active) /\ page.active \notin missed
    => page.paused = NoReview

EditorIsTrue ==
    /\ OneMonitor /\ NoRunForgotten /\ OneRunAtATime /\ ReviewIsTracked /\ EndIsNoticed
=============================================================================
