------------------------------- MODULE MCNodes -------------------------------
(****************************************************************************)
(* A workflow from the editor to the calls of its nodes, for TLC: the       *)
(* compiler, the run that the editor follows, the tools of a run, the       *)
(* requests to model providers and the calls of HTTP nodes, each with       *)
(* behaviours of its own.                                                   *)
(****************************************************************************)
EXTENDS PlanCompiler

CONSTANTS
    MaxRuns, MaxPauses, MaxMounts, MaxLost,  \* RunTracking
    MaxToolAttempts, Tries, MaxRestarts,  \* ToolScope
    MaxChanges,                           \* ModelRouting
    MaxAttempts, MaxRedirects, Limit      \* HttpTransport

\* The bounds of RunTracking and of ModelRouting.
ASSUME EditorAssumption == {MaxRuns, MaxPauses, MaxMounts, MaxLost} \subseteq Nat
ASSUME ChangesAssumption == MaxChanges \in Nat

ASSUME BoundsAssumption ==
    /\ MaxToolAttempts \in Nat /\ Tries \in Nat \ {0} /\ MaxRestarts \in Nat
    /\ MaxAttempts \in Nat /\ MaxRedirects \in Nat /\ Limit \in Nat

VARIABLES
    which,   \* the component of this behaviour
    server, page, stored, mount, flow, ask, lost, orphan, missed, run, executor, canceller,
    attempt, collections, handle, restarts, late, forgotten, request, around, pc, sent,
    changes, touched, hops, scheme, body, status, size, partials, download, cancelled,
    outcome, processed, short

\* A chat input, a model node, an output that also passes its text on, and an output
\* with effects that hands a model over too.
N(cat, in, out, ctl, req, multi, side) ==
    [category |-> cat, input |-> in, output |-> out, controller |-> ctl, required |-> req,
     multiple |-> multi, side_effecting |-> side, idempotent |-> FALSE, retries |-> FALSE]

MCManifest == <<
    N("chat", "none", "TEXT", "none", {}, FALSE, FALSE),
    N("model", "TEXT", "TEXT", "MODEL", {"controller"}, FALSE, FALSE),
    N("output", "ANY", "TEXT", "MODEL", {"data"}, TRUE, FALSE),
    N("output", "ANY", "IMAGE", "MODEL", {}, FALSE, TRUE)>>

C(a, b, k) == [from |-> a, to |-> b, kind |-> k, copy |-> 1]
Again(c) == [c EXCEPT !.copy = 2]
MCConnection == {
    C(1, 2, "data"), C(1, 3, "data"), C(2, 3, "data"), C(3, 2, "data"), C(2, 2, "data"),
    C(1, 4, "data"), C(2, 1, "data"),
    C(4, 2, "controller"), C(2, 4, "controller"), C(4, 3, "controller"),
    Again(C(1, 3, "data"))}

Editor == INSTANCE RunTracking
Tools == INSTANCE ToolScope WITH MaxAttempts <- MaxToolAttempts
Models == INSTANCE ModelRouting
Http == INSTANCE HttpTransport

all == <<which,
        nodes, skipped, twice, edges, active, conns, phase, indegree, queue, order, chats,
        frontier, reached, errors, terminal, plan, server, page, stored, mount, flow, ask,
        lost, orphan, missed, run, executor, canceller, attempt, collections, handle,
        restarts, late, forgotten, request, around, pc, sent, changes, touched, hops,
        scheme, body, status, size, partials, download, cancelled, outcome, processed, short>>

\* The variables of the other components keep this value.
Off == "off"

CompilerInit ==
    /\ which = "plan" /\ Init
    /\ server = Off /\ page = Off /\ stored = Off /\ mount = Off /\ flow = Off /\ ask = Off
    /\ lost = Off /\ orphan = Off /\ missed = Off /\ run = Off /\ executor = Off
    /\ canceller = Off /\ attempt = Off /\ collections = Off /\ handle = Off /\ restarts = Off
    /\ late = Off /\ forgotten = Off /\ request = Off /\ around = Off /\ pc = Off
    /\ sent = Off /\ changes = Off /\ touched = Off /\ hops = Off /\ scheme = Off /\ body = Off
    /\ status = Off /\ size = Off /\ partials = Off /\ download = Off /\ cancelled = Off
    /\ outcome = Off /\ processed = Off /\ short = Off
CompilerNext ==
    /\ which = "plan" /\ Next
    /\ UNCHANGED <<which,
          server, page, stored, mount, flow, ask, lost, orphan, missed, run, executor,
          canceller, attempt, collections, handle, restarts, late, forgotten, request,
          around, pc, sent, changes, touched, hops, scheme, body, status, size, partials,
          download, cancelled, outcome, processed, short>>

EditorInit ==
    /\ which = "editor" /\ Editor!Init
    /\ nodes = Off /\ skipped = Off /\ twice = Off /\ edges = Off /\ active = Off /\ conns = Off
    /\ phase = Off /\ indegree = Off /\ queue = Off /\ order = Off /\ chats = Off
    /\ frontier = Off /\ reached = Off /\ errors = Off /\ terminal = Off /\ plan = Off
    /\ run = Off /\ executor = Off /\ canceller = Off /\ attempt = Off /\ collections = Off
    /\ handle = Off /\ restarts = Off /\ late = Off /\ forgotten = Off /\ request = Off
    /\ around = Off /\ pc = Off /\ sent = Off /\ changes = Off /\ touched = Off /\ hops = Off
    /\ scheme = Off /\ body = Off /\ status = Off /\ size = Off /\ partials = Off
    /\ download = Off /\ cancelled = Off /\ outcome = Off /\ processed = Off /\ short = Off
EditorNext ==
    /\ which = "editor" /\ Editor!Next
    /\ UNCHANGED <<which,
          nodes, skipped, twice, edges, active, conns, phase, indegree, queue, order, chats,
          frontier, reached, errors, terminal, plan, run, executor, canceller, attempt,
          collections, handle, restarts, late, forgotten, request, around, pc, sent,
          changes, touched, hops, scheme, body, status, size, partials, download, cancelled,
          outcome, processed, short>>

ToolsInit ==
    /\ which = "tools" /\ Tools!Init
    /\ nodes = Off /\ skipped = Off /\ twice = Off /\ edges = Off /\ active = Off /\ conns = Off
    /\ phase = Off /\ indegree = Off /\ queue = Off /\ order = Off /\ chats = Off
    /\ frontier = Off /\ reached = Off /\ errors = Off /\ terminal = Off /\ server = Off
    /\ page = Off /\ stored = Off /\ mount = Off /\ flow = Off /\ ask = Off /\ lost = Off
    /\ orphan = Off /\ missed = Off /\ request = Off /\ around = Off /\ pc = Off /\ sent = Off
    /\ changes = Off /\ touched = Off /\ hops = Off /\ scheme = Off /\ body = Off
    /\ status = Off /\ size = Off /\ partials = Off /\ download = Off /\ cancelled = Off
    /\ outcome = Off /\ processed = Off /\ short = Off
ToolsNext ==
    /\ which = "tools" /\ Tools!Next
    /\ UNCHANGED <<which,
          nodes, skipped, twice, edges, active, conns, phase, indegree, queue, order, chats,
          frontier, reached, errors, terminal, server, page, stored, mount, flow, ask, lost,
          orphan, missed, request, around, pc, sent, changes, touched, hops, scheme, body,
          status, size, partials, download, cancelled, outcome, processed, short>>

ModelsInit ==
    /\ which = "models" /\ Models!Init
    /\ nodes = Off /\ skipped = Off /\ twice = Off /\ edges = Off /\ active = Off /\ conns = Off
    /\ phase = Off /\ indegree = Off /\ queue = Off /\ order = Off /\ chats = Off
    /\ frontier = Off /\ reached = Off /\ errors = Off /\ terminal = Off /\ plan = Off
    /\ server = Off /\ page = Off /\ stored = Off /\ mount = Off /\ flow = Off /\ ask = Off
    /\ lost = Off /\ orphan = Off /\ missed = Off /\ run = Off /\ executor = Off
    /\ canceller = Off /\ attempt = Off /\ collections = Off /\ handle = Off /\ restarts = Off
    /\ late = Off /\ forgotten = Off /\ hops = Off /\ scheme = Off /\ body = Off
    /\ status = Off /\ size = Off /\ partials = Off /\ download = Off /\ cancelled = Off
    /\ outcome = Off /\ processed = Off /\ short = Off
ModelsNext ==
    /\ which = "models" /\ Models!Next
    /\ UNCHANGED <<which,
          nodes, skipped, twice, edges, active, conns, phase, indegree, queue, order, chats,
          frontier, reached, errors, terminal, plan, server, page, stored, mount, flow, ask,
          lost, orphan, missed, run, executor, canceller, attempt, collections, handle,
          restarts, late, forgotten, hops, scheme, body, status, size, partials, download,
          cancelled, outcome, processed, short>>

HttpInit ==
    /\ which = "http" /\ Http!Init
    /\ nodes = Off /\ skipped = Off /\ twice = Off /\ edges = Off /\ active = Off /\ conns = Off
    /\ phase = Off /\ indegree = Off /\ queue = Off /\ order = Off /\ chats = Off
    /\ frontier = Off /\ reached = Off /\ errors = Off /\ terminal = Off /\ plan = Off
    /\ server = Off /\ page = Off /\ stored = Off /\ mount = Off /\ flow = Off /\ ask = Off
    /\ lost = Off /\ orphan = Off /\ missed = Off /\ run = Off /\ executor = Off
    /\ canceller = Off /\ collections = Off /\ handle = Off /\ restarts = Off
    /\ forgotten = Off /\ around = Off /\ sent = Off /\ changes = Off /\ touched = Off
HttpNext ==
    /\ which = "http" /\ Http!Next
    /\ UNCHANGED <<which,
          nodes, skipped, twice, edges, active, conns, phase, indegree, queue, order, chats,
          frontier, reached, errors, terminal, plan, server, page, stored, mount, flow, ask,
          lost, orphan, missed, run, executor, canceller, collections, handle, restarts,
          forgotten, around, sent, changes, touched>>

NodesInit == CompilerInit \/ EditorInit \/ ToolsInit \/ ModelsInit \/ HttpInit

\* These come to an end.
Stopped == which \in {"editor", "tools", "models"} /\ UNCHANGED all

NodesNext == CompilerNext \/ EditorNext \/ ToolsNext \/ ModelsNext \/ HttpNext \/ Stopped

NodesSpec == NodesInit /\ [][NodesNext]_all /\ WF_all(HttpNext /\ Http!Step)

------------------------------------------------------------------------------
(* Properties: those of the components *)

\* Every variable of a component has its type.
TypesOK ==
    /\ which = "plan" => TypeOK
    /\ which = "editor" => Editor!TypeOK
    /\ which = "tools" => Tools!TypeOK
    /\ which = "models" => Models!TypeOK
    /\ which = "http" => Http!TypeOK

\* compiler/service.py: the plan has every node after the nodes it is connected from, is
\* closed, connected and bound, has an answer for every chat, and a cycle is reported
\* when there is one, and else only when the id of an active node is listed twice.
PlansAreSound == which = "plan" => OrderRespectsConnections /\ PlanIsSound

\* WorkflowPage.tsx: the editor has one run at a time, follows it until it has ended and
\* finds it again.
EditorIsTrue == which = "editor" => Editor!EditorIsTrue

\* core/tools.py: a call finds the tools of its run, and an ended run leaves none.
ToolsFollowTheRun == which = "tools" => Tools!ToolsFollowTheRun

\* provider/service.py and llm/providers.py: what was validated is served, but for a
\* downloaded Hugging Face model that needs a key, and sent whole, but for what the
\* context window of the local pipeline cuts off.
RequestsAreServed == which = "models" => Models!RequestsAreServed

\* http_transport.py: no unsafe request is repeated but by the redirects that the node
\* follows, every one carries its body, and a download is all or nothing.
CallIsSafe == which = "http" => Http!CallIsSafe

\* execute: every call ends, whatever servers, clock and cancellation do.
CallEnds == which = "http" => <>(which = "http" /\ pc = "done")
==============================================================================
