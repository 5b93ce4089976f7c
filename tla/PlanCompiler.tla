---------------------------- MODULE PlanCompiler ----------------------------
(***************************************************************************)
(* CompilerService.compile: the skipped nodes of a definition are left     *)
(* out, what remains is checked and ordered, every chat node is followed   *)
(* to its terminal output, and a definition without errors becomes a plan  *)
(* whose steps are bound to the steps they read from.                      *)
(*                                                                         *)
(* One step of the model is one turn of a loop of the compiler.  The       *)
(* manifests of the nodes are data; a node has one data input, one data    *)
(* output and one controller, as far as its manifest declares them.  A     *)
(* definition may list an id twice (the two nodes are alike, except that   *)
(* one of them may be skipped) and a connection too.                       *)
(***************************************************************************)
EXTENDS Naturals, Sequences, FiniteSets

CONSTANTS
    Node,        \* node ids
    Connection,  \* the connections a definition may list: [from, to, kind, copy]
    Manifest,    \* what the manifest of each node declares
    MaxOff       \* bound on the nodes missing, and on those skipped or listed twice

\* Node ids are numbers in the order in which the definition lists its nodes, which are
\* finitely many.
ASSUME NodeAssumption == IsFiniteSet(Node) /\ Node \subseteq Nat

ASSUME ConnectionAssumption ==
    /\ IsFiniteSet(Connection)
    /\ \A c \in Connection : c.kind \in {"data", "controller"}

VARIABLES
    nodes,      \* the nodes of the definition
    skipped,    \* those marked skipped
    twice,      \* those listed twice
    edges,      \* its connections, whose ends need not be nodes of it
    active, conns,                \* what _active_definition keeps of it
    phase,      \* what the compiler is doing
    indegree, queue, order,       \* _topological_order
    chats, frontier, reached,     \* _collect_chat_terminal_outputs
    errors,     \* codes of the diagnostics of level error
    terminal,   \* terminal output of each chat node
    plan        \* steps, each with the node it runs and its bindings

vars == <<nodes, skipped, twice, edges, active, conns, phase, indegree, queue, order,
          chats, frontier, reached, errors, terminal, plan>>

definition == <<nodes, skipped, twice, edges>>
ordering   == <<indegree, queue, order>>
walking    == <<chats, frontier, reached>>

RangeOf(s) == {s[i] : i \in DOMAIN s}

\* Connections of which both ends are nodes; the rest are errors and are not followed.
Edges == {e \in conns : e.from \in active /\ e.to \in active}
Inbound(n, kind) == {e \in Edges : e.to = n /\ e.kind = kind}

\* The ids of which _active_definition keeps both nodes.
Repeated == active \cap twice

\* Sequences that list a set in the order of its members.
Ascending(S) ==
    {s \in [1..Cardinality(S) -> S] : \A i, j \in DOMAIN s : i < j => s[i] < s[j]}

\* The nodes reached from S along a set of pairs.
Closure(S, pairs) ==
    LET reach[k \in 0..Cardinality(Node)] ==
            IF k = 0 THEN S
            ELSE LET before == reach[k - 1] IN
                 before \cup {p[2] : p \in {q \in pairs : q[1] \in before}}
    IN reach[Cardinality(Node)]

Pairs(E) == {<<e.from, e.to>> : e \in E}
Terminals == {n \in active : Manifest[n].category = "output"}
Chats     == {n \in active : Manifest[n].category = "chat"}

-----------------------------------------------------------------------------
(* Diagnostics *)

\* A connection that is listed again, whose ends are the same node or lack the port,
\* whose types differ, or that is the second of a port that takes one.
Takes(n, kind) == IF kind = "data" THEN Manifest[n].input ELSE Manifest[n].controller
Gives(n, kind) == IF kind = "data" THEN Manifest[n].output ELSE Manifest[n].controller

Compatible(e) ==
    LET a == Gives(e.from, e.kind)
        b == Takes(e.to, e.kind) IN
    a = b \/ a = "ANY" \/ b = "ANY"

Sound(e) ==
    /\ e.from # e.to
    /\ Gives(e.from, e.kind) # "none" /\ Takes(e.to, e.kind) # "none"

SameKey(c, d) == c.from = d.from /\ c.to = d.to /\ c.kind = d.kind

ConnectionErrors ==
    {"duplicate_connection" : c \in {x \in conns : \E y \in conns : x # y /\ SameKey(x, y)}}
    \cup {"missing_node" : e \in conns \ Edges}
    \cup {"self_loop" : e \in {x \in Edges : x.from = x.to}}
    \cup {"missing_port" : e \in {x \in Edges : x.from # x.to /\ ~Sound(x)}}
    \cup {"port_type_mismatch" : e \in {x \in Edges : Sound(x) /\ ~Compatible(x)}}
    \cup {"input_multiplicity" : n \in {x \in active :
            \E kind \in {"data", "controller"} :
                /\ Cardinality({e \in Inbound(x, kind) : Sound(e)}) > 1
                /\ ~Manifest[x].multiple}}

Unbound(n, kind) == {e \in Inbound(n, kind) : Sound(e)} = {}

\* An id that is listed again, and retries of a step whose effects cannot be repeated.
NodeErrors ==
    {"duplicate_node_id" : n \in Repeated}
    \cup {"unsafe_side_effect_retry" : n \in {x \in active : Manifest[x].retries
            /\ Manifest[x].side_effecting /\ ~Manifest[x].idempotent}}
    \cup {"missing_required_input" : n \in {x \in active :
            "data" \in Manifest[x].required /\ Unbound(x, "data")}}
    \cup {"missing_required_controller" : n \in {x \in active :
            "controller" \in Manifest[x].required /\ Unbound(x, "controller")}}

\* _collect_graph_diagnostics: the connections, in both directions.
BothWays == Pairs(Edges) \cup {<<e.to, e.from>> : e \in Edges}

\* A definition of several components, or a side-effecting node without connections.
GraphErrors ==
    {"disconnected_execution_component" : n \in {x \in active :
            Closure({x}, BothWays) # active}}
    \cup {"disconnected_side_effecting_node" : n \in {x \in active :
            Manifest[x].side_effecting /\ ~\E e \in Edges : x \in {e.from, e.to}}}

-----------------------------------------------------------------------------

Init ==
    /\ nodes \in SUBSET Node /\ Cardinality(Node \ nodes) <= MaxOff
    /\ skipped \in SUBSET nodes /\ Cardinality(skipped) <= MaxOff
    /\ twice \in SUBSET nodes /\ Cardinality(twice) <= MaxOff
    /\ edges \in SUBSET Connection
    /\ active = {} /\ conns = {} /\ phase = "start"
    /\ indegree = [n \in Node |-> 0] /\ queue = <<>> /\ order = <<>>
    /\ chats = {} /\ frontier = <<>> /\ reached = {}
    /\ errors = {} /\ terminal = <<>> /\ plan = <<>>

\* _active_definition: without skipped nodes the definition is used as it is.  Both nodes
\* of an id are kept when only one of them is skipped.
Activate ==
    /\ phase = "start" /\ phase' = "check"
    /\ \E half \in SUBSET (skipped \cap twice) : active' = (nodes \ skipped) \cup half
    /\ conns' = IF skipped = {} THEN edges
                ELSE {e \in edges : e.from \in active' /\ e.to \in active'}
    /\ UNCHANGED <<definition, ordering, walking, errors, terminal, plan>>

\* _collect_diagnostics up to the order, and the start of _topological_order.
Check ==
    /\ phase = "check"
    /\ errors' = ConnectionErrors \cup NodeErrors
    /\ indegree' = [n \in Node |-> Cardinality({e \in Edges : e.to = n})]
    /\ queue' \in Ascending({n \in active : indegree'[n] = 0})
    /\ phase' = "order"
    /\ UNCHANGED <<definition, active, conns, order, walking, terminal, plan>>

\* Mutant: a node is ready when one of its sources is in the order.
ReadyEarly(n, c) == {m \in active : \E e \in Edges : e.from = c /\ e.to = m}
                    \ (RangeOf(queue) \cup RangeOf(order))

\* The nodes that lose their last unordered source with c.
NewlyReady(n, c) == {m \in active : indegree[m] > 0 /\ n[m] = 0}

\* One turn of the loop: every connection of the node counts once.
OrderStep ==
    /\ phase = "order" /\ queue # <<>>
    /\ LET c == Head(queue) IN
         /\ order' = Append(order, c)
         /\ indegree' = [n \in Node |->
                indegree[n] - Cardinality({e \in Edges : e.from = c /\ e.to = n})]
         /\ \E ready \in Ascending(NewlyReady(indegree', c)) : queue' = Tail(queue) \o ready
    /\ UNCHANGED <<definition, active, conns, phase, walking, errors, terminal, plan>>

\* The order has an id once; it is compared with the list of the ids of the nodes.  Then
\* the graph diagnostics.
Ordered ==
    /\ phase = "order" /\ queue = <<>>
    /\ errors' = errors \cup GraphErrors
                 \cup (IF Len(order) # Cardinality(active) + Cardinality(Repeated)
                       THEN {"graph_cycle"} ELSE {})
    /\ chats' = Chats /\ phase' = "chat"
    /\ UNCHANGED <<definition, active, conns, ordering, frontier, reached, terminal, plan>>

\* The next chat node: a search along data connections begins at it.
StartChat ==
    /\ phase = "chat"
    /\ \E c \in chats : chats' = chats \ {c} /\ frontier' = <<c>> /\ reached' = {}
                        /\ terminal' = Append(terminal, [chat |-> c, output |-> 0])
    /\ phase' = "walk"
    /\ UNCHANGED <<definition, active, conns, ordering, errors, plan>>

\* The search follows data connections only.
DataTargets(n) == {e.to : e \in {x \in Edges : x.from = n /\ x.kind = "data"}}

WalkStep ==
    /\ phase = "walk" /\ frontier # <<>>
    /\ LET new == DataTargets(Head(frontier)) \ reached IN
         /\ reached' = reached \cup new
         /\ \E next \in Ascending(new) : frontier' = Tail(frontier) \o next
    /\ UNCHANGED <<definition, active, conns, phase, ordering, chats, errors, terminal, plan>>

\* A chat node must reach exactly one terminal output.
Walked ==
    /\ phase = "walk" /\ frontier = <<>>
    /\ LET found == reached \cap Terminals IN
         IF Cardinality(found) = 1
         THEN /\ terminal' = [terminal EXCEPT ![Len(terminal)].output =
                                  CHOOSE n \in found : TRUE]
              /\ UNCHANGED errors
         ELSE /\ errors' = errors \cup {"chat_terminal_output_count"}
              /\ UNCHANGED terminal
    /\ phase' = "chat"
    /\ UNCHANGED <<definition, active, conns, ordering, walking, plan>>

\* Warnings do not keep a definition from being compiled.
Decide ==
    /\ phase = "chat" /\ chats = {}
    /\ phase' = IF errors # {} THEN "invalid" ELSE "plan"
    /\ UNCHANGED <<definition, active, conns, ordering, walking, errors, terminal, plan>>

\* The next step of the plan: a binding for every connection into its node.
BindStep ==
    /\ phase = "plan" /\ Len(plan) < Len(order)
    /\ LET n == order[Len(plan) + 1] IN
         plan' = Append(plan, [node |-> n,
                               bindings |-> {[kind |-> e.kind, source |-> e.from] :
                                                e \in {x \in conns : x.to = n}}])
    /\ UNCHANGED <<definition, active, conns, phase, ordering, walking, errors, terminal>>

Compiled ==
    /\ phase = "plan" /\ Len(plan) = Len(order)
    /\ phase' = "compiled"
    /\ UNCHANGED <<definition, active, conns, ordering, walking, errors, terminal, plan>>

Done == phase \in {"compiled", "invalid"} /\ UNCHANGED vars

Next == Activate \/ Check \/ OrderStep \/ Ordered \/ StartChat \/ WalkStep \/ Walked \/ Decide
        \/ BindStep \/ Compiled \/ Done

Spec == Init /\ [][Next]_vars

-----------------------------------------------------------------------------
(* Properties *)

\* Every variable has its type, and nothing is ordered or bound twice.
TypeOK ==
    /\ nodes \subseteq Node /\ edges \subseteq Connection
    /\ skipped \subseteq nodes /\ twice \subseteq nodes
    /\ active \subseteq nodes /\ conns \subseteq edges
    /\ phase \in {"start", "check", "order", "chat", "walk", "plan", "compiled", "invalid"}
    /\ queue \in Seq(active) /\ order \in Seq(active)
    /\ reached \subseteq active
    /\ \A i, j \in DOMAIN order : i # j => order[i] # order[j]

\* _topological_order: a node comes after every node it is connected from, whatever
\* the connections.
OrderRespectsConnections ==
    \A i \in DOMAIN order, e \in Edges :
        e.to = order[i] => \E j \in 1..(i - 1) : order[j] = e.from

\* _topological_order finds every cycle: "Workflow graph contains a cycle" is reported
\* exactly when some active node can be reached from itself, or else the id of an active
\* node is listed twice: then the report is wrong, there need be no cycle.
HasCycle == \E e \in Edges : e.from \in Closure({e.to}, Pairs(Edges))

CycleExactly ==
    phase \in {"compiled", "invalid"} =>
        ("graph_cycle" \in errors <=> HasCycle \/ Repeated # {})

\* A plan runs every active node once and no other, and each of its steps reads only
\* from steps before it, never from a skipped node.
PlanIsClosed ==
    /\ \A i \in DOMAIN plan : \A b \in plan[i].bindings :
            \E j \in 1..(i - 1) : plan[j].node = b.source
    /\ phase = "compiled" => {plan[i].node : i \in DOMAIN plan} = active

\* A step of a plan has its required input and controller, from nodes that declare
\* the port, and at most one where the port takes one.
PortsAreBound ==
    \A i \in DOMAIN plan :
        LET n == plan[i].node
            Of(kind) == {b \in plan[i].bindings : b.kind = kind} IN
        \A kind \in {"data", "controller"} :
            /\ kind \in Manifest[n].required => Of(kind) # {}
            /\ ~Manifest[n].multiple => Cardinality(Of(kind)) <= 1
            /\ \A b \in Of(kind) : Gives(b.source, kind) # "none"

\* In a plan every chat node has one terminal output that data from it reaches, and
\* the output runs after it.
ChatHasItsAnswer ==
    phase = "compiled" => \A c \in Chats :
        LET outs == Closure({c}, Pairs({e \in Edges : e.kind = "data"})) \cap Terminals IN
        \E k \in DOMAIN terminal :
            /\ terminal[k].chat = c /\ outs = {terminal[k].output}
            /\ \E i, j \in DOMAIN order :
                 i < j /\ order[i] = c /\ order[j] = terminal[k].output

\* A plan is one component: cutting its steps in two cuts a binding.
PlanIsConnected ==
    phase = "compiled" => \A S \in SUBSET active :
        S # {} /\ S # active => \E e \in Edges : (e.from \in S) # (e.to \in S)

PlanIsSound == CycleExactly /\ PlanIsClosed /\ PortsAreBound /\ ChatHasItsAnswer /\ PlanIsConnected
=============================================================================
