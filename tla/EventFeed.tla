------------------------------ MODULE EventFeed ------------------------------
(***************************************************************************)
(* What the event stream of a run promises to its clients: a client that   *)
(* stays connected handles every event of the run exactly once, in         *)
(* sequence order, from the first one; its connection may be closed        *)
(* instead, but never skips an event.                                      *)
(***************************************************************************)
EXTENDS Naturals

CONSTANT Conn     \* the connections

VARIABLES
    last,         \* the sequence number of the last committed event
    seen,         \* the sequence number of the last event each client handled
    link          \* the state of each connection: "new", "open" or "closed"

vars == <<last, seen, link>>

Init ==
    /\ last = 0
    /\ seen = [c \in Conn |-> 0]
    /\ link = [c \in Conn |-> "new"]

Publish == last' = last + 1 /\ UNCHANGED <<seen, link>>

Open(c) ==
    /\ link[c] = "new"
    /\ link' = [link EXCEPT ![c] = "open"]
    /\ UNCHANGED <<last, seen>>

Handle(c) ==
    /\ link[c] = "open" /\ seen[c] < last
    /\ seen' = [seen EXCEPT ![c] = @ + 1]
    /\ UNCHANGED <<last, link>>

Close(c) ==
    /\ link[c] = "open"
    /\ link' = [link EXCEPT ![c] = "closed"]
    /\ UNCHANGED <<last, seen>>

Next == Publish \/ \E c \in Conn : Open(c) \/ Handle(c) \/ Close(c)

Spec == Init /\ [][Next]_vars

FairSpec == Spec /\ \A c \in Conn : WF_vars(Handle(c))
=============================================================================
