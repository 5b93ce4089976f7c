----------------------------- MODULE EventStream -----------------------------
(***************************************************************************)
(* The event stream of one run: EventService.publish appends an event to   *)
(* the durable history and puts it on the bounded queue of every live      *)
(* subscriber; a WebSocket connection subscribes, replays the history page *)
(* by page, drains its queue and then follows it; the client drops what it *)
(* has already handled.                                                    *)
(*                                                                         *)
(* An event is its sequence number.  Because the numbers are allocated     *)
(* under a lock (AllocationIsSerial), the history of the run is 1..last.   *)
(***************************************************************************)
EXTENDS Naturals, Sequences, FiniteSets

CONSTANTS
    Publisher,    \* threads that publish events of the run
    Conn,         \* WebSocket connections; a reconnection is another one
    QueueSize,    \* DEFAULT_SUBSCRIBER_QUEUE_SIZE
    PageSize,     \* EVENT_REPLAY_PAGE_SIZE
    MaxEvents,    \* bound: events published
    NoPublisher   \* the publish lock is free

ASSUME StreamAssumption ==
    /\ QueueSize \in Nat \ {0} /\ PageSize \in Nat \ {0} /\ MaxEvents \in Nat
    /\ NoPublisher \notin Publisher

VARIABLES
    last,         \* durable: the highest sequence number in the history
    lock,         \* the holder of _publish_lock
    ppc,          \* where every publisher is
    num,          \* the sequence number a publisher holds
    targets,      \* the subscribers a publisher still has to serve
    subscribers,  \* the registered queues, by connection
    queue,        \* the live queue of every connection
    overflowed,   \* the queues that overflowed
    wpc,          \* where every connection is
    after,        \* replay_after_sequence
    cursor,       \* the last event of the page that was sent
    high,         \* replay_high_water_mark
    seen          \* the client's lastEventSequence

publishing == <<lock, ppc, num, targets>>
replaying  == <<after, cursor, high>>
vars       == <<last, publishing, subscribers, queue, overflowed, wpc, replaying, seen>>

PublisherLabel == {"idle", "read", "insert", "snapshot", "serve"}
ConnLabel      == {"new", "page", "send", "drain", "live", "get", "closed"}

Init ==
    /\ last = 0 /\ lock = NoPublisher
    /\ ppc = [p \in Publisher |-> "idle"] /\ num = [p \in Publisher |-> 0]
    /\ targets = [p \in Publisher |-> {}]
    /\ subscribers = {} /\ queue = [c \in Conn |-> <<>>] /\ overflowed = {}
    /\ wpc = [c \in Conn |-> "new"]
    /\ after = [c \in Conn |-> 0] /\ cursor = [c \in Conn |-> 0] /\ high = [c \in Conn |-> 0]
    /\ seen = [c \in Conn |-> 0]

-----------------------------------------------------------------------------
(* EventService.publish *)

\* Mutant: publications are not serialized.
AcquireUnlocked(p) ==
    /\ ppc[p] = "idle" /\ last < MaxEvents
    /\ ppc' = [ppc EXCEPT ![p] = "read"]
    /\ UNCHANGED <<last, lock, num, targets, subscribers, queue, overflowed, wpc, replaying, seen>>

Acquire(p) ==
    /\ ppc[p] = "idle" /\ last < MaxEvents
    /\ lock = NoPublisher
    /\ lock' = p
    /\ ppc' = [ppc EXCEPT ![p] = "read"]
    /\ UNCHANGED <<last, num, targets, subscribers, queue, overflowed, wpc, replaying, seen>>

\* append_event: max(sequence) + 1 is read before the write begins ...
ReadMax(p) ==
    /\ ppc[p] = "read"
    /\ num' = [num EXCEPT ![p] = last + 1]
    /\ ppc' = [ppc EXCEPT ![p] = "insert"]
    /\ UNCHANGED <<last, lock, targets, subscribers, queue, overflowed, wpc, replaying, seen>>

\* ... and inserted; the unique constraint rejects a number that is taken, and
\* the publication raises.
Insert(p) ==
    /\ ppc[p] = "insert"
    /\ IF num[p] > last
       THEN /\ last' = num[p]
            /\ ppc' = [ppc EXCEPT ![p] = "snapshot"]
            /\ UNCHANGED lock
       ELSE /\ ppc' = [ppc EXCEPT ![p] = "idle"]
            /\ lock' = NoPublisher
            /\ UNCHANGED last
    /\ UNCHANGED <<num, targets, subscribers, queue, overflowed, wpc, replaying, seen>>

SnapshotSubscribers(p) ==
    /\ ppc[p] = "snapshot"
    /\ targets' = [targets EXCEPT ![p] = subscribers]
    /\ ppc' = [ppc EXCEPT ![p] = "serve"]
    /\ UNCHANGED <<last, lock, num, subscribers, queue, overflowed, wpc, replaying, seen>>

\* Mutant: the queue has no bound.
ServeUnbounded(p, c) ==
    /\ ppc[p] = "serve" /\ c \in targets[p]
    /\ targets' = [targets EXCEPT ![p] = @ \ {c}]
    /\ queue' = [queue EXCEPT ![c] = Append(@, num[p])]
    /\ UNCHANGED <<last, lock, ppc, num, subscribers, overflowed, wpc, replaying, seen>>

\* Mutant: an event that does not fit is dropped, without marking the queue.
ServeDropping(p, c) ==
    /\ ppc[p] = "serve" /\ c \in targets[p]
    /\ targets' = [targets EXCEPT ![p] = @ \ {c}]
    /\ queue' = IF Len(queue[c]) < QueueSize
                THEN [queue EXCEPT ![c] = Append(@, num[p])] ELSE queue
    /\ UNCHANGED <<last, lock, ppc, num, subscribers, overflowed, wpc, replaying, seen>>

\* EventSubscriberQueue.publish; a full queue is marked and unsubscribed.
Serve(p, c) ==
    /\ ppc[p] = "serve" /\ c \in targets[p]
    /\ targets' = [targets EXCEPT ![p] = @ \ {c}]
    /\ IF Len(queue[c]) < QueueSize
       THEN /\ queue' = [queue EXCEPT ![c] = Append(@, num[p])]
            /\ UNCHANGED <<overflowed, subscribers>>
       ELSE /\ overflowed' = overflowed \cup {c}
            /\ subscribers' = subscribers \ {c}
            /\ UNCHANGED queue
    /\ UNCHANGED <<last, lock, ppc, num, wpc, replaying, seen>>

Release(p) ==
    /\ ppc[p] = "serve" /\ targets[p] = {}
    /\ lock' = NoPublisher
    /\ ppc' = [ppc EXCEPT ![p] = "idle"]
    /\ UNCHANGED <<last, num, targets, subscribers, queue, overflowed, wpc, replaying, seen>>

Publish(p) ==
    \/ ReadMax(p) \/ Insert(p) \/ SnapshotSubscribers(p)
    \/ (\E c \in Conn : Serve(p, c)) \/ Release(p)

-----------------------------------------------------------------------------
(* execution_run_events, with replay, and the client's onEvent *)

\* The event is sent and handled by the client unless it is a repetition.
Send(c, e) == seen' = [seen EXCEPT ![c] = IF e <= @ THEN @ ELSE e]

\* Leaving the handler, for whatever reason, unsubscribes the queue.
Leave(c) ==
    /\ wpc' = [wpc EXCEPT ![c] = "closed"]
    /\ subscribers' = subscribers \ {c}

Subscribe(c) ==
    /\ wpc[c] = "new"
    /\ subscribers' = subscribers \cup {c}
    /\ wpc' = [wpc EXCEPT ![c] = "page"]
    /\ UNCHANGED <<last, publishing, queue, overflowed, replaying, seen>>

ReadPage(c) ==
    /\ wpc[c] = "page"
    /\ IF last = after[c]
       THEN wpc' = [wpc EXCEPT ![c] = "drain"] /\ UNCHANGED <<cursor, high>>
       ELSE /\ high' = [high EXCEPT ![c] = IF last < after[c] + PageSize
                                           THEN last ELSE after[c] + PageSize]
            /\ cursor' = [cursor EXCEPT ![c] = after[c]]
            /\ wpc' = [wpc EXCEPT ![c] = "send"]
    /\ UNCHANGED <<last, publishing, subscribers, queue, overflowed, after, seen>>

\* Events of the page are sent one by one; a short page is the last one.
SendReplayed(c) ==
    /\ wpc[c] = "send" /\ cursor[c] < high[c]
    /\ IF c \in overflowed
       THEN Leave(c) /\ UNCHANGED <<cursor, seen>>
       ELSE /\ Send(c, cursor[c] + 1)
            /\ cursor' = [cursor EXCEPT ![c] = @ + 1]
            /\ UNCHANGED <<wpc, subscribers>>
    /\ UNCHANGED <<last, publishing, queue, overflowed, after, high>>

EndPage(c) ==
    /\ wpc[c] = "send" /\ cursor[c] = high[c]
    /\ IF high[c] - after[c] < PageSize
       THEN wpc' = [wpc EXCEPT ![c] = "drain"] /\ UNCHANGED after
       ELSE /\ wpc' = [wpc EXCEPT ![c] = "page"]
            /\ after' = [after EXCEPT ![c] = high[c]]
    /\ UNCHANGED <<last, publishing, subscribers, queue, overflowed, cursor, high, seen>>

Drain(c) ==
    /\ wpc[c] = "drain"
    /\ IF c \in overflowed THEN Leave(c) /\ UNCHANGED <<queue, seen>>
       ELSE /\ UNCHANGED subscribers
            /\ IF queue[c] = <<>>
               THEN wpc' = [wpc EXCEPT ![c] = "live"] /\ UNCHANGED <<queue, seen>>
               ELSE /\ queue' = [queue EXCEPT ![c] = Tail(@)]
                    /\ IF Head(queue[c]) <= high[c] THEN UNCHANGED seen
                                                   ELSE Send(c, Head(queue[c]))
                    /\ UNCHANGED wpc
    /\ UNCHANGED <<last, publishing, overflowed, replaying>>

\* Mutant: the live loop does not look at the overflow flag.
LiveUnchecked(c) ==
    /\ wpc[c] = "live"
    /\ wpc' = [wpc EXCEPT ![c] = "get"]
    /\ UNCHANGED <<last, publishing, subscribers, queue, overflowed, replaying, seen>>

\* The live loop: the overflow flag is read first, then the queue.
LiveCheck(c) ==
    /\ wpc[c] = "live"
    /\ IF c \in overflowed THEN Leave(c)
       ELSE wpc' = [wpc EXCEPT ![c] = "get"] /\ UNCHANGED subscribers
    /\ UNCHANGED <<last, publishing, queue, overflowed, replaying, seen>>

LiveGet(c) ==
    /\ wpc[c] = "get"
    /\ wpc' = [wpc EXCEPT ![c] = "live"]
    /\ IF queue[c] = <<>> THEN UNCHANGED <<queue, seen>>
       ELSE /\ queue' = [queue EXCEPT ![c] = Tail(@)]
            /\ Send(c, Head(queue[c]))
    /\ UNCHANGED <<last, publishing, subscribers, overflowed, replaying>>

Disconnect(c) ==
    /\ wpc[c] \notin {"new", "closed"}
    /\ Leave(c)
    /\ UNCHANGED <<last, publishing, queue, overflowed, replaying, seen>>

Stream(c) ==
    \/ ReadPage(c) \/ SendReplayed(c) \/ EndPage(c)
    \/ Drain(c) \/ LiveCheck(c) \/ LiveGet(c)

-----------------------------------------------------------------------------

Next ==
    \/ \E p \in Publisher : Acquire(p) \/ Publish(p)
    \/ \E c \in Conn : Subscribe(c) \/ Stream(c) \/ Disconnect(c)

Spec == Init /\ [][Next]_vars

\* A publication that began is finished and the handlers of the open connections
\* run; no client is obliged to connect.
FairSpec ==
    /\ Spec
    /\ \A p \in Publisher : WF_vars(Publish(p))
    /\ \A c \in Conn : WF_vars(Stream(c))

-----------------------------------------------------------------------------
(* Properties *)

\* Every variable has its type; a queue never exceeds its bound.
TypeOK ==
    /\ last \in Nat /\ lock \in Publisher \cup {NoPublisher}
    /\ ppc \in [Publisher -> PublisherLabel] /\ num \in [Publisher -> Nat]
    /\ targets \in [Publisher -> SUBSET Conn]
    /\ subscribers \subseteq Conn /\ queue \in [Conn -> Seq(Nat)] /\ overflowed \subseteq Conn
    /\ wpc \in [Conn -> ConnLabel]
    /\ after \in [Conn -> Nat] /\ cursor \in [Conn -> Nat] /\ high \in [Conn -> Nat]
    /\ seen \in [Conn -> Nat]
    /\ \A c \in Conn : Len(queue[c]) <= QueueSize

\* The sequence number a publisher read is still free when it inserts it, so
\* no publication is rejected by the unique constraint.
AllocationIsSerial == \A p \in Publisher : ppc[p] = "insert" => num[p] = last + 1

\* The client handles the events of the run in order, without a gap, whatever
\* is replayed, drained, followed live, repeated or lost to an overflow.
NoGap == [][\A c \in Conn : seen'[c] \in {seen[c], seen[c] + 1}]_vars

\* The stream implements EventFeed.
Feed == INSTANCE EventFeed WITH
            link <- [c \in Conn |-> IF wpc[c] \in {"new", "closed"} THEN wpc[c] ELSE "open"]
ImplementsFeed == Feed!FairSpec
=============================================================================
