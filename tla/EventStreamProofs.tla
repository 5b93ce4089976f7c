------------------------- MODULE EventStreamProofs -------------------------
(***************************************************************************)
(* Proofs about EventStream, for any number of publishers and connections  *)
(* and any size of the queues and pages: sequence numbers are allocated    *)
(* serially, the client sees no gap, and every step of the stream is a     *)
(* step of EventFeed or a stutter.                                         *)
(*                                                                         *)
(* The argument follows the next event that a queue will hold.  A queue    *)
(* holds consecutive events that end with the last one handed to it, and   *)
(* it joins the replay: its first event, or the next one it will get, is   *)
(* not beyond the successor of what the client has handled.                *)
(***************************************************************************)
EXTENDS EventStream, Integers, TLAPS

IsOpen(c) == wpc[c] \notin {"new", "closed"}

\* The last event is committed and still to be put on the queue of c.
Pending(c) ==
    \E p \in Publisher : \/ ppc[p] = "snapshot" /\ c \in subscribers
                         \/ ppc[p] = "serve" /\ c \in targets[p]

\* The last event that was put on the queue of c, if c is served at all.
Handed(c) == IF Pending(c) THEN last - 1 ELSE last

\* Only the holder of _publish_lock is inside publish().
Locked == \A p \in Publisher : ppc[p] # "idle" => lock = p

Numbered ==
    \A p \in Publisher :
        /\ ppc[p] = "insert" => num[p] = last + 1
        /\ ppc[p] \in {"snapshot", "serve"} => num[p] = last

\* Where the replay of a connection is.
Replay ==
    \A c \in Conn :
        /\ after[c] <= seen[c] /\ after[c] <= last /\ high[c] <= last /\ seen[c] <= last
        /\ wpc[c] = "send" => cursor[c] <= seen[c] /\ cursor[c] <= high[c]
        /\ wpc[c] \notin {"send", "closed"} => high[c] <= seen[c]

\* A connection that was not opened has no queue.
Fresh ==
    \A c \in Conn : wpc[c] = "new" =>
        /\ queue[c] = <<>> /\ c \notin overflowed /\ c \notin subscribers
        /\ \A p \in Publisher : ppc[p] = "serve" => c \notin targets[p]

\* An overflowed queue is not served any more.
Unserved ==
    \A c \in overflowed :
        /\ c \notin subscribers
        /\ \A p \in Publisher : ppc[p] = "serve" => c \notin targets[p]

\* The queue of an open connection holds consecutive events of the history, and
\* unless it overflowed it ends with the last event handed to it.
Consecutive ==
    \A c \in Conn : IsOpen(c) =>
        /\ \A i \in 1..Len(queue[c]) : queue[c][i] <= last
        /\ \A i \in 1..(Len(queue[c]) - 1) : queue[c][i + 1] = queue[c][i] + 1
        /\ c \notin overflowed =>
              /\ c \in subscribers
              /\ queue[c] # <<>> => queue[c][Len(queue[c])] = Handed(c)

\* No event is missing between b and the queue of c.
JoinsAt(c, b) ==
    /\ queue[c] # <<>> => queue[c][1] <= b + 1
    /\ queue[c] = <<>> /\ c \notin overflowed => Handed(c) <= b

\* The queue joins the last page of the replay, and then what the client has
\* handled.
Joined ==
    \A c \in Conn :
        /\ wpc[c] = "send" /\ high[c] - after[c] < PageSize => JoinsAt(c, high[c])
        /\ wpc[c] \in {"drain", "live", "get"} => JoinsAt(c, seen[c])

\* The inductive invariant.
IInv == TypeOK /\ Locked /\ Numbered /\ Replay /\ Fresh /\ Unserved /\ Consecutive /\ Joined

-----------------------------------------------------------------------------

LEMMA InitIInv == Init => IInv
<1> SUFFICES ASSUME Init PROVE IInv
    OBVIOUS
<1> USE StreamAssumption DEF Init
<1>1. TypeOK
  <2>1. /\ ppc \in [Publisher -> PublisherLabel] /\ num \in [Publisher -> Nat]
        /\ targets \in [Publisher -> SUBSET Conn]
      BY DEF PublisherLabel
  <2>2. queue \in [Conn -> Seq(Nat)] /\ wpc \in [Conn -> ConnLabel]
      BY DEF ConnLabel
  <2>3. /\ after \in [Conn -> Nat] /\ cursor \in [Conn -> Nat] /\ high \in [Conn -> Nat]
        /\ seen \in [Conn -> Nat]
      OBVIOUS
  <2>4. \A c \in Conn : Len(queue[c]) <= QueueSize
      OBVIOUS
  <2>5. /\ last \in Nat /\ lock \in Publisher \cup {NoPublisher}
        /\ subscribers \subseteq Conn /\ overflowed \subseteq Conn
      OBVIOUS
  <2> HIDE DEF Init
  <2> QED BY <2>1, <2>2, <2>3, <2>4, <2>5 DEF TypeOK
<1>2. Locked /\ Numbered
    BY DEF Locked, Numbered
<1>3. Replay
    BY DEF Replay
<1>4. Fresh /\ Unserved
    BY DEF Fresh, Unserved
<1>5. Consecutive /\ Joined
    BY DEF Consecutive, Joined, IsOpen
<1> QED BY <1>1, <1>2, <1>3, <1>4, <1>5 DEF IInv

-----------------------------------------------------------------------------
(* Publication *)

LEMMA AcquireStep == ASSUME NEW p \in Publisher, IInv, Acquire(p) PROVE IInv'
<1> USE DEF IInv, Acquire, replaying
<1>1. \A q \in Publisher : ppc[q] = "idle"
    BY StreamAssumption DEF Locked
<1>2. \A c \in Conn : Handed(c)' = Handed(c)
    BY <1>1 DEF Handed, Pending, TypeOK
<1>3. TypeOK'
    BY DEF TypeOK, PublisherLabel
<1>4. Locked' /\ Numbered'
    BY <1>1 DEF Locked, Numbered, TypeOK
<1>5. Replay' /\ Fresh' /\ Unserved'
    BY <1>1 DEF Replay, Fresh, Unserved, TypeOK
<1>6. Consecutive' /\ Joined'
    BY <1>2 DEF Consecutive, Joined, JoinsAt, IsOpen
<1> QED BY <1>3, <1>4, <1>5, <1>6

LEMMA ReadMaxStep == ASSUME NEW p \in Publisher, IInv, ReadMax(p) PROVE IInv'
<1> USE DEF IInv, ReadMax, replaying
<1>1. \A q \in Publisher : q # p => ppc[q] = "idle"
    BY DEF Locked
<1>2. \A c \in Conn : Handed(c)' = Handed(c)
    BY <1>1 DEF Handed, Pending, TypeOK
<1>3. TypeOK'
    BY DEF TypeOK, PublisherLabel
<1>4. Locked' /\ Numbered'
    BY <1>1 DEF Locked, Numbered, TypeOK
<1>5. Replay' /\ Fresh' /\ Unserved'
    BY <1>1 DEF Replay, Fresh, Unserved, TypeOK
<1>6. Consecutive' /\ Joined'
    BY <1>2 DEF Consecutive, Joined, JoinsAt, IsOpen
<1> QED BY <1>3, <1>4, <1>5, <1>6

\* The number is free, so that the insertion succeeds and makes the event
\* pending for every subscriber.
LEMMA InsertStep == ASSUME NEW p \in Publisher, IInv, Insert(p) PROVE IInv'
<1> USE DEF IInv, Insert, replaying
<1>1. \A q \in Publisher : q # p => ppc[q] = "idle"
    BY DEF Locked
<1>2. /\ last' = last + 1 /\ num[p] = last + 1
      /\ ppc' = [ppc EXCEPT ![p] = "snapshot"] /\ UNCHANGED lock
    BY DEF Numbered, TypeOK
<1>3. \A c \in Conn : Handed(c) = last
    BY <1>1 DEF Handed, Pending
<1>4. \A c \in Conn : c \in subscribers => Handed(c)' = last
    BY <1>2 DEF Handed, Pending, TypeOK
<1>5. TypeOK'
    BY <1>2 DEF TypeOK, PublisherLabel
<1>6. Locked' /\ Numbered'
    BY <1>1, <1>2 DEF Locked, Numbered, TypeOK
<1>7. Replay' /\ Fresh' /\ Unserved'
  <2>1. Replay'
      BY <1>2 DEF Replay, TypeOK
  <2>2. Fresh' /\ Unserved'
      BY <1>1, <1>2 DEF Fresh, Unserved, TypeOK
  <2> QED BY <2>1, <2>2
<1>8. Consecutive'
  <2> SUFFICES ASSUME NEW c \in Conn, IsOpen(c)
               PROVE  /\ \A i \in 1..Len(queue[c]) : queue[c][i] <= last'
                      /\ \A i \in 1..(Len(queue[c]) - 1) : queue[c][i + 1] = queue[c][i] + 1
                      /\ c \notin overflowed =>
                            /\ c \in subscribers
                            /\ queue[c] # <<>> => queue[c][Len(queue[c])] = Handed(c)'
      BY DEF Consecutive, IsOpen
  <2>1. \A i \in 1..Len(queue[c]) : queue[c][i] \in Nat
      BY DEF TypeOK
  <2> QED BY <1>2, <1>3, <1>4, <2>1 DEF Consecutive, TypeOK
<1>9. Joined'
    BY <1>3, <1>4 DEF Joined, JoinsAt, Consecutive, IsOpen
<1> QED BY <1>5, <1>6, <1>7, <1>8, <1>9

LEMMA SnapshotStep == ASSUME NEW p \in Publisher, IInv, SnapshotSubscribers(p) PROVE IInv'
<1> USE DEF IInv, SnapshotSubscribers, replaying
<1>1. \A q \in Publisher : q # p => ppc[q] = "idle"
    BY DEF Locked
<1>2. \A c \in Conn : Handed(c)' = Handed(c)
    BY <1>1 DEF Handed, Pending, TypeOK
<1>3. TypeOK'
    BY DEF TypeOK, PublisherLabel
<1>4. Locked' /\ Numbered'
    BY <1>1 DEF Locked, Numbered, TypeOK
<1>5. Replay' /\ Fresh' /\ Unserved'
    BY <1>1 DEF Replay, Fresh, Unserved, TypeOK
<1>6. Consecutive' /\ Joined'
    BY <1>2 DEF Consecutive, Joined, JoinsAt, IsOpen
<1> QED BY <1>3, <1>4, <1>5, <1>6

LEMMA ReleaseStep == ASSUME NEW p \in Publisher, IInv, Release(p) PROVE IInv'
<1> USE DEF IInv, Release, replaying
<1>1. \A q \in Publisher : q # p => ppc[q] = "idle"
    BY DEF Locked
<1>2. \A c \in Conn : Handed(c)' = Handed(c)
    BY <1>1 DEF Handed, Pending, TypeOK
<1>3. TypeOK'
    BY DEF TypeOK, PublisherLabel
<1>4. Locked' /\ Numbered'
    BY <1>1 DEF Locked, Numbered, TypeOK
<1>5. Replay' /\ Fresh' /\ Unserved'
    BY <1>1 DEF Replay, Fresh, Unserved, TypeOK
<1>6. Consecutive' /\ Joined'
    BY <1>2 DEF Consecutive, Joined, JoinsAt, IsOpen
<1> QED BY <1>3, <1>4, <1>5, <1>6

\* One subscriber is served: its queue grows by the pending event, or overflows.
LEMMA ServeStep ==
    ASSUME NEW p \in Publisher, NEW d \in Conn, IInv, Serve(p, d) PROVE IInv'
<1> USE DEF IInv, replaying
<1>1. \A q \in Publisher : q # p => ppc[q] = "idle"
    BY DEF Locked, Serve
<1>2. /\ ppc[p] = "serve" /\ d \in targets[p] /\ num[p] = last
      /\ UNCHANGED <<last, lock, ppc, num, wpc, after, cursor, high, seen>>
      /\ targets' = [targets EXCEPT ![p] = @ \ {d}]
    BY DEF Serve, Numbered
<1>3. Handed(d) = last - 1 /\ Handed(d)' = last
    BY <1>1, <1>2 DEF Handed, Pending, TypeOK
<1>4. \A c \in Conn \ {d} : Handed(c)' = Handed(c) /\ queue'[c] = queue[c]
  <2>1. \A c \in Conn \ {d} : c \in subscribers' <=> c \in subscribers
      BY DEF Serve
  <2>2. \A c \in Conn \ {d} : queue'[c] = queue[c]
      BY DEF Serve, TypeOK
  <2> QED BY <1>1, <1>2, <2>1, <2>2 DEF Handed, Pending, TypeOK
<1>5. \/ /\ Len(queue[d]) < QueueSize
         /\ queue' = [queue EXCEPT ![d] = Append(@, last)]
         /\ UNCHANGED <<overflowed, subscribers>>
      \/ /\ queue[d] # <<>>
         /\ overflowed' = overflowed \cup {d} /\ subscribers' = subscribers \ {d}
         /\ UNCHANGED queue
  <2>1. CASE Len(queue[d]) < QueueSize
      BY <1>2, <2>1 DEF Serve
  <2>2. CASE ~(Len(queue[d]) < QueueSize)
    <3>1. queue[d] # <<>>
        BY <2>2, StreamAssumption
    <3> QED BY <2>2, <3>1 DEF Serve
  <2> QED BY <2>1, <2>2
<1>6. TypeOK'
  <2>1. /\ targets' \in [Publisher -> SUBSET Conn] /\ subscribers' \subseteq Conn
        /\ overflowed' \subseteq Conn
      BY <1>2, <1>5 DEF TypeOK
  <2>2. queue' \in [Conn -> Seq(Nat)] /\ \A c \in Conn : Len(queue'[c]) <= QueueSize
    <3>1. CASE UNCHANGED queue
        BY <3>1 DEF TypeOK
    <3>2. CASE Len(queue[d]) < QueueSize /\ queue' = [queue EXCEPT ![d] = Append(@, last)]
      <4>1. Append(queue[d], last) \in Seq(Nat) /\ Len(Append(queue[d], last)) <= QueueSize
          BY <3>2, StreamAssumption DEF TypeOK
      <4> QED BY <3>2, <4>1 DEF TypeOK
    <3> QED BY <1>5, <3>1, <3>2
  <2> QED BY <1>2, <2>1, <2>2 DEF TypeOK
<1>7. Locked' /\ Numbered'
    BY <1>2 DEF Locked, Numbered
<1>8. Replay'
    BY <1>2 DEF Replay
<1>9. Fresh'
  <2> SUFFICES ASSUME NEW c \in Conn, wpc[c] = "new"
               PROVE  /\ queue'[c] = <<>> /\ c \notin overflowed' /\ c \notin subscribers'
                      /\ \A q \in Publisher : ppc[q] = "serve" => c \notin targets'[q]
      BY <1>2 DEF Fresh
  <2>1. c # d
      BY <1>2 DEF Fresh
  <2> QED BY <1>2, <1>4, <1>5, <2>1 DEF Fresh, TypeOK
<1>10. Consecutive'
  <2> SUFFICES ASSUME NEW c \in Conn, IsOpen(c)
               PROVE  /\ \A i \in 1..Len(queue'[c]) : queue'[c][i] <= last
                      /\ \A i \in 1..(Len(queue'[c]) - 1) : queue'[c][i + 1] = queue'[c][i] + 1
                      /\ c \notin overflowed' =>
                            /\ c \in subscribers'
                            /\ queue'[c] # <<>> => queue'[c][Len(queue'[c])] = Handed(c)'
      BY <1>2 DEF Consecutive, IsOpen
  <2>1. CASE c # d
      BY <1>4, <1>5, <2>1 DEF Consecutive
  <2>2. CASE c = d /\ UNCHANGED queue /\ overflowed' = overflowed \cup {d}
      BY <2>2 DEF Consecutive
  <2>3. CASE /\ c = d /\ queue' = [queue EXCEPT ![d] = Append(@, last)]
             /\ UNCHANGED <<overflowed, subscribers>>
    <3> DEFINE q == queue[d]
    <3>1. /\ q \in Seq(Nat) /\ queue'[c] = Append(q, last) /\ last \in Nat
          /\ Len(queue'[c]) = Len(q) + 1 /\ queue'[c][Len(q) + 1] = last
          /\ \A i \in 1..Len(q) : queue'[c][i] = q[i]
        BY <2>3 DEF TypeOK
    <3>2. c \notin overflowed /\ q # <<>> => q[Len(q)] = last - 1
        BY <1>3, <2>3 DEF Consecutive
    <3>3. c \notin overflowed
        BY <1>2, <2>3 DEF Unserved
    <3> QED BY <1>3, <2>3, <3>1, <3>2, <3>3 DEF Consecutive
  <2> QED BY <1>5, <2>1, <2>2, <2>3
<1>11. Unserved'
    BY <1>1, <1>2, <1>5 DEF Unserved, TypeOK
<1>12. Joined'
  <2>1. ASSUME NEW c \in Conn, NEW b \in Nat, JoinsAt(c, b), IsOpen(c)
        PROVE  JoinsAt(c, b)'
    <3>1. CASE c # d
        BY <1>4, <1>5, <2>1, <3>1 DEF JoinsAt
    <3>2. CASE c = d /\ UNCHANGED queue /\ queue[d] # <<>>
        BY <2>1, <3>2 DEF JoinsAt
    <3>3. CASE c = d /\ queue' = [queue EXCEPT ![d] = Append(@, last)]
      <4>1. d \notin overflowed
          BY <1>2 DEF Unserved
      <4>2. /\ queue[d] \in Seq(Nat) /\ last \in Nat /\ queue'[d] = Append(queue[d], last)
            /\ queue'[d] # <<>>
            /\ queue[d] = <<>> => queue'[d][1] = last
            /\ queue[d] # <<>> => queue'[d][1] = queue[d][1]
          BY <3>3 DEF TypeOK
      <4> QED BY <1>3, <2>1, <3>3, <4>1, <4>2 DEF JoinsAt
    <3> QED BY <1>5, <3>1, <3>2, <3>3
  <2>2. \A c \in Conn : high[c] \in Nat /\ seen[c] \in Nat
      BY DEF TypeOK
  <2> QED BY <1>2, <2>1, <2>2 DEF Joined, JoinsAt, IsOpen
<1> QED BY <1>6, <1>7, <1>8, <1>9, <1>10, <1>11, <1>12

-----------------------------------------------------------------------------
(* Connections *)

LEMMA SubscribeStep == ASSUME NEW c \in Conn, IInv, Subscribe(c) PROVE IInv'
<1> USE DEF IInv, Subscribe, publishing, replaying
<1>1. queue[c] = <<>> /\ c \notin overflowed /\ wpc' = [wpc EXCEPT ![c] = "page"]
    BY DEF Fresh
<1>2. \A d \in Conn \ {c} : Handed(d)' = Handed(d) /\ wpc'[d] = wpc[d]
  <2>1. \A d \in Conn \ {c} : d \in subscribers' <=> d \in subscribers
      OBVIOUS
  <2> QED BY <2>1 DEF Handed, Pending, TypeOK
<1>3. TypeOK'
    BY DEF TypeOK, ConnLabel
<1>4. Locked' /\ Numbered'
    BY DEF Locked, Numbered
<1>5. Replay'
    BY DEF Replay, TypeOK
<1>6. Fresh' /\ Unserved'
    BY <1>1 DEF Fresh, Unserved, TypeOK
<1>7. Consecutive'
  <2> SUFFICES ASSUME NEW d \in Conn, IsOpen(d)'
               PROVE  /\ \A i \in 1..Len(queue[d]) : queue[d][i] <= last
                      /\ \A i \in 1..(Len(queue[d]) - 1) : queue[d][i + 1] = queue[d][i] + 1
                      /\ d \notin overflowed =>
                            /\ d \in subscribers'
                            /\ queue[d] # <<>> => queue[d][Len(queue[d])] = Handed(d)'
      BY DEF Consecutive
  <2>1. CASE d = c
      BY <1>1, <2>1
  <2>2. CASE d # c
      BY <1>2, <2>2 DEF Consecutive, IsOpen
  <2> QED BY <2>1, <2>2
<1>8. Joined'
  <2> SUFFICES ASSUME NEW d \in Conn
               PROVE  /\ wpc'[d] = "send" /\ high[d] - after[d] < PageSize => JoinsAt(d, high[d])'
                      /\ wpc'[d] \in {"drain", "live", "get"} => JoinsAt(d, seen[d])'
      BY DEF Joined
  <2>1. CASE d = c
      BY <1>1, <2>1 DEF TypeOK
  <2>2. CASE d # c
      BY <1>2, <2>2 DEF Joined, JoinsAt
  <2> QED BY <2>1, <2>2
<1> QED BY <1>3, <1>4, <1>5, <1>6, <1>7, <1>8

\* A handler that returns, for whatever reason, leaves the other connections alone.
LEMMA LeaveStep ==
    ASSUME NEW c \in Conn, IInv, IsOpen(c), Leave(c),
           UNCHANGED <<last, publishing, queue, overflowed, replaying, seen>>
    PROVE  IInv'
<1> USE DEF IInv, Leave, publishing, replaying
<1>1. wpc' = [wpc EXCEPT ![c] = "closed"] /\ subscribers' = subscribers \ {c}
    OBVIOUS
<1>2. \A d \in Conn \ {c} : Handed(d)' = Handed(d) /\ wpc'[d] = wpc[d]
  <2>1. \A d \in Conn \ {c} : d \in subscribers' <=> d \in subscribers
      OBVIOUS
  <2> QED BY <2>1 DEF Handed, Pending, TypeOK
<1>3. wpc'[c] = "closed"
    BY DEF TypeOK
<1>4. TypeOK'
    BY DEF TypeOK, ConnLabel
<1>5. Locked' /\ Numbered'
    BY DEF Locked, Numbered
<1>6. Replay'
    BY <1>2, <1>3 DEF Replay
<1>7. Fresh' /\ Unserved'
    BY <1>2, <1>3 DEF Fresh, Unserved
<1>8. Consecutive'
    BY <1>2, <1>3 DEF Consecutive, IsOpen
<1>9. Joined'
    BY <1>2, <1>3 DEF Joined, JoinsAt
<1> QED BY <1>4, <1>5, <1>6, <1>7, <1>8, <1>9

\* What the steps of an open connection leave alone as long as it stays open.
LEMMA OpenStep ==
    ASSUME NEW c \in Conn, IInv, IsOpen(c), wpc'[c] \notin {"new", "closed"},
           UNCHANGED <<last, publishing, subscribers, overflowed>>,
           \A d \in Conn \ {c} : wpc'[d] = wpc[d] /\ queue'[d] = queue[d]
    PROVE  /\ \A d \in Conn : Handed(d)' = Handed(d)
           /\ Locked' /\ Numbered' /\ Fresh' /\ Unserved'
<1> USE DEF IInv, publishing
<1>1. \A d \in Conn : Handed(d)' = Handed(d)
    BY DEF Handed, Pending
<1>2. Locked' /\ Numbered'
    BY DEF Locked, Numbered
<1>3. Fresh' /\ Unserved'
    BY DEF Fresh, Unserved
<1> QED BY <1>1, <1>2, <1>3

\* A queue holds nothing beyond the history, and neither was anything handed over.
LEMMA JoinsHistory == ASSUME NEW c \in Conn, IInv, IsOpen(c) PROVE JoinsAt(c, last)
<1>1. queue[c] \in Seq(Nat) /\ last \in Nat
    BY DEF IInv, TypeOK
<1>2. queue[c] # <<>> => 1 \in 1..Len(queue[c]) /\ queue[c][1] \in Nat
    BY <1>1
<1>3. queue[c] # <<>> => queue[c][1] <= last
    BY <1>2 DEF IInv, Consecutive
<1> QED BY <1>1, <1>2, <1>3 DEF JoinsAt, Handed

\* Joining is monotone in what the client has.
LEMMA JoinsLater ==
    ASSUME NEW c \in Conn, NEW a \in Nat, NEW b \in Nat, TypeOK, JoinsAt(c, a), a <= b
    PROVE  JoinsAt(c, b)
<1>1. queue[c] \in Seq(Nat) /\ Handed(c) \in Int
    BY DEF TypeOK, Handed
<1>2. queue[c] # <<>> => queue[c][1] \in Nat
    BY <1>1
<1> QED BY <1>1, <1>2 DEF JoinsAt

\* A page that is not full ends with the last event; an empty one means that the
\* client has them all.
LEMMA ReadPageStep == ASSUME NEW c \in Conn, IInv, ReadPage(c) PROVE IInv'
<1> USE DEF publishing, replaying
<1>1. /\ wpc[c] = "page" /\ IsOpen(c) /\ high[c] <= seen[c] /\ after[c] <= seen[c]
      /\ UNCHANGED <<last, lock, ppc, num, targets, subscribers, queue, overflowed>>
      /\ UNCHANGED <<after, seen>>
    BY DEF ReadPage, IsOpen, IInv, Replay
<1>2. /\ last \in Nat /\ after[c] \in Nat /\ seen[c] \in Nat
      /\ wpc \in [Conn -> ConnLabel] /\ cursor \in [Conn -> Nat] /\ high \in [Conn -> Nat]
    BY DEF IInv, TypeOK
<1>3. /\ wpc' \in [Conn -> ConnLabel] /\ cursor' \in [Conn -> Nat] /\ high' \in [Conn -> Nat]
      /\ \A d \in Conn \ {c} : wpc'[d] = wpc[d] /\ high'[d] = high[d] /\ cursor'[d] = cursor[d]
      /\ \/ wpc'[c] = "drain" /\ high'[c] = high[c] /\ last = after[c]
         \/ /\ wpc'[c] = "send" /\ cursor'[c] = after[c] /\ after[c] <= high'[c]
            /\ high'[c] <= last /\ (high'[c] - after[c] < PageSize => high'[c] = last)
  <2>1. CASE last = after[c]
    <3>1. wpc' = [wpc EXCEPT ![c] = "drain"] /\ cursor' = cursor /\ high' = high
        BY <2>1 DEF ReadPage
    <3> QED BY <1>2, <2>1, <3>1 DEF ConnLabel
  <2>2. CASE last # after[c]
    <3> DEFINE h == IF last < after[c] + PageSize THEN last ELSE after[c] + PageSize
    <3>1. /\ high' = [high EXCEPT ![c] = h] /\ wpc' = [wpc EXCEPT ![c] = "send"]
          /\ cursor' = [cursor EXCEPT ![c] = after[c]]
        BY <2>2 DEF ReadPage
    <3>2. h \in Nat /\ after[c] <= h /\ h <= last /\ (h - after[c] < PageSize => h = last)
        BY <1>2, StreamAssumption DEF IInv, Replay
    <3> HIDE DEF h
    <3> QED BY <1>2, <3>1, <3>2 DEF ConnLabel
  <2> QED BY <2>1, <2>2
<1>4. /\ \A d \in Conn : Handed(d)' = Handed(d)
      /\ Locked' /\ Numbered' /\ Fresh' /\ Unserved'
    BY <1>1, <1>3, OpenStep
<1>5. TypeOK'
    BY <1>1, <1>3 DEF IInv, TypeOK
<1>6. Replay'
    BY <1>1, <1>2, <1>3 DEF IInv, Replay
<1>7. Consecutive'
    BY <1>1, <1>3, <1>4 DEF IInv, Consecutive, IsOpen
<1>8. JoinsAt(c, last)
    BY <1>1, JoinsHistory
<1>9. wpc'[c] = "drain" => JoinsAt(c, seen[c])
    BY <1>1, <1>2, <1>3, <1>8, JoinsLater DEF IInv
<1>10. Joined'
  <2> SUFFICES ASSUME NEW d \in Conn
               PROVE  /\ wpc'[d] = "send" /\ high'[d] - after'[d] < PageSize => JoinsAt(d, high[d])'
                      /\ wpc'[d] \in {"drain", "live", "get"} => JoinsAt(d, seen[d])'
      BY DEF Joined
  <2>1. CASE d # c
      BY <1>1, <1>3, <1>4, <2>1 DEF IInv, Joined, JoinsAt
  <2>2. CASE d = c /\ wpc'[c] = "drain"
      BY <1>1, <1>4, <1>9, <2>2 DEF JoinsAt
  <2>3. CASE d = c /\ wpc'[c] = "send"
      BY <1>1, <1>3, <1>4, <1>8, <2>3 DEF JoinsAt
  <2> QED BY <1>3, <2>1, <2>2, <2>3
<1> QED BY <1>4, <1>5, <1>6, <1>7, <1>10 DEF IInv

\* What a send does to the client: it has the event, and it goes back on nothing.
LEMMA SendSees ==
    ASSUME NEW c \in Conn, NEW e \in Nat, TypeOK, Send(c, e), e <= seen[c] + 1
    PROVE  /\ seen' \in [Conn -> Nat]
           /\ \A d \in Conn \ {c} : seen'[d] = seen[d]
           /\ seen'[c] \in {seen[c], seen[c] + 1} /\ seen[c] <= seen'[c] /\ e <= seen'[c]
           /\ \A l \in Nat : e <= l /\ seen[c] <= l => seen'[c] <= l
<1>1. seen' = [seen EXCEPT ![c] = IF e <= @ THEN @ ELSE e]
    BY DEF Send
<1>2. seen \in [Conn -> Nat]
    BY DEF TypeOK
<1>3. /\ seen' \in [Conn -> Nat] /\ \A d \in Conn \ {c} : seen'[d] = seen[d]
      /\ seen'[c] = IF e <= seen[c] THEN seen[c] ELSE e
    BY <1>1, <1>2
<1> QED BY <1>2, <1>3

LEMMA SendReplayedStep ==
    ASSUME NEW c \in Conn, IInv, SendReplayed(c)
    PROVE  IInv' /\ \A d \in Conn : seen'[d] \in {seen[d], seen[d] + 1}
<1> USE DEF publishing, replaying
<1>1. IsOpen(c)
    BY DEF SendReplayed, IsOpen
<1>2. CASE c \in overflowed
  <2>1. Leave(c) /\ UNCHANGED <<last, publishing, queue, overflowed, replaying, seen>>
      BY <1>2 DEF SendReplayed
  <2>2. IInv'
      BY <1>1, <2>1, LeaveStep
  <2> QED BY <2>1, <2>2
<1>3. CASE c \notin overflowed
  <2>1. /\ wpc[c] = "send" /\ cursor[c] < high[c] /\ Send(c, cursor[c] + 1)
        /\ cursor' = [cursor EXCEPT ![c] = cursor[c] + 1]
        /\ UNCHANGED <<last, lock, ppc, num, targets, subscribers, queue, overflowed>>
        /\ UNCHANGED <<wpc, after, high>>
      BY <1>3 DEF SendReplayed
  <2>2. /\ cursor[c] \in Nat /\ high[c] \in Nat /\ last \in Nat /\ seen[c] \in Nat
        /\ cursor[c] <= seen[c] /\ high[c] <= last /\ seen[c] <= last
      BY <2>1 DEF IInv, TypeOK, Replay
  <2>3. /\ seen' \in [Conn -> Nat]
        /\ \A d \in Conn \ {c} : seen'[d] = seen[d]
        /\ seen'[c] \in {seen[c], seen[c] + 1} /\ seen[c] <= seen'[c]
        /\ cursor[c] + 1 <= seen'[c] /\ seen'[c] <= last
    <3>1. cursor[c] + 1 \in Nat /\ cursor[c] + 1 <= seen[c] + 1 /\ cursor[c] + 1 <= last
        BY <2>1, <2>2
    <3> QED BY <2>1, <2>2, <3>1, SendSees DEF IInv
  <2>4. /\ \A d \in Conn : Handed(d)' = Handed(d)
        /\ Locked' /\ Numbered' /\ Fresh' /\ Unserved'
      BY <1>1, <2>1, OpenStep DEF IsOpen
  <2>5. TypeOK'
    <3>1. cursor' \in [Conn -> Nat]
        BY <2>1, <2>2 DEF IInv, TypeOK
    <3> QED BY <2>1, <2>3, <3>1 DEF IInv, TypeOK
  <2>6. Replay'
    <3> SUFFICES ASSUME NEW d \in Conn
                 PROVE  /\ after[d] <= seen'[d] /\ after[d] <= last /\ high[d] <= last
                        /\ seen'[d] <= last
                        /\ wpc[d] = "send" => cursor'[d] <= seen'[d] /\ cursor'[d] <= high[d]
                        /\ wpc[d] \notin {"send", "closed"} => high[d] <= seen'[d]
        BY <2>1 DEF Replay
    <3>1. CASE d # c
        BY <2>1, <2>3, <3>1 DEF IInv, Replay, TypeOK
    <3>2. CASE d = c
        BY <2>1, <2>2, <2>3, <3>2 DEF IInv, Replay, TypeOK
    <3> QED BY <3>1, <3>2
  <2>7. Consecutive'
      BY <2>1, <2>4 DEF IInv, Consecutive, IsOpen
  <2>8. Joined'
      BY <2>1, <2>3, <2>4 DEF IInv, Joined, JoinsAt
  <2>9. \A d \in Conn : seen'[d] \in {seen[d], seen[d] + 1}
      BY <2>3
  <2> QED BY <2>4, <2>5, <2>6, <2>7, <2>8, <2>9 DEF IInv
<1> QED BY <1>2, <1>3

LEMMA EndPageStep == ASSUME NEW c \in Conn, IInv, EndPage(c) PROVE IInv'
<1> USE DEF publishing, replaying
<1>1. /\ wpc[c] = "send" /\ IsOpen(c) /\ cursor[c] = high[c] /\ high[c] <= seen[c]
      /\ high[c] \in Nat /\ seen[c] \in Nat
      /\ UNCHANGED <<last, lock, ppc, num, targets, subscribers, queue, overflowed>>
      /\ UNCHANGED <<cursor, high, seen>>
    BY DEF EndPage, IsOpen, IInv, Replay, TypeOK
<1>2. \/ /\ high[c] - after[c] < PageSize
         /\ wpc' = [wpc EXCEPT ![c] = "drain"] /\ UNCHANGED after
      \/ wpc' = [wpc EXCEPT ![c] = "page"] /\ after' = [after EXCEPT ![c] = high[c]]
    BY DEF EndPage
<1>3. /\ wpc' \in [Conn -> ConnLabel] /\ wpc'[c] \in {"drain", "page"}
      /\ \A d \in Conn \ {c} : wpc'[d] = wpc[d] /\ after'[d] = after[d]
    BY <1>2 DEF IInv, TypeOK, ConnLabel
<1>4. /\ \A d \in Conn : Handed(d)' = Handed(d)
      /\ Locked' /\ Numbered' /\ Fresh' /\ Unserved'
    BY <1>1, <1>3, OpenStep
<1>5. TypeOK'
    BY <1>1, <1>2, <1>3 DEF IInv, TypeOK
<1>6. Replay'
    BY <1>1, <1>2, <1>3 DEF IInv, Replay, TypeOK
<1>7. Consecutive'
    BY <1>1, <1>3, <1>4 DEF IInv, Consecutive, IsOpen
<1>8. wpc'[c] = "drain" => JoinsAt(c, seen[c])
  <2>1. wpc'[c] = "drain" => JoinsAt(c, high[c])
      BY <1>1, <1>2 DEF IInv, Joined, TypeOK
  <2> QED BY <1>1, <2>1, JoinsLater DEF IInv
<1>9. Joined'
    BY <1>1, <1>3, <1>4, <1>8 DEF IInv, Joined, JoinsAt
<1> QED BY <1>4, <1>5, <1>6, <1>7, <1>9 DEF IInv

\* The head of the queue is taken, and is either known to the client or sent.
LEMMA TakeStep ==
    ASSUME NEW c \in Conn, IInv, wpc[c] \in {"drain", "get"}, queue[c] # <<>>,
           UNCHANGED <<last, publishing, subscribers, overflowed, replaying>>,
           queue' = [queue EXCEPT ![c] = Tail(queue[c])],
           wpc' \in [Conn -> ConnLabel], wpc'[c] \in {"drain", "live"},
           \A d \in Conn \ {c} : wpc'[d] = wpc[d],
           \/ UNCHANGED seen /\ Head(queue[c]) <= high[c]
           \/ Send(c, Head(queue[c]))
    PROVE  IInv' /\ \A d \in Conn : seen'[d] \in {seen[d], seen[d] + 1}
<1> USE DEF publishing, replaying
<1> DEFINE q == queue[c]
           e == Head(q)
<1>1. /\ q \in Seq(Nat) /\ Len(q) \in Nat \ {0} /\ e \in Nat /\ e = q[1]
      /\ Tail(q) \in Seq(Nat) /\ Len(Tail(q)) = Len(q) - 1
      /\ \A i \in 1..(Len(q) - 1) : Tail(q)[i] = q[i + 1]
    BY DEF IInv, TypeOK
<1>2. /\ last \in Nat /\ seen[c] \in Nat /\ high[c] \in Nat /\ IsOpen(c)
      /\ high[c] <= seen[c] /\ seen[c] <= last
      /\ \A i \in 1..Len(q) : q[i] <= last
      /\ \A i \in 1..(Len(q) - 1) : q[i + 1] = q[i] + 1
      /\ e <= seen[c] + 1 /\ e <= last
  <2>1. IsOpen(c) /\ last \in Nat /\ seen[c] \in Nat /\ high[c] \in Nat
      BY DEF IsOpen, IInv, TypeOK
  <2>2. high[c] <= seen[c] /\ seen[c] <= last
      BY DEF IInv, Replay
  <2>3. /\ \A i \in 1..Len(q) : q[i] <= last
        /\ \A i \in 1..(Len(q) - 1) : q[i + 1] = q[i] + 1
      BY <2>1 DEF IInv, Consecutive
  <2>4. e <= seen[c] + 1
    <3>1. JoinsAt(c, seen[c])
        BY DEF IInv, Joined
    <3> QED BY <1>1, <3>1 DEF JoinsAt
  <2>5. e <= last
    <3>1. 1 \in 1..Len(q)
        BY <1>1
    <3> HIDE DEF q, e
    <3> QED BY <1>1, <2>3, <3>1
  <2> HIDE DEF q, e
  <2> QED BY <2>1, <2>2, <2>3, <2>4, <2>5
<1>3. queue' \in [Conn -> Seq(Nat)] /\ queue'[c] = Tail(q)
      /\ \A d \in Conn \ {c} : queue'[d] = queue[d]
    BY <1>1 DEF IInv, TypeOK
<1>4. /\ seen' \in [Conn -> Nat]
      /\ \A d \in Conn \ {c} : seen'[d] = seen[d]
      /\ seen'[c] \in {seen[c], seen[c] + 1} /\ seen[c] <= seen'[c]
      /\ e <= seen'[c] /\ seen'[c] <= last
  <2>1. CASE UNCHANGED seen /\ e <= high[c]
      BY <1>1, <1>2, <2>1 DEF IInv, TypeOK
  <2>2. CASE Send(c, e)
    <3> HIDE DEF e
    <3> QED BY <1>1, <1>2, <2>2, SendSees DEF IInv
  <2> QED BY <2>1, <2>2
<1>5. /\ \A d \in Conn : Handed(d)' = Handed(d)
      /\ Locked' /\ Numbered' /\ Fresh' /\ Unserved'
    BY <1>2, <1>3, OpenStep
<1>6. TypeOK'
  <2>1. \A d \in Conn : Len(queue'[d]) <= QueueSize
      BY <1>1, <1>3, StreamAssumption DEF IInv, TypeOK
  <2> QED BY <1>3, <1>4, <2>1 DEF IInv, TypeOK
<1>7. Replay'
  <2> SUFFICES ASSUME NEW d \in Conn
               PROVE  /\ after[d] <= seen'[d] /\ after[d] <= last /\ high[d] <= last
                      /\ seen'[d] <= last
                      /\ wpc'[d] = "send" => cursor[d] <= seen'[d] /\ cursor[d] <= high[d]
                      /\ wpc'[d] \notin {"send", "closed"} => high[d] <= seen'[d]
      BY DEF Replay
  <2>1. CASE d # c
      BY <1>4, <2>1 DEF IInv, Replay
  <2>2. CASE d = c
    <3>1. after[c] \in Nat /\ after[c] <= seen[c] /\ after[c] <= last /\ high[c] <= last
        BY DEF IInv, TypeOK, Replay
    <3>2. seen'[c] \in Nat
        BY <1>4
    <3> QED BY <1>2, <1>4, <2>2, <3>1, <3>2
  <2> QED BY <2>1, <2>2
<1>8. Consecutive'
  <2> SUFFICES ASSUME NEW d \in Conn, IsOpen(d)'
               PROVE  /\ \A i \in 1..Len(queue'[d]) : queue'[d][i] <= last
                      /\ \A i \in 1..(Len(queue'[d]) - 1) : queue'[d][i + 1] = queue'[d][i] + 1
                      /\ d \notin overflowed =>
                            /\ d \in subscribers
                            /\ queue'[d] # <<>> => queue'[d][Len(queue'[d])] = Handed(d)'
      BY DEF Consecutive
  <2>1. CASE d # c
      BY <1>3, <1>5, <2>1 DEF IInv, Consecutive, IsOpen
  <2>2. CASE d = c
    <3>1. \A i \in 1..(Len(q) - 1) : Tail(q)[i] <= last
        BY <1>1, <1>2
    <3>2. \A i \in 1..(Len(q) - 2) : Tail(q)[i + 1] = Tail(q)[i] + 1
        BY <1>1, <1>2
    <3>3. Tail(q) # <<>> => Tail(q)[Len(q) - 1] = q[Len(q)]
        BY <1>1
    <3>4. c \notin overflowed => c \in subscribers /\ q[Len(q)] = Handed(c)'
        BY <1>2, <1>5 DEF IInv, Consecutive
    <3> QED BY <1>1, <1>3, <2>2, <3>1, <3>2, <3>3, <3>4
  <2> QED BY <2>1, <2>2
<1>9. JoinsAt(c, seen[c])'
  <2>1. Tail(q) # <<>> => Tail(q)[1] = e + 1
      BY <1>1, <1>2
  <2>2. Tail(q) = <<>> /\ c \notin overflowed => Handed(c) = e
    <3>1. Tail(q) = <<>> => Len(q) = 1
      <4>1. Len(<<>>) = 0
          OBVIOUS
      <4> HIDE DEF q, e
      <4>2. Tail(q) = <<>> => Len(Tail(q)) = 0
          BY <4>1, Zenon
      <4> QED BY <1>1, <4>2
    <3>2. c \notin overflowed => q[Len(q)] = Handed(c)
        BY <1>2 DEF IInv, Consecutive
    <3> QED BY <1>1, <3>1, <3>2
  <2>3. seen[c] \in Nat /\ seen'[c] \in Nat
      BY <1>2, <1>4
  <2>4. Tail(q) # <<>> => Tail(q)[1] <= seen'[c] + 1
    <3>1. e \in Nat /\ e <= seen'[c]
        BY <1>1, <1>4
    <3> HIDE DEF q, e
    <3> QED BY <2>1, <2>3, <3>1
  <2>5. Tail(q) = <<>> /\ c \notin overflowed => Handed(c)' <= seen'[c]
      BY <1>4, <1>5, <2>2
  <2> HIDE DEF q, e
  <2> QED BY <1>3, <2>4, <2>5 DEF JoinsAt
<1>10. Joined'
  <2> SUFFICES ASSUME NEW d \in Conn
               PROVE  /\ wpc'[d] = "send" /\ high[d] - after[d] < PageSize => JoinsAt(d, high[d])'
                      /\ wpc'[d] \in {"drain", "live", "get"} => JoinsAt(d, seen[d])'
      BY DEF Joined
  <2>1. CASE d # c
      BY <1>3, <1>4, <1>5, <2>1 DEF IInv, Joined, JoinsAt
  <2>2. CASE d = c
      BY <1>9, <2>2
  <2> QED BY <2>1, <2>2
<1>11. \A d \in Conn : seen'[d] \in {seen[d], seen[d] + 1}
    BY <1>4
<1> QED BY <1>5, <1>6, <1>7, <1>8, <1>10, <1>11 DEF IInv

\* The connection goes on to another label that asks no more of its queue.
LEMMA GoOnStep ==
    ASSUME NEW c \in Conn, IInv, wpc[c] \in {"drain", "live", "get"},
           NEW l \in {"drain", "live", "get"}, wpc' = [wpc EXCEPT ![c] = l],
           UNCHANGED <<last, publishing, subscribers, queue, overflowed, replaying, seen>>
    PROVE  IInv'
<1> USE DEF publishing, replaying
<1>1. /\ wpc' \in [Conn -> ConnLabel] /\ wpc'[c] = l /\ IsOpen(c)
      /\ \A d \in Conn \ {c} : wpc'[d] = wpc[d]
    BY DEF IInv, TypeOK, ConnLabel, IsOpen
<1>2. /\ \A d \in Conn : Handed(d)' = Handed(d)
      /\ Locked' /\ Numbered' /\ Fresh' /\ Unserved'
    BY <1>1, OpenStep
<1>3. TypeOK' /\ Replay'
    BY <1>1 DEF IInv, TypeOK, Replay
<1>4. Consecutive'
    BY <1>1, <1>2 DEF IInv, Consecutive, IsOpen
<1>5. Joined'
    BY <1>1, <1>2 DEF IInv, Joined, JoinsAt
<1> QED BY <1>2, <1>3, <1>4, <1>5 DEF IInv

LEMMA DrainStep ==
    ASSUME NEW c \in Conn, IInv, Drain(c)
    PROVE  IInv' /\ \A d \in Conn : seen'[d] \in {seen[d], seen[d] + 1}
<1>1. wpc[c] = "drain" /\ IsOpen(c) /\ UNCHANGED <<last, publishing, overflowed, replaying>>
    BY DEF Drain, IsOpen
<1>2. CASE c \in overflowed
  <2>1. Leave(c) /\ UNCHANGED <<queue, seen>>
      BY <1>2 DEF Drain
  <2> QED BY <1>1, <2>1, LeaveStep
<1>3. CASE c \notin overflowed /\ queue[c] = <<>>
  <2>1. wpc' = [wpc EXCEPT ![c] = "live"] /\ UNCHANGED <<subscribers, queue, seen>>
      BY <1>3 DEF Drain
  <2> QED BY <1>1, <2>1, GoOnStep
<1>4. CASE c \notin overflowed /\ queue[c] # <<>>
  <2>1. /\ queue' = [queue EXCEPT ![c] = Tail(queue[c])] /\ UNCHANGED <<wpc, subscribers>>
        /\ \/ UNCHANGED seen /\ Head(queue[c]) <= high[c]
           \/ Send(c, Head(queue[c]))
      BY <1>4 DEF Drain
  <2>2. wpc \in [Conn -> ConnLabel]
      BY DEF IInv, TypeOK
  <2> QED BY <1>1, <1>4, <2>1, <2>2, TakeStep
<1> QED BY <1>2, <1>3, <1>4

LEMMA LiveCheckStep ==
    ASSUME NEW c \in Conn, IInv, LiveCheck(c)
    PROVE  IInv' /\ UNCHANGED seen
<1>1. /\ wpc[c] = "live" /\ IsOpen(c)
      /\ UNCHANGED <<last, publishing, queue, overflowed, replaying, seen>>
    BY DEF LiveCheck, IsOpen
<1>2. CASE c \in overflowed
  <2>1. Leave(c)
      BY <1>2 DEF LiveCheck
  <2> QED BY <1>1, <2>1, LeaveStep
<1>3. CASE c \notin overflowed
  <2>1. wpc' = [wpc EXCEPT ![c] = "get"] /\ UNCHANGED subscribers
      BY <1>3 DEF LiveCheck
  <2> QED BY <1>1, <2>1, GoOnStep
<1> QED BY <1>2, <1>3

LEMMA LiveGetStep ==
    ASSUME NEW c \in Conn, IInv, LiveGet(c)
    PROVE  IInv' /\ \A d \in Conn : seen'[d] \in {seen[d], seen[d] + 1}
<1>1. /\ wpc[c] = "get" /\ wpc' = [wpc EXCEPT ![c] = "live"]
      /\ UNCHANGED <<last, publishing, subscribers, overflowed, replaying>>
    BY DEF LiveGet
<1>2. CASE queue[c] = <<>>
  <2>1. UNCHANGED <<queue, seen>>
      BY <1>2 DEF LiveGet
  <2> QED BY <1>1, <2>1, GoOnStep
<1>3. CASE queue[c] # <<>>
  <2>1. queue' = [queue EXCEPT ![c] = Tail(queue[c])] /\ Send(c, Head(queue[c]))
      BY <1>3 DEF LiveGet
  <2>2. /\ wpc' \in [Conn -> ConnLabel] /\ wpc'[c] = "live"
        /\ \A d \in Conn \ {c} : wpc'[d] = wpc[d]
      BY <1>1 DEF IInv, TypeOK, ConnLabel
  <2> QED BY <1>1, <1>3, <2>1, <2>2, TakeStep
<1> QED BY <1>2, <1>3

LEMMA DisconnectStep == ASSUME NEW c \in Conn, IInv, Disconnect(c) PROVE IInv'
    BY LeaveStep DEF Disconnect, IsOpen

-----------------------------------------------------------------------------
(* The theorems *)

\* What every step of the system does to the clients.
LEMMA NextSees ==
    ASSUME IInv, [Next]_vars
    PROVE  IInv' /\ \A c \in Conn : seen'[c] \in {seen[c], seen[c] + 1}
<1>1. CASE UNCHANGED vars
  <2>1. UNCHANGED <<last, lock, ppc, num, targets, subscribers, queue, overflowed>>
      BY <1>1 DEF vars, publishing
  <2>2. UNCHANGED <<wpc, after, cursor, high, seen>>
      BY <1>1 DEF vars, replaying
  <2>3. \A c \in Conn : Handed(c)' = Handed(c)
      BY <2>1 DEF Handed, Pending
  <2>4. TypeOK' /\ Locked' /\ Numbered'
      BY <2>1, <2>2 DEF IInv, TypeOK, Locked, Numbered
  <2>5. Replay' /\ Fresh' /\ Unserved'
      BY <2>1, <2>2 DEF IInv, Replay, Fresh, Unserved
  <2>6. Consecutive' /\ Joined'
      BY <2>1, <2>2, <2>3 DEF IInv, Consecutive, Joined, JoinsAt, IsOpen
  <2> QED BY <2>2, <2>4, <2>5, <2>6 DEF IInv
<1>2. ASSUME NEW p \in Publisher, Acquire(p) \/ Publish(p)
      PROVE  IInv' /\ UNCHANGED seen
  <2>1. UNCHANGED seen
      BY <1>2 DEF Acquire, Publish, ReadMax, Insert, SnapshotSubscribers, Serve, Release
  <2>2. IInv'
      BY <1>2, AcquireStep, ReadMaxStep, InsertStep, SnapshotStep, ServeStep, ReleaseStep
      DEF Publish
  <2> QED BY <2>1, <2>2
<1>3. ASSUME NEW c \in Conn, Subscribe(c) \/ ReadPage(c) \/ EndPage(c) \/ Disconnect(c)
      PROVE  IInv' /\ UNCHANGED seen
  <2>1. UNCHANGED seen
      BY <1>3 DEF Subscribe, ReadPage, EndPage, Disconnect
  <2>2. IInv'
      BY <1>3, SubscribeStep, ReadPageStep, EndPageStep, DisconnectStep
  <2> QED BY <2>1, <2>2
<1>4. ASSUME NEW c \in Conn, SendReplayed(c) \/ Drain(c) \/ LiveCheck(c) \/ LiveGet(c)
      PROVE  IInv' /\ \A d \in Conn : seen'[d] \in {seen[d], seen[d] + 1}
  <2>1. CASE SendReplayed(c)
      BY <2>1, SendReplayedStep
  <2>2. CASE Drain(c)
      BY <2>2, DrainStep
  <2>3. CASE LiveCheck(c)
      BY <2>3, LiveCheckStep
  <2>4. CASE LiveGet(c)
      BY <2>4, LiveGetStep
  <2> QED BY <1>4, <2>1, <2>2, <2>3, <2>4
<1> QED BY <1>1, <1>2, <1>3, <1>4 DEF Next, Stream

LEMMA Inductive == Spec => []IInv
<1>1. IInv /\ [Next]_vars => IInv'
    BY NextSees
<1> QED BY InitIInv, <1>1, PTL DEF Spec

\* Every variable keeps its type and no queue exceeds its bound, however many
\* publishers, connections, events and pages there are.
THEOREM TypeCorrect == Spec => []TypeOK
<1>1. IInv => TypeOK
    BY DEF IInv
<1> QED BY Inductive, <1>1, PTL

\* Publications that overlap never read the same next sequence number: the lock
\* keeps append_event's unlocked max(sequence) + 1 good until it is inserted.
THEOREM NumbersAreSerial == Spec => []AllocationIsSerial
<1>1. IInv => AllocationIsSerial
    BY DEF IInv, Numbered, AllocationIsSerial
<1> QED BY Inductive, <1>1, PTL

\* Replay, the drain of the queue, the live loop and the overflow never make the
\* client skip an event or go back, for every size of the queue and of the page.
THEOREM ClientSeesNoGap == Spec => NoGap
<1>1. IInv /\ [Next]_vars => [\A c \in Conn : seen'[c] \in {seen[c], seen[c] + 1}]_vars
    BY NextSees
<1> QED BY Inductive, <1>1, PTL DEF Spec, NoGap

\* Every step of the stream is a step of EventFeed or a stutter: an insertion
\* publishes, a subscription opens, leaving closes, and a send handles one event.
LEMMA NextIsFeed == ASSUME IInv, [Next]_vars PROVE [Feed!Next]_(Feed!vars)
<1> DEFINE lk(c) == IF wpc[c] \in {"new", "closed"} THEN wpc[c] ELSE "open"
<1> USE DEF publishing, replaying
<1>1. wpc \in [Conn -> ConnLabel] /\ last \in Nat /\ seen \in [Conn -> Nat]
    BY DEF IInv, TypeOK
<1>2. IInv' /\ \A c \in Conn : seen'[c] \in {seen[c], seen[c] + 1}
    BY NextSees
<1>3. seen' \in [Conn -> Nat] /\ \A c \in Conn : seen'[c] <= last'
    BY <1>2 DEF IInv, TypeOK, Replay
<1>4. CASE UNCHANGED vars
    BY <1>4 DEF vars, Feed!vars
<1>5. ASSUME NEW p \in Publisher, Acquire(p) \/ Publish(p)
      PROVE  Feed!Publish \/ UNCHANGED Feed!vars
  <2>1. UNCHANGED <<seen, wpc>>
      BY <1>5 DEF Acquire, Publish, ReadMax, Insert, SnapshotSubscribers, Serve, Release
  <2>2. last' \in {last, last + 1}
      BY <1>1, <1>5 DEF Acquire, Publish, ReadMax, Insert, SnapshotSubscribers, Serve, Release,
                        IInv, Numbered
  <2> QED BY <2>1, <2>2 DEF Feed!Publish, Feed!vars
<1>6. ASSUME NEW c \in Conn, Subscribe(c)
      PROVE  Feed!Open(c)
  <2>1. wpc[c] = "new" /\ wpc' = [wpc EXCEPT ![c] = "page"] /\ UNCHANGED <<last, seen>>
      BY <1>6 DEF Subscribe
  <2>2. [d \in Conn |-> lk(d)]' = [[d \in Conn |-> lk(d)] EXCEPT ![c] = "open"]
      BY <1>1, <2>1
  <2> QED BY <2>1, <2>2 DEF Feed!Open
<1>7. ASSUME NEW c \in Conn, IsOpen(c), wpc' = [wpc EXCEPT ![c] = "closed"],
             UNCHANGED <<last, seen>>
      PROVE  Feed!Close(c)
  <2>1. [d \in Conn |-> lk(d)]' = [[d \in Conn |-> lk(d)] EXCEPT ![c] = "closed"]
      BY <1>1, <1>7
  <2> QED BY <1>7, <2>1 DEF Feed!Close, IsOpen
<1>8. ASSUME NEW c \in Conn, IsOpen(c), UNCHANGED last, wpc'[c] \notin {"new", "closed"},
             \A d \in Conn \ {c} : wpc'[d] = wpc[d] /\ seen'[d] = seen[d]
      PROVE  Feed!Handle(c) \/ UNCHANGED Feed!vars
  <2>1. [d \in Conn |-> lk(d)]' = [d \in Conn |-> lk(d)]
      BY <1>8 DEF IsOpen
  <2>2. CASE seen'[c] = seen[c]
    <3>1. seen' = seen
        BY <1>1, <1>3, <1>8, <2>2
    <3> QED BY <1>8, <2>1, <3>1 DEF Feed!vars
  <2>3. CASE seen'[c] = seen[c] + 1
    <3>1. seen' = [seen EXCEPT ![c] = @ + 1]
        BY <1>1, <1>3, <1>8, <2>3
    <3>2. seen[c] < last
        BY <1>1, <1>3, <1>8, <2>3
    <3> QED BY <1>8, <2>1, <3>1, <3>2 DEF Feed!Handle, IsOpen
  <2> QED BY <1>2, <2>2, <2>3
<1>9. ASSUME NEW c \in Conn, Stream(c) \/ Disconnect(c)
      PROVE  Feed!Handle(c) \/ Feed!Close(c) \/ UNCHANGED Feed!vars
  <2>1. IsOpen(c) /\ UNCHANGED last
      BY <1>9 DEF Stream, Disconnect, ReadPage, SendReplayed, EndPage, Drain, LiveCheck, LiveGet,
                  IsOpen
  <2>2. \/ wpc' = [wpc EXCEPT ![c] = "closed"] /\ UNCHANGED seen
        \/ /\ wpc'[c] \notin {"new", "closed"}
           /\ \A d \in Conn \ {c} : wpc'[d] = wpc[d] /\ seen'[d] = seen[d]
      BY <1>1, <1>9 DEF Stream, Disconnect, ReadPage, SendReplayed, EndPage, Drain, LiveCheck,
                        LiveGet, Leave, Send
  <2> QED BY <1>7, <1>8, <2>1, <2>2
<1> QED BY <1>4, <1>5, <1>6, <1>9 DEF Next, Feed!Next

\* The stream implements the safety of its promise, for every value of the
\* constants; that a connected client gets every event is model-checked.
THEOREM StreamRefinesFeed == Spec => Feed!Spec
<1>1. Init => Feed!Init
    BY DEF Init, Feed!Init
<1>2. IInv /\ [Next]_vars => [Feed!Next]_(Feed!vars)
    BY NextIsFeed
<1> QED BY Inductive, <1>1, <1>2, PTL DEF Spec, Feed!Spec
=============================================================================
