----------------------------- MODULE FaissStore -----------------------------
(***************************************************************************)
(* One FAISS index on disk (vector_stores/base.py): the directory of the   *)
(* index, replaced as a whole by the operation that holds the file lock of *)
(* the index, and read without the lock by searches and by the first half  *)
(* of an update or a deletion.                                             *)
(*                                                                         *)
(* Clients are processes: they may be killed at any step, which gives the  *)
(* file lock back and leaves the temporary and backup directories behind.  *)
(* What rmtree(ignore_errors=True) may leave of those is never read again   *)
(* and counts as gone.                                                     *)
(***************************************************************************)
EXTENDS Naturals, Sequences, FiniteSets, Functions

CONSTANTS
    Client,     \* the processes
    Id,         \* record ids
    Contract,   \* what a store and a write must agree on: dimension, metric, embedding model
    MaxCalls,   \* bound: operations called
    MaxCrashes, \* bound: processes killed
    Nobody      \* holds a free lock

\* A record: its id, and the call that gave it its metadata and its vector.
Record == [id: Id, meta: Nat, vec: Nat]

\* A directory: absent, or its four files; "whole" is lost when rmtree has begun.
Absent == [whole |-> FALSE, con |-> "", recs |-> <<>>]
Files(con, recs) == [whole |-> TRUE, con |-> con, recs |-> recs]
Exists(d) == d.con # ""

Writes  == {"insert", "upsert", "overwrite"}
Edits   == {"update", "delete"}
Reads   == {"search"}   \* and inspect_collection, reload

VARIABLES
    dir,        \* the store directory
    temp,       \* the temporary sibling of every client
    backup,     \* the backup sibling of every client
    left,       \* the backups that could not be moved back
    lock,       \* who holds the file lock
    pc, req,    \* where a client is, and its request
    seen,       \* metadata and vectors it has read without the lock, per load
    keep,       \* the positions a deletion retains
    new,        \* the records it will write
    result,     \* how its last operation ended
    calls, crashes,
    last,       \* history: the store as last committed
    stale       \* history: a commit came between a client's reads and its lock

disk   == <<dir, temp, backup, left, lock>>
local  == <<req, seen, keep, new>>
bounds == <<calls, crashes>>
vars   == <<disk, pc, local, result, bounds, last, stale>>

Ids(recs) == {recs[i].id : i \in DOMAIN recs}
NoRead == [con |-> "", meta |-> <<>>, vecs |-> <<>>]
NoReq  == [op |-> "none", ids |-> {}, con |-> "", ok |-> FALSE, n |-> 0]

\* The sequences that list a set: in any order, and a set of positions in their own.
Listings(S)  == Bijection(1..Cardinality(S), S)
Ascending(S) == {s \in Listings(S) : \A i, j \in DOMAIN s : i < j => s[i] < s[j]}

\* The points of call n, as the caller lists their ids.
Points(ids, n) == {[i \in DOMAIN s |-> [id |-> s[i], meta |-> n, vec |-> n]] : s \in Listings(ids)}

\* No store yet, or one that an earlier process left.
Stored ==
    {Absent} \cup
    {Files(con, recs) : con \in Contract, recs \in UNION {Points(ids, 0) : ids \in SUBSET Id \ {{}}}}

Init ==
    /\ dir \in Stored /\ lock = Nobody
    /\ temp = [c \in Client |-> Absent] /\ backup = [c \in Client |-> Absent]
    /\ left = {}
    /\ pc = [c \in Client |-> "idle"] /\ req = [c \in Client |-> NoReq]
    /\ seen = [c \in Client |-> NoRead] /\ keep = [c \in Client |-> {}]
    /\ new = [c \in Client |-> <<>>] /\ result = [c \in Client |-> "none"]
    /\ calls = 0 /\ crashes = 0
    /\ last = dir /\ stale = [c \in Client |-> FALSE]

Goto(c, l) == pc' = [pc EXCEPT ![c] = l]

\* The operation ends; a raised error and a returned value both do.
End(c, how) == Goto(c, "idle") /\ result' = [result EXCEPT ![c] = how]

-----------------------------------------------------------------------------
(* Calls, and what is read before the lock *)

\* A request names the records it writes or deletes; "ok" is FALSE for a write that
\* the argument checks refuse (no points, mixed dimensions, duplicate ids, an unknown
\* mode or policy).
Request(n) ==
    [op : Writes, ids : SUBSET Id \ {{}}, con : Contract, ok : BOOLEAN, n : {n}]
    \cup [op : {"update"}, ids : SUBSET Id \ {{}}, con : Contract, ok : {TRUE}, n : {n}]
    \cup [op : {"delete"}, ids : SUBSET Id \ {{}}, con : {""}, ok : {TRUE}, n : {n}]
    \cup [op : Reads, ids : {{}}, con : {""}, ok : {TRUE}, n : {n}]

Call(c) ==
    /\ pc[c] = "idle" /\ calls < MaxCalls
    /\ calls' = calls + 1
    /\ \E r \in Request(calls + 1) : req' = [req EXCEPT ![c] = r]
    /\ Goto(c, IF req'[c].op \in Writes THEN "check" ELSE "metadata")
    /\ seen' = [seen EXCEPT ![c] = NoRead] /\ keep' = [keep EXCEPT ![c] = {}]
    /\ new' = [new EXCEPT ![c] = <<>>] /\ result' = [result EXCEPT ![c] = "none"]
    /\ stale' = [stale EXCEPT ![c] = FALSE]
    /\ UNCHANGED <<disk, crashes, last>>

\* write_points refuses a bad request before it touches the disk.
CheckRequest(c) ==
    /\ pc[c] = "check"
    /\ IF req[c].ok THEN Goto(c, "lock") /\ UNCHANGED result ELSE End(c, "refused")
    /\ UNCHANGED <<disk, local, bounds, last, stale>>

\* _load_store without the lock: the store must be there and complete; the manifest
\* and the metadata are read first ...
ReadMetadata(c) ==
    /\ pc[c] = "metadata"
    /\ IF dir.whole
       THEN /\ seen' = [seen EXCEPT ![c] = [con |-> dir.con, meta |-> dir.recs, vecs |-> <<>>]]
            /\ Goto(c, "vectors") /\ UNCHANGED result
       ELSE End(c, "unavailable") /\ UNCHANGED seen
    /\ UNCHANGED <<disk, req, keep, new, bounds, last, stale>>

\* The record of a position as metadata.json and vectors.npy give it.
RecordAt(meta, vecs, i) == [id |-> meta[i].id, meta |-> meta[i].meta, vec |-> vecs[i].vec]

\* What the operation does once it has read: return the hits, refuse an update of a
\* missing record, or select what a deletion retains.
AfterRead(c, vecs) ==
    IF req[c].op \in Reads THEN "return"
    ELSE IF req[c].op = "delete" THEN "select"
    ELSE IF req[c].ids \subseteq Ids(seen[c].meta) THEN "check" ELSE "missing"

\* ... then the vectors and the index, which another client may have replaced.
ReadVectors(c) ==
    /\ pc[c] = "vectors"
    /\ IF dir.whole
       THEN /\ seen' = [seen EXCEPT ![c].vecs = dir.recs]
            /\ Goto(c, AfterRead(c, dir.recs)) /\ UNCHANGED result
       ELSE End(c, "unavailable") /\ UNCHANGED seen
    /\ UNCHANGED <<disk, req, keep, new, bounds, last, stale>>

\* A search ranks positions of the index and takes their metadata; an inspection
\* counts.  An update of a missing id is refused.
Return(c) ==
    /\ pc[c] \in {"return", "missing"}
    /\ End(c, IF pc[c] = "missing" THEN "refused" ELSE "read")
    /\ UNCHANGED <<disk, local, bounds, last, stale>>

\* delete_ids, delete_document, delete_filter: the positions to retain, of the
\* metadata just read ...
Select(c) ==
    /\ pc[c] = "select"
    /\ keep' = [keep EXCEPT ![c] =
                  {i \in DOMAIN seen[c].meta : seen[c].meta[i].id \notin req[c].ids}]
    /\ Goto(c, "metadata2")
    /\ UNCHANGED <<disk, req, seen, new, result, bounds, last, stale>>

\* ... are applied by _replace_local_points to a second load of the store.
RereadMetadata(c) ==
    /\ pc[c] = "metadata2"
    /\ IF dir.whole
       THEN /\ seen' = [seen EXCEPT ![c] = [con |-> dir.con, meta |-> dir.recs, vecs |-> <<>>]]
            /\ Goto(c, "vectors2") /\ UNCHANGED result
       ELSE End(c, "unavailable") /\ UNCHANGED seen
    /\ UNCHANGED <<disk, req, keep, new, bounds, last, stale>>

RereadVectors(c) ==
    LET meta == seen[c].meta IN
    /\ pc[c] = "vectors2"
    /\ \/ ~dir.whole /\ End(c, "unavailable") /\ UNCHANGED <<seen, new>>
       \/ /\ dir.whole /\ keep[c] = {}
          /\ Goto(c, "deleteLock") /\ UNCHANGED <<seen, new, result>>
       \/ /\ dir.whole /\ keep[c] # {}
          /\ IF keep[c] \subseteq DOMAIN meta \cap DOMAIN dir.recs
             THEN /\ \E at \in Ascending(keep[c]) :
                        new' = [new EXCEPT ![c] =
                                  [j \in DOMAIN at |-> RecordAt(meta, dir.recs, at[j])]]
                  /\ seen' = [seen EXCEPT ![c].vecs = dir.recs]
                  /\ Goto(c, "lock") /\ UNCHANGED result
             ELSE End(c, "indexError") /\ UNCHANGED <<seen, new>>
    /\ UNCHANGED <<disk, req, keep, bounds, last, stale>>

-----------------------------------------------------------------------------
(* Under the lock *)

\* The lock is free and taken, or its timeout expires.
AcquireLock(c) ==
    /\ pc[c] \in {"lock", "deleteLock"}
    /\ \/ /\ lock = Nobody /\ lock' = c
          /\ Goto(c, IF pc[c] = "lock" THEN "merge" ELSE "remove") /\ UNCHANGED result
       \/ /\ lock # Nobody /\ End(c, "lock_timeout") /\ UNCHANGED lock
    /\ UNCHANGED <<dir, temp, backup, left, local, bounds, last, stale>>

Incoming(c) == Points(req[c].ids, req[c].n)

\* The records of a sequence whose ids are not among some, in their order.
Others(recs, ids) ==
    {[j \in DOMAIN at |-> recs[at[j]]] :
        at \in Ascending({i \in DOMAIN recs : recs[i].id \notin ids})}

Raise(c) == lock' = Nobody /\ End(c, "refused") /\ UNCHANGED new

\* Mutant: an update keeps the records it read before it had the lock.
MergeSeen(c) ==
    LET append    == req[c].op \in {"insert", "upsert", "update"} /\ Exists(dir)
        conflicts == Ids(dir.recs) \cap req[c].ids
        base      == IF req[c].op = "update" THEN seen[c].vecs ELSE dir.recs IN
    /\ pc[c] = "merge"
    /\ \/ /\ append
          /\ \/ ~dir.whole \/ dir.con # req[c].con
             \/ conflicts # {} /\ req[c].op = "insert"
          /\ Raise(c)
       \/ /\ append /\ dir.whole /\ dir.con = req[c].con
          /\ conflicts = {} \/ req[c].op # "insert"
          /\ \E old \in Others(base, req[c].ids), points \in Incoming(c) :
                new' = [new EXCEPT ![c] = old \o points]
          /\ Goto(c, "build") /\ UNCHANGED <<lock, result>>
       \/ /\ ~append
          /\ IF req[c].op = "delete" THEN UNCHANGED new
             ELSE \E points \in Incoming(c) : new' = [new EXCEPT ![c] = points]
          /\ Goto(c, "build") /\ UNCHANGED <<lock, result>>
    /\ UNCHANGED <<dir, temp, backup, left, req, seen, keep, bounds, last, stale>>

\* Appends reload the store: it must be whole and agree with the incoming points,
\* an insert refuses ids that are there, an upsert and an update replace them.
Merge(c) ==
    LET append    == req[c].op \in {"insert", "upsert", "update"} /\ Exists(dir)
        conflicts == Ids(dir.recs) \cap req[c].ids IN
    /\ pc[c] = "merge"
    /\ \/ /\ append
          /\ \/ ~dir.whole \/ dir.con # req[c].con
             \/ conflicts # {} /\ req[c].op = "insert"
          /\ Raise(c)
       \/ /\ append /\ dir.whole /\ dir.con = req[c].con
          /\ conflicts = {} \/ req[c].op # "insert"
          /\ \E old \in Others(dir.recs, conflicts), points \in Incoming(c) :
                new' = [new EXCEPT ![c] = old \o points]
          /\ Goto(c, "build") /\ UNCHANGED <<lock, result>>
       \/ /\ ~append
          /\ IF req[c].op = "delete" THEN UNCHANGED new
             ELSE \E points \in Incoming(c) : new' = [new EXCEPT ![c] = points]
          /\ Goto(c, "build") /\ UNCHANGED <<lock, result>>
    /\ UNCHANGED <<dir, temp, backup, left, req, seen, keep, bounds, last, stale>>

ContractOf(c) == IF req[c].op = "delete" THEN seen[c].con ELSE req[c].con

\* The index is built and the four files are written to the temporary directory,
\* which is removed when any of that fails.
Build(c) ==
    /\ pc[c] = "build"
    /\ \/ /\ temp' = [temp EXCEPT ![c] = Files(ContractOf(c), new[c])]
          /\ Goto(c, "moveAside") /\ UNCHANGED <<lock, result>>
       \/ lock' = Nobody /\ End(c, "failed") /\ UNCHANGED temp
    /\ UNCHANGED <<dir, backup, left, local, bounds, last, stale>>

\* Everyone who has read the store without the lock and not finished is now stale.
Outdate(c) == [d \in Client |-> stale[d] \/ (d # c /\ pc[d] # "idle")]

\* Mutant: the old directory is removed, not kept as a backup.
MoveAsideDeleting(c) ==
    /\ pc[c] = "moveAside"
    /\ dir' = Absent /\ stale' = Outdate(c)
    /\ Goto(c, "install")
    /\ UNCHANGED <<temp, backup, left, lock, local, result, bounds, last>>

\* Mutant: a rename that fails leaves the temporary directory.
MoveAsideLeaving(c) ==
    /\ pc[c] = "moveAside"
    /\ \/ /\ backup' = IF Exists(dir) THEN [backup EXCEPT ![c] = dir] ELSE backup
          /\ dir' = Absent /\ stale' = Outdate(c)
          /\ Goto(c, "install") /\ UNCHANGED <<lock, result>>
       \/ /\ lock' = Nobody /\ End(c, "failed") /\ UNCHANGED <<dir, backup, stale>>
    /\ UNCHANGED <<temp, left, local, bounds, last>>

\* store_path.replace(backup_path), if there is a store; when the rename fails the
\* temporary directory is removed and the store is where it was.
MoveAside(c) ==
    /\ pc[c] = "moveAside"
    /\ \/ /\ backup' = IF Exists(dir) THEN [backup EXCEPT ![c] = dir] ELSE backup
          /\ dir' = Absent /\ stale' = Outdate(c)
          /\ Goto(c, "install") /\ UNCHANGED <<temp, lock, result>>
       \/ /\ temp' = [temp EXCEPT ![c] = Absent]
          /\ lock' = Nobody /\ End(c, "failed") /\ UNCHANGED <<dir, backup, stale>>
    /\ UNCHANGED <<left, local, bounds, last>>

\* temp_path.replace(store_path); when that fails the backup is moved back, which may
\* fail as well.
Install(c) ==
    /\ pc[c] = "install"
    /\ \/ /\ dir' = temp[c] /\ last' = temp[c]
          /\ Goto(c, "clean") /\ UNCHANGED <<lock, result, backup, left>>
       \/ /\ \/ dir' = backup[c] /\ UNCHANGED left
             \/ Exists(backup[c]) /\ left' = left \cup {backup[c]} /\ UNCHANGED dir
          /\ backup' = [backup EXCEPT ![c] = Absent]
          /\ lock' = Nobody /\ End(c, "failed") /\ UNCHANGED last
    /\ temp' = [temp EXCEPT ![c] = Absent]
    /\ stale' = Outdate(c)
    /\ UNCHANGED <<local, bounds>>

\* The backup is removed and the lock given back.
Clean(c) ==
    /\ pc[c] = "clean"
    /\ backup' = [backup EXCEPT ![c] = Absent]
    /\ lock' = Nobody /\ End(c, "written")
    /\ UNCHANGED <<dir, temp, left, local, bounds, last, stale>>

\* delete_collection: the store must be whole; rmtree takes it file by file, and fails
\* at the first file it cannot remove.
RemoveTree(c) ==
    /\ pc[c] = "remove"
    /\ \/ /\ dir.whole /\ dir' = [dir EXCEPT !.whole = FALSE]
          /\ last' = Absent /\ stale' = Outdate(c)
          /\ Goto(c, "removing") /\ UNCHANGED <<lock, result>>
       \/ /\ dir.whole /\ lock' = Nobody /\ End(c, "failed") /\ UNCHANGED <<dir, last, stale>>
       \/ /\ ~dir.whole /\ lock' = Nobody
          /\ End(c, IF Exists(dir) THEN "refused" ELSE "written")
          /\ UNCHANGED <<dir, last, stale>>
    /\ UNCHANGED <<temp, backup, left, local, bounds>>

RemoveRest(c) ==
    /\ pc[c] = "removing"
    /\ \/ dir' = Absent /\ End(c, "written")
       \/ UNCHANGED dir /\ End(c, "failed")
    /\ lock' = Nobody
    /\ UNCHANGED <<temp, backup, left, local, bounds, last, stale>>

-----------------------------------------------------------------------------

\* The process is killed: the operating system gives its lock back.
Crash(c) ==
    /\ crashes < MaxCrashes /\ pc[c] \notin {"idle", "dead"}
    /\ crashes' = crashes + 1
    /\ Goto(c, "dead")
    /\ lock' = IF lock = c THEN Nobody ELSE lock
    /\ UNCHANGED <<dir, temp, backup, left, local, result, calls, last, stale>>

Rest ==
    /\ \A c \in Client : pc[c] = "dead" \/ (pc[c] = "idle" /\ calls = MaxCalls)
    /\ UNCHANGED vars

Step(c) ==
    \/ CheckRequest(c) \/ ReadMetadata(c) \/ ReadVectors(c) \/ Return(c) \/ Select(c)
    \/ RereadMetadata(c) \/ RereadVectors(c) \/ AcquireLock(c) \/ Merge(c) \/ Build(c)
    \/ MoveAside(c) \/ Install(c) \/ Clean(c) \/ RemoveTree(c) \/ RemoveRest(c)

Next == (\E c \in Client : Call(c) \/ Step(c) \/ Crash(c)) \/ Rest

Spec == Init /\ [][Next]_vars

-----------------------------------------------------------------------------
(* Properties *)

Steps == {"idle", "check", "metadata", "vectors", "return", "missing", "select", "metadata2",
          "vectors2", "lock", "deleteLock", "dead"}
LockedSteps == {"merge", "build", "moveAside", "install", "clean", "remove", "removing"}

Directory == [whole : BOOLEAN, con : Contract \cup {""}, recs : Seq(Record)]

\* Every variable has its type; the client with the lock is at a locked step, and what
\* lies beside the store belongs to a replacement under way or to a killed process.
TypeOK ==
    /\ dir \in Directory /\ last \in Directory
    /\ temp \in [Client -> Directory] /\ backup \in [Client -> Directory]
    /\ left \subseteq Directory
    /\ lock \in Client \cup {Nobody}
    /\ pc \in [Client -> Steps \cup LockedSteps]
    /\ req \in [Client -> [op : Writes \cup Edits \cup Reads \cup {"none"}, ids : SUBSET Id,
                           con : Contract \cup {""}, ok : BOOLEAN, n : Nat]]
    /\ seen \in [Client -> [con : Contract \cup {""}, meta : Seq(Record), vecs : Seq(Record)]]
    /\ keep \in [Client -> SUBSET Nat] /\ new \in [Client -> Seq(Record)]
    /\ result \in [Client -> {"none", "refused", "unavailable", "read", "indexError",
                              "lock_timeout", "failed", "written"}]
    /\ calls \in 0..MaxCalls /\ crashes \in 0..MaxCrashes
    /\ stale \in [Client -> BOOLEAN]
    /\ \A c \in Client :
         /\ lock = c <=> pc[c] \in LockedSteps
         /\ temp[c] # Absent => pc[c] \in {"moveAside", "install", "dead"}
         /\ backup[c] # Absent => pc[c] \in {"install", "clean", "dead"}

\* The committed store is never lost from the disk: wherever a process is killed in
\* the replacement or a rename fails, it is in place or in a backup.  (A removal that
\* has begun commits that there is no store.)
CommittedSurvives ==
    Exists(last) => dir = last \/ last \in left \/ \E c \in Client : backup[c] = last

\* The two failures that are not undone: the rename that should put the backup back,
\* and a removal that fails half way, which leaves an incomplete directory.
NotPutBack == dir = Absent /\ last \in left
HalfRemoved == last = Absent /\ Exists(dir) /\ ~dir.whole

\* "preserves the last committed index": a write that is refused or fails leaves the
\* committed store in place.  Whenever nobody holds the lock and no process was killed,
\* the store is the committed one, but for the two failures.
FailureRestores ==
    lock = Nobody /\ crashes = 0 => dir = last \/ NotPutBack \/ HalfRemoved

\* A record id is stored once, whatever clients append at the same time.
UniqueIds == \A i, j \in DOMAIN dir.recs : dir.recs[i].id = dir.recs[j].id => i = j

StoreSurvives == CommittedSurvives /\ FailureRestores /\ UniqueIds

\* Whoever moved this store aside was killed before it put one back, or failed to.
LeftAside == last \in left \/ \E d \in Client : pc[d] = "dead" /\ backup[d] = last

\* A concurrent append never drops a record it was not asked to replace.
AppendKeeps(c) ==
    /\ pc[c] = "install" /\ pc'[c] = "clean" /\ ~LeftAside
    /\ req[c].op \in {"insert", "upsert", "update"}
    => \A r \in Range(last.recs) : r.id \in req[c].ids \/ r \in Range(last'.recs)

Removes(c) == {r \in Range(last.recs) : r.id \in req[c].ids}
Commits(c) == <<pc[c], pc'[c]>> \in {<<"install", "clean">>, <<"remove", "removing">>}

\* A deletion removes the requested records and changes no other, provided that no
\* commit came between its reads and its lock.
DeletionIsExact(c) ==
    Commits(c) /\ req[c].op = "delete" /\ ~stale[c] /\ ~LeftAside
    => Range(last'.recs) = Range(last.recs) \ Removes(c)

WriteIsExact(c) == AppendKeeps(c) /\ DeletionIsExact(c)
=============================================================================
