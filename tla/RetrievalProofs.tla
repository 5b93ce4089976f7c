---------------------------- MODULE RetrievalProofs ----------------------------
(***************************************************************************)
(* Safety of the vector stores of MCRetrieval, for any clients, record     *)
(* ids, embedding contracts, field values, calls and killed processes.     *)
(*                                                                         *)
(* The files of a FAISS store have an inductive invariant, FilesInv: where *)
(* the committed store is at every step of a replacement, and what a       *)
(* client is about to install has to do with it.  What a step of a client  *)
(* may do is Moves; MoveKeeps shows that it keeps the invariant, and a     *)
(* lemma for every action that the action is such a step.                  *)
(*                                                                         *)
(* A write of an adapter has WritesInv: the calls it has left are the last *)
(* of those it began with, and what the calls behind it have made of the   *)
(* collection is known (Reached).  A search has SearchInv; what its hits   *)
(* are is a matter of the n nearest of a finite set of positions.          *)
(***************************************************************************)
EXTENDS MCRetrieval, FiniteSetTheorems, TLAPS

------------------------------------------------------------------------------
(* base.py: the invariant *)

\* No record id twice.
Once(list) == \A i, j \in DOMAIN list : list[i].id = list[j].id => i = j

FilesOnce ==
    /\ Once(dir.recs)
    /\ \A c \in Client :
         Once(temp[c].recs) /\ Once(backup[c].recs) /\ Once(seen[c].meta) /\ Once(new[c])

\* A directory has a manifest of a contract, or is not there at all.
Formed(d) == d = Files!Absent \/ d.con \in Contract

FilesFormed ==
    /\ Formed(dir) /\ Formed(last)
    /\ \A c \in Client : Formed(temp[c]) /\ Formed(backup[c])

\* What a client is doing where it is, and for a deletion what it has read.
DoesAt(l, q, s) ==
    /\ q.op \in Files!Writes \cup {"update"} => q.con \in Contract
    /\ l \in {"metadata", "vectors"} => q.op \in Files!Edits \cup Files!Reads
    /\ l = "check" => q.op \in Files!Writes \cup {"update"}
    /\ l \in {"lock", "merge", "build"} => q.op \in Files!Writes \cup Files!Edits
    /\ l \in {"select", "metadata2", "vectors2", "deleteLock", "remove"} => q.op = "delete"
    /\ l \in {"vectors2", "lock", "merge", "build"} /\ q.op = "delete" => s.con \in Contract

FilesDo == \A c \in Client : DoesAt(pc[c], req[c], seen[c])

\* The directory d is the committed store, or stands for it while it is held aside by a
\* process that was killed or could not put it back, or was removed.
StandsIn(d) == d = last \/ Files!LeftAside \/ (last = Files!Absent /\ ~d.whole)

\* It is the committed store, or what the two failures that are not undone left of it.
InPlace(d) ==
    d = last \/ (d = Files!Absent /\ last \in left) \/ (last = Files!Absent /\ ~d.whole)

\* Nobody was killed so far.
Unharmed == crashes = 0

PlacedAt(c) ==
    /\ pc[c] \in {"merge", "build", "moveAside", "remove"} =>
          StandsIn(dir) /\ (Unharmed => InPlace(dir))
    /\ pc[c] = "install" =>
          dir = Files!Absent /\ StandsIn(backup[c]) /\ (Unharmed => InPlace(backup[c]))
    /\ pc[c] = "clean" => dir = last
    /\ pc[c] = "removing" => last = Files!Absent /\ ~dir.whole

FilesPlaced ==
    /\ \A c \in Client : PlacedAt(c)
    /\ lock = Nobody => StandsIn(dir) /\ (Unharmed => InPlace(dir))
    /\ Unharmed => \A c \in Client : pc[c] # "dead"

\* The records that a deletion or an append of some ids leaves alone.
Spared(list, ids) == {x \in Files!Range(list) : x.id \notin ids}

\* What an append is about to install has the records it was not asked to replace.
AppendsAt(c) ==
    req[c].op \in {"insert", "upsert", "update"} =>
        /\ pc[c] = "build" =>
              Files!LeftAside \/ Spared(last.recs, req[c].ids) \subseteq Files!Range(new[c])
        /\ pc[c] \in {"moveAside", "install"} =>
              Files!LeftAside \/ Spared(last.recs, req[c].ids) \subseteq Files!Range(temp[c].recs)

\* What a deletion has read, retained and written agrees with the store, unless a commit
\* came in between.
DeletesAt(c) ==
    req[c].op = "delete" /\ ~stale[c] =>
        /\ pc[c] \in {"vectors", "select", "metadata2", "vectors2", "lock", "deleteLock",
                      "merge", "build", "moveAside", "remove"} => dir.whole
        /\ pc[c] \in {"vectors", "select", "vectors2"} => seen[c].meta = dir.recs
        /\ pc[c] \in {"metadata2", "vectors2"} =>
              keep[c] = {i \in DOMAIN dir.recs : dir.recs[i].id \notin req[c].ids}
        /\ pc[c] \in {"lock", "merge", "build"} =>
              Files!Range(new[c]) = Spared(dir.recs, req[c].ids)
        /\ pc[c] \in {"deleteLock", "remove"} => Spared(dir.recs, req[c].ids) = {}
        /\ pc[c] = "moveAside" => Files!Range(temp[c].recs) = Spared(dir.recs, req[c].ids)
        /\ pc[c] = "install" =>
              Files!LeftAside \/ Files!Range(temp[c].recs) = Spared(last.recs, req[c].ids)

FilesWrite == \A c \in Client : AppendsAt(c) /\ DeletesAt(c)

FilesInv ==
    /\ Files!TypeOK /\ FilesOnce /\ FilesFormed /\ FilesDo /\ FilesPlaced /\ FilesWrite

------------------------------------------------------------------------------
(* The sequences of records *)

LEMMA CountsAreCounts == \A S : Files!Cardinality(S) = Cardinality(S)
BY DEF Files!Cardinality, Cardinality

LEMMA ListingsList ==
    ASSUME NEW S, IsFiniteSet(S), NEW s \in Files!Listings(S)
    PROVE  /\ Len(s) = Cardinality(S) /\ s \in Seq(S) /\ DOMAIN s = 1..Len(s)
           /\ \A i, j \in DOMAIN s : s[i] = s[j] => i = j
           /\ \A x \in S : \E i \in DOMAIN s : s[i] = x
           /\ \A i \in DOMAIN s : s[i] \in S
<1>1. Cardinality(S) \in Nat
    BY FS_CardinalityType
<1>2. s \in [1..Cardinality(S) -> S]
    BY CountsAreCounts DEF Files!Listings, Files!Bijection, Files!Injection, Files!Surjection
<1>3. s \in Seq(S) /\ Len(s) = Cardinality(S)
    BY <1>1, <1>2
<1>4. \A i, j \in DOMAIN s : s[i] = s[j] => i = j
    BY DEF Files!Listings, Files!Bijection, Files!Injection, Files!IsInjective
<1>5. \A x \in S : \E i \in DOMAIN s : s[i] = x
    BY <1>2, CountsAreCounts DEF Files!Listings, Files!Bijection, Files!Surjection
<1>. QED
    BY <1>1, <1>2, <1>3, <1>4, <1>5

\* The points of a write are records of its ids, each id once.
LEMMA PointsAreRecords ==
    ASSUME NEW ids \in SUBSET Id, NEW n \in Nat, NEW p \in Files!Points(ids, n)
    PROVE  p \in Seq(Files!Record) /\ Once(p) /\ \A i \in DOMAIN p : p[i].id \in ids
<1>1. IsFiniteSet(ids)
    BY IdsAssumption, FS_Subset
<1>2. PICK s \in Files!Listings(ids) :
          p = [i \in DOMAIN s |-> [id |-> s[i], meta |-> n, vec |-> n]]
    BY DEF Files!Points
<1>3. /\ Len(s) \in Nat /\ DOMAIN s = 1..Len(s)
      /\ \A i, j \in DOMAIN s : s[i] = s[j] => i = j
      /\ \A i \in DOMAIN s : s[i] \in ids
    BY <1>1, <1>2, ListingsList
<1>4. \A i \in DOMAIN s : p[i] \in Files!Record /\ p[i].id = s[i]
    BY <1>2, <1>3 DEF Files!Record
<1>5. DOMAIN p = 1..Len(s)
    BY <1>2, <1>3
<1>6. p \in Seq(Files!Record)
    BY <1>2, <1>3, <1>4, <1>5
<1>. QED
    BY <1>3, <1>4, <1>5, <1>6 DEF Once

LEMMA PositionsAreFinite ==
    ASSUME NEW S, NEW lst \in Seq(S), NEW K \in SUBSET DOMAIN lst
    PROVE  IsFiniteSet(K)
<1>1. DOMAIN lst = 1..Len(lst) /\ Len(lst) \in Int /\ 1 \in Int
    OBVIOUS
<1>2. IsFiniteSet(1..Len(lst))
    BY <1>1, FS_Interval
<1>. QED
    BY <1>1, <1>2, FS_Subset

\* Records at some of the positions of a sequence, in their order.
LEMMA PickedAre ==
    ASSUME NEW lst \in Seq(Files!Record), NEW K \in SUBSET DOMAIN lst,
           NEW at \in Files!Ascending(K), NEW o, o = [j \in DOMAIN at |-> lst[at[j]]]
    PROVE  /\ o \in Seq(Files!Record)
           /\ Once(lst) => Once(o)
           /\ Files!Range(o) = {lst[i] : i \in K}
<1>1. IsFiniteSet(K)
    BY PositionsAreFinite
<1>2. at \in Files!Listings(K)
    BY DEF Files!Ascending
<1>3. /\ Len(at) \in Nat /\ DOMAIN at = 1..Len(at)
      /\ \A i, j \in DOMAIN at : at[i] = at[j] => i = j
      /\ \A x \in K : \E i \in DOMAIN at : at[i] = x
      /\ \A i \in DOMAIN at : at[i] \in K
    BY <1>1, <1>2, ListingsList
<1>4. o \in Seq(Files!Record)
    BY <1>3
<1>5. DOMAIN o = DOMAIN at /\ \A j \in DOMAIN at : o[j] = lst[at[j]]
    OBVIOUS
<1>6. Once(lst) => Once(o)
    BY <1>3, <1>5 DEF Once
<1>7. Files!Range(o) = {lst[i] : i \in K}
    BY <1>3, <1>5 DEF Files!Range
<1>. QED
    BY <1>4, <1>6, <1>7

LEMMA OthersAreSpared ==
    ASSUME NEW lst \in Seq(Files!Record), NEW ids, NEW o \in Files!Others(lst, ids)
    PROVE  /\ o \in Seq(Files!Record)
           /\ Once(lst) => Once(o)
           /\ Files!Range(o) = Spared(lst, ids)
<1> DEFINE K == {i \in DOMAIN lst : lst[i].id \notin ids}
<1>1. PICK at \in Files!Ascending(K) : o = [j \in DOMAIN at |-> lst[at[j]]]
    BY DEF Files!Others
<1>2. /\ o \in Seq(Files!Record)
      /\ Once(lst) => Once(o)
      /\ Files!Range(o) = {lst[i] : i \in K}
    BY <1>1, PickedAre
<1>3. {lst[i] : i \in K} = Spared(lst, ids)
    BY DEF Spared, Files!Range
<1>. QED
    BY <1>2, <1>3

\* A sequence of records after one of other ids.
LEMMA JoinedAre ==
    ASSUME NEW o \in Seq(Files!Record), NEW p \in Seq(Files!Record), Once(o), Once(p), NEW ids,
           \A i \in DOMAIN o : o[i].id \notin ids, \A i \in DOMAIN p : p[i].id \in ids
    PROVE  o \o p \in Seq(Files!Record) /\ Once(o \o p) /\ Files!Range(o) \subseteq Files!Range(o \o p)
<1>1. /\ o \o p \in Seq(Files!Record) /\ Len(o \o p) = Len(o) + Len(p)
      /\ DOMAIN o = 1..Len(o) /\ DOMAIN p = 1..Len(p) /\ DOMAIN (o \o p) = 1..(Len(o) + Len(p))
      /\ Len(o) \in Nat /\ Len(p) \in Nat
    OBVIOUS
<1>2. \A i \in DOMAIN o : i \in DOMAIN (o \o p) /\ (o \o p)[i] = o[i]
    BY <1>1
<1>3. \A i \in DOMAIN (o \o p) :
          i \in DOMAIN o \/ (i - Len(o) \in DOMAIN p /\ (o \o p)[i] = p[i - Len(o)])
    BY <1>1
<1>4. Once(o \o p)
  <2> SUFFICES ASSUME NEW i \in DOMAIN (o \o p), NEW j \in DOMAIN (o \o p),
                      (o \o p)[i].id = (o \o p)[j].id
               PROVE  i = j
    BY DEF Once
  <2>1. CASE i \in DOMAIN o /\ j \in DOMAIN o
    BY <2>1, <1>2 DEF Once
  <2>2. CASE i \notin DOMAIN o /\ j \notin DOMAIN o
    <3>1. /\ i - Len(o) \in DOMAIN p /\ (o \o p)[i] = p[i - Len(o)]
          /\ j - Len(o) \in DOMAIN p /\ (o \o p)[j] = p[j - Len(o)]
      BY <2>2, <1>3
    <3>2. i - Len(o) = j - Len(o)
      BY <3>1 DEF Once
    <3>. QED
      BY <3>2, <1>1
  <2>3. CASE i \in DOMAIN o /\ j \notin DOMAIN o
    BY <2>3, <1>2, <1>3
  <2>4. CASE i \notin DOMAIN o /\ j \in DOMAIN o
    BY <2>4, <1>2, <1>3
  <2>. QED
    BY <2>1, <2>2, <2>3, <2>4
<1>5. Files!Range(o) \subseteq Files!Range(o \o p)
    BY <1>2 DEF Files!Range
<1>. QED
    BY <1>1, <1>4, <1>5

\* What a deletion retains, of metadata and vectors that it read one after the other.
LEMMA RetainedAre ==
    ASSUME NEW meta \in Seq(Files!Record), NEW vecs \in Seq(Files!Record),
           NEW K \in SUBSET (DOMAIN meta \cap DOMAIN vecs), NEW at \in Files!Ascending(K),
           NEW o, o = [j \in DOMAIN at |-> Files!RecordAt(meta, vecs, at[j])], Once(meta)
    PROVE  /\ o \in Seq(Files!Record) /\ Once(o)
           /\ meta = vecs => Files!Range(o) = {vecs[i] : i \in K}
<1>1. IsFiniteSet(K)
  <2>1. K \in SUBSET DOMAIN meta
    OBVIOUS
  <2>. QED
    BY <2>1, PositionsAreFinite
<1>2. at \in Files!Listings(K)
    BY DEF Files!Ascending
<1>3. /\ Len(at) \in Nat /\ DOMAIN at = 1..Len(at)
      /\ \A i, j \in DOMAIN at : at[i] = at[j] => i = j
      /\ \A x \in K : \E i \in DOMAIN at : at[i] = x
      /\ \A i \in DOMAIN at : at[i] \in K
    BY <1>1, <1>2, ListingsList
<1>4. ASSUME NEW i \in K
     PROVE  /\ Files!RecordAt(meta, vecs, i) \in Files!Record
            /\ Files!RecordAt(meta, vecs, i).id = meta[i].id
  <2>1. meta[i] \in Files!Record /\ vecs[i] \in Files!Record
    OBVIOUS
  <2>. QED
    BY <2>1 DEF Files!RecordAt, Files!Record
<1>5. DOMAIN o = DOMAIN at /\ \A j \in DOMAIN at : o[j] = Files!RecordAt(meta, vecs, at[j])
    OBVIOUS
<1>6. o \in Seq(Files!Record)
    BY <1>3, <1>4, <1>5
<1>7. Once(o)
    BY <1>3, <1>4, <1>5 DEF Once
<1>8. ASSUME meta = vecs PROVE Files!Range(o) = {vecs[i] : i \in K}
  <2>1. ASSUME NEW i \in K PROVE Files!RecordAt(meta, vecs, i) = vecs[i]
    <3>1. vecs[i] \in Files!Record
      OBVIOUS
    <3>2. vecs[i] = [id |-> vecs[i].id, meta |-> vecs[i].meta, vec |-> vecs[i].vec]
      BY <3>1 DEF Files!Record
    <3>. QED
      BY <3>2, <1>8 DEF Files!RecordAt
  <2>. QED
    BY <2>1, <1>3, <1>5 DEF Files!Range
<1>. QED
    BY <1>6, <1>7, <1>8
------------------------------------------------------------------------------
(* A client moves alone *)

FileLabel   == Files!Steps \cup Files!LockedSteps
FileRequest == [op : Files!Writes \cup Files!Edits \cup Files!Reads \cup {"none"}, ids : SUBSET Id,
                con : Contract \cup {""}, ok : BOOLEAN, n : Nat]
FileRead    == [con : Contract \cup {""}, meta : Seq(Files!Record), vecs : Seq(Files!Record)]
FileResult  == {"none", "refused", "unavailable", "read", "indexError", "lock_timeout", "failed",
                "written"}

\* What a step of c does to the variables of the clients: those of c have their types, and
\* no record twice.
MovesAlone(c) ==
    /\ pc[c] # "dead" /\ pc'[c] \in FileLabel \ {"dead"}
    /\ pc' = [pc EXCEPT ![c] = pc'[c]]
    /\ req' = [req EXCEPT ![c] = req'[c]] /\ req'[c] \in FileRequest
    /\ seen' = [seen EXCEPT ![c] = seen'[c]] /\ seen'[c] \in FileRead /\ Once(seen'[c].meta)
    /\ keep' = [keep EXCEPT ![c] = keep'[c]] /\ keep'[c] \in SUBSET Nat
    /\ new' = [new EXCEPT ![c] = new'[c]] /\ new'[c] \in Seq(Files!Record) /\ Once(new'[c])
    /\ result' = [result EXCEPT ![c] = result'[c]] /\ result'[c] \in FileResult
    /\ temp' = [temp EXCEPT ![c] = temp'[c]] /\ temp'[c] \in Files!Directory
    /\ Formed(temp'[c]) /\ Once(temp'[c].recs)
    /\ temp'[c] # Files!Absent => pc'[c] \in {"moveAside", "install"}
    /\ backup' = [backup EXCEPT ![c] = backup'[c]] /\ backup'[c] \in Files!Directory
    /\ Formed(backup'[c]) /\ Once(backup'[c].recs)
    /\ backup'[c] # Files!Absent => pc'[c] \in {"install", "clean"}
    /\ stale' \in [Client -> BOOLEAN] /\ \A d \in Client \ {c} : stale[d] => stale'[d]
    /\ calls' \in 0..MaxCalls /\ crashes' = crashes

\* What it does to the store: only the client with the lock changes it, and outdates those
\* who have read it.
MovesStore(c) ==
    /\ dir' \in Files!Directory /\ Formed(dir') /\ Once(dir'.recs)
    /\ last' \in Files!Directory /\ Formed(last') /\ left' \subseteq Files!Directory
    /\ \/ UNCHANGED <<dir, last, backup, left>>
       \/ /\ lock = c
          /\ \/ UNCHANGED dir
             \/ ~dir.whole
             \/ \A d \in Client \ {c} : pc[d] # "idle" => stale'[d]
    /\ \/ lock' = lock /\ (lock = c <=> pc'[c] \in Files!LockedSteps)
       \/ lock = Nobody /\ lock' = c /\ pc'[c] \in Files!LockedSteps
       \/ lock = c /\ lock' = Nobody /\ pc'[c] \notin Files!LockedSteps
    /\ (lock = Nobody => StandsIn(dir) /\ (Unharmed => InPlace(dir)))'

Moves(c) ==
    /\ MovesAlone(c) /\ MovesStore(c)
    /\ (DoesAt(pc[c], req[c], seen[c]) /\ PlacedAt(c) /\ AppendsAt(c) /\ DeletesAt(c))'

LEMMA MoveKeeps ==
    ASSUME FilesInv, NEW c \in Client, Moves(c)
    PROVE  FilesInv'
<1>1. MovesAlone(c) /\ MovesStore(c)
    BY DEF Moves
<1>2. \A d \in Client \ {c} :
          /\ pc'[d] = pc[d] /\ req'[d] = req[d] /\ seen'[d] = seen[d] /\ keep'[d] = keep[d]
          /\ new'[d] = new[d] /\ temp'[d] = temp[d] /\ backup'[d] = backup[d]
  <2>1. /\ DOMAIN pc = Client /\ DOMAIN req = Client /\ DOMAIN seen = Client /\ DOMAIN keep = Client
        /\ DOMAIN new = Client /\ DOMAIN temp = Client /\ DOMAIN backup = Client
    BY DEF FilesInv, Files!TypeOK
  <2>2. /\ pc' = [pc EXCEPT ![c] = pc'[c]] /\ req' = [req EXCEPT ![c] = req'[c]]
        /\ seen' = [seen EXCEPT ![c] = seen'[c]] /\ keep' = [keep EXCEPT ![c] = keep'[c]]
        /\ new' = [new EXCEPT ![c] = new'[c]] /\ temp' = [temp EXCEPT ![c] = temp'[c]]
        /\ backup' = [backup EXCEPT ![c] = backup'[c]]
    BY <1>1 DEF MovesAlone
  <2>. QED
    BY <2>1, <2>2
<1>3. Files!TypeOK'
  <2>1. /\ dir' \in Files!Directory /\ last' \in Files!Directory
        /\ left' \subseteq Files!Directory
        /\ lock' \in Client \cup {Nobody} /\ calls' \in 0..MaxCalls /\ crashes' \in 0..MaxCrashes
        /\ stale' \in [Client -> BOOLEAN]
    <3>1. lock \in Client \cup {Nobody} /\ crashes \in 0..MaxCrashes
      BY DEF FilesInv, Files!TypeOK
    <3>2. calls' \in 0..MaxCalls /\ crashes' = crashes /\ stale' \in [Client -> BOOLEAN]
      BY <1>1 DEF MovesAlone
    <3>3. /\ dir' \in Files!Directory /\ last' \in Files!Directory /\ left' \subseteq Files!Directory
          /\ lock' \in {lock, c, Nobody}
      BY <1>1 DEF MovesStore
    <3>. QED
      BY <3>1, <3>2, <3>3
  <2>2. temp' \in [Client -> Files!Directory] /\ backup' \in [Client -> Files!Directory]
    <3>1. temp \in [Client -> Files!Directory] /\ backup \in [Client -> Files!Directory]
      BY DEF FilesInv, Files!TypeOK
    <3>2. temp' = [temp EXCEPT ![c] = temp'[c]] /\ temp'[c] \in Files!Directory
      BY <1>1 DEF MovesAlone
    <3>3. backup' = [backup EXCEPT ![c] = backup'[c]] /\ backup'[c] \in Files!Directory
      BY <1>1 DEF MovesAlone
    <3>. QED
      BY <3>1, <3>2, <3>3
  <2>3. pc' \in [Client -> Files!Steps \cup Files!LockedSteps]
    <3>1. pc \in [Client -> FileLabel]
      BY DEF FilesInv, Files!TypeOK, FileLabel
    <3>2. pc' = [pc EXCEPT ![c] = pc'[c]] /\ pc'[c] \in FileLabel
      BY <1>1 DEF MovesAlone
    <3>3. pc' \in [Client -> FileLabel]
      BY ONLY <3>1, <3>2
    <3>. QED
      BY <3>3 DEF FileLabel
  <2>4. req' \in [Client -> FileRequest] /\ seen' \in [Client -> FileRead]
    <3>1. req \in [Client -> FileRequest] /\ seen \in [Client -> FileRead]
      BY DEF FilesInv, Files!TypeOK, FileRequest, FileRead
    <3>2. /\ req' = [req EXCEPT ![c] = req'[c]] /\ req'[c] \in FileRequest
          /\ seen' = [seen EXCEPT ![c] = seen'[c]] /\ seen'[c] \in FileRead
      BY <1>1 DEF MovesAlone
    <3>. QED
      BY <3>1, <3>2
  <2>5. keep' \in [Client -> SUBSET Nat] /\ new' \in [Client -> Seq(Files!Record)]
    <3>1. keep \in [Client -> SUBSET Nat] /\ new \in [Client -> Seq(Files!Record)]
      BY DEF FilesInv, Files!TypeOK
    <3>2. /\ keep' = [keep EXCEPT ![c] = keep'[c]] /\ keep'[c] \in SUBSET Nat
          /\ new' = [new EXCEPT ![c] = new'[c]] /\ new'[c] \in Seq(Files!Record)
      BY <1>1 DEF MovesAlone
    <3>3. keep' \in [Client -> SUBSET Nat]
      BY ONLY <3>1, <3>2
    <3>4. new' \in [Client -> Seq(Files!Record)]
      BY ONLY <3>1, <3>2
    <3>. QED
      BY <3>3, <3>4
  <2>6. result' \in [Client -> FileResult]
    <3>1. result \in [Client -> FileResult]
      BY DEF FilesInv, Files!TypeOK, FileResult
    <3>2. result' = [result EXCEPT ![c] = result'[c]] /\ result'[c] \in FileResult
      BY <1>1 DEF MovesAlone
    <3>. QED
      BY ONLY <3>1, <3>2
  <2>7. \A d \in Client :
          /\ lock' = d <=> pc'[d] \in Files!LockedSteps
          /\ temp'[d] # Files!Absent => pc'[d] \in {"moveAside", "install", "dead"}
          /\ backup'[d] # Files!Absent => pc'[d] \in {"install", "clean", "dead"}
    <3> SUFFICES ASSUME NEW d \in Client
                 PROVE  /\ lock' = d <=> pc'[d] \in Files!LockedSteps
                        /\ temp'[d] # Files!Absent => pc'[d] \in {"moveAside", "install", "dead"}
                        /\ backup'[d] # Files!Absent => pc'[d] \in {"install", "clean", "dead"}
      OBVIOUS
    <3>1. /\ lock = d <=> pc[d] \in Files!LockedSteps
          /\ temp[d] # Files!Absent => pc[d] \in {"moveAside", "install", "dead"}
          /\ backup[d] # Files!Absent => pc[d] \in {"install", "clean", "dead"}
      BY DEF FilesInv, Files!TypeOK
    <3>2. lock' = d <=> pc'[d] \in Files!LockedSteps
      BY <3>1, <1>1, <1>2, ClientsAssumption DEF MovesStore
    <3>3. CASE d = c
      BY <3>2, <3>3, <1>1 DEF MovesAlone
    <3>4. CASE d # c
      BY <3>1, <3>2, <3>4, <1>2
    <3>. QED
      BY <3>3, <3>4
  <2>. QED
    BY <2>1, <2>2, <2>3, <2>4, <2>5, <2>6, <2>7 DEF Files!TypeOK, FileRequest, FileRead, FileResult
<1>4. FilesOnce' /\ FilesFormed'
    BY <1>1, <1>2 DEF FilesInv, FilesOnce, FilesFormed, MovesAlone, MovesStore
<1>5. FilesDo'
    BY <1>2 DEF FilesInv, FilesDo, Moves
<1>6. \A d \in Client \ {c} : pc[d] \in Files!LockedSteps => UNCHANGED <<dir, last, backup, left>>
    BY <1>1 DEF FilesInv, Files!TypeOK, MovesStore
<1>7. ASSUME UNCHANGED <<dir, last, backup, left>> PROVE Files!LeftAside' <=> Files!LeftAside
    BY <1>1, <1>2, <1>7 DEF Files!LeftAside, MovesAlone
<1>8. FilesPlaced'
  <2>1. \A d \in Client \ {c} : PlacedAt(d)'
    <3> SUFFICES ASSUME NEW d \in Client \ {c} PROVE PlacedAt(d)'
      OBVIOUS
    <3>1. CASE pc[d] \in Files!LockedSteps
      BY <3>1, <1>1, <1>2, <1>6, <1>7
      DEF FilesInv, FilesPlaced, PlacedAt, StandsIn, InPlace, Unharmed, MovesAlone
    <3>2. CASE pc[d] \notin Files!LockedSteps
      BY <3>2, <1>2 DEF PlacedAt, Files!LockedSteps
    <3>. QED
      BY <3>1, <3>2
  <2>2. Unharmed' => \A d \in Client : pc'[d] # "dead"
    BY <1>1, <1>2 DEF FilesInv, FilesPlaced, MovesAlone, Unharmed
  <2>. QED
    BY <1>1, <2>1, <2>2 DEF FilesPlaced, Moves, MovesStore
<1>9. FilesWrite'
  <2> SUFFICES ASSUME NEW d \in Client \ {c} PROVE AppendsAt(d)' /\ DeletesAt(d)'
    BY DEF FilesWrite, Moves
  <2>1. AppendsAt(d)'
    <3>1. AppendsAt(d)
      BY DEF FilesInv, FilesWrite
    <3>2. CASE pc[d] \in Files!LockedSteps
      BY <3>1, <3>2, <1>2, <1>6, <1>7 DEF AppendsAt
    <3>3. CASE pc[d] \notin Files!LockedSteps
      BY <3>3, <1>2 DEF AppendsAt, Files!LockedSteps
    <3>. QED
      BY <3>2, <3>3
  <2>2. DeletesAt(d)'
    <3>1. DeletesAt(d) /\ (stale[d] => stale'[d])
      BY <1>1 DEF FilesInv, FilesWrite, MovesAlone
    <3>2. CASE UNCHANGED <<dir, last, backup, left>>
      BY <3>1, <3>2, <1>2, <1>7 DEF DeletesAt
    <3>3. CASE ~UNCHANGED <<dir, last, backup, left>>
      <4>1. pc[d] \notin Files!LockedSteps
        BY <3>3, <1>6
      <4>2. pc[d] # "install"
        BY <4>1 DEF Files!LockedSteps
      <4>3. UNCHANGED dir \/ ~dir.whole \/ (pc[d] # "idle" => stale'[d])
        BY <3>3, <1>1 DEF MovesStore
      <4>. QED
        BY <3>1, <4>2, <4>3, <1>2 DEF DeletesAt
    <3>. QED
      BY <3>2, <3>3
  <2>. QED
    BY <2>1, <2>2
<1>. QED
    BY <1>3, <1>4, <1>5, <1>8, <1>9 DEF FilesInv

------------------------------------------------------------------------------
(* The actions of a client without the lock *)

\* What holds of one client.
LEMMA ClientFacts ==
    ASSUME FilesInv, NEW c \in Client
    PROVE  /\ pc[c] \in FileLabel /\ req[c] \in FileRequest
           /\ seen[c] \in FileRead /\ Once(seen[c].meta)
           /\ keep[c] \in SUBSET Nat /\ new[c] \in Seq(Files!Record) /\ Once(new[c])
           /\ result[c] \in FileResult
           /\ temp[c] \in Files!Directory /\ Formed(temp[c]) /\ Once(temp[c].recs)
           /\ temp[c] # Files!Absent => pc[c] \in {"moveAside", "install", "dead"}
           /\ backup[c] \in Files!Directory /\ Formed(backup[c]) /\ Once(backup[c].recs)
           /\ backup[c] # Files!Absent => pc[c] \in {"install", "clean", "dead"}
           /\ lock = c <=> pc[c] \in Files!LockedSteps
<1>1. /\ pc[c] \in FileLabel /\ req[c] \in FileRequest
      /\ seen[c] \in FileRead /\ result[c] \in FileResult
    BY DEF FilesInv, Files!TypeOK, FileLabel, FileRequest, FileRead, FileResult
<1>2. /\ keep[c] \in SUBSET Nat /\ new[c] \in Seq(Files!Record)
      /\ temp[c] \in Files!Directory /\ backup[c] \in Files!Directory
    BY DEF FilesInv, Files!TypeOK
<1>3. /\ temp[c] # Files!Absent => pc[c] \in {"moveAside", "install", "dead"}
      /\ backup[c] # Files!Absent => pc[c] \in {"install", "clean", "dead"}
      /\ lock = c <=> pc[c] \in Files!LockedSteps
    BY DEF FilesInv, Files!TypeOK
<1>4. /\ Once(seen[c].meta) /\ Once(new[c]) /\ Once(temp[c].recs) /\ Once(backup[c].recs)
      /\ Formed(temp[c]) /\ Formed(backup[c])
    BY DEF FilesInv, FilesOnce, FilesFormed
<1>. QED
    BY <1>1, <1>2, <1>3, <1>4

\* A variable that a step leaves alone.
LEMMA SameElsewhere ==
    ASSUME FilesInv, NEW c \in Client
    PROVE  /\ pc = [pc EXCEPT ![c] = pc[c]] /\ req = [req EXCEPT ![c] = req[c]]
           /\ seen = [seen EXCEPT ![c] = seen[c]] /\ keep = [keep EXCEPT ![c] = keep[c]]
           /\ new = [new EXCEPT ![c] = new[c]] /\ result = [result EXCEPT ![c] = result[c]]
           /\ temp = [temp EXCEPT ![c] = temp[c]] /\ backup = [backup EXCEPT ![c] = backup[c]]
           /\ stale \in [Client -> BOOLEAN] /\ calls \in 0..MaxCalls
<1>1. /\ pc \in [Client -> Files!Steps \cup Files!LockedSteps] /\ keep \in [Client -> SUBSET Nat]
      /\ new \in [Client -> Seq(Files!Record)] /\ stale \in [Client -> BOOLEAN]
      /\ temp \in [Client -> Files!Directory] /\ backup \in [Client -> Files!Directory]
      /\ calls \in 0..MaxCalls
    BY DEF FilesInv, Files!TypeOK
<1>2. req \in [Client -> FileRequest] /\ seen \in [Client -> FileRead] /\ result \in [Client -> FileResult]
    BY DEF FilesInv, Files!TypeOK, FileRequest, FileRead, FileResult
<1>. QED
    BY <1>1, <1>2

LEMMA AsideStays ==
    ASSUME FilesInv, NEW c \in Client, MovesAlone(c), UNCHANGED <<last, backup, left>>
    PROVE  Files!LeftAside' <=> Files!LeftAside
<1>1. DOMAIN pc = Client /\ pc' = [pc EXCEPT ![c] = pc'[c]] /\ pc[c] # "dead" /\ pc'[c] # "dead"
    BY DEF FilesInv, Files!TypeOK, MovesAlone
<1>. QED
    BY <1>1 DEF Files!LeftAside

\* A client that has not the lock reads, or only computes.
LEMMA ReaderMoves ==
    ASSUME FilesInv, NEW c \in Client, MovesAlone(c), UNCHANGED <<dir, temp, backup, left, lock, last>>,
           pc[c] \notin Files!LockedSteps, pc'[c] \notin Files!LockedSteps,
           DoesAt(pc'[c], req'[c], seen'[c]), DeletesAt(c)'
    PROVE  Moves(c)
<1>1. /\ dir \in Files!Directory /\ last \in Files!Directory /\ Formed(dir) /\ Formed(last)
      /\ Once(dir.recs) /\ lock # c /\ left \subseteq Files!Directory
    BY ClientFacts DEF FilesInv, Files!TypeOK, FilesFormed, FilesOnce
<1>2. (lock = Nobody => StandsIn(dir) /\ (Unharmed => InPlace(dir)))'
    BY AsideStays DEF FilesInv, FilesPlaced, StandsIn, InPlace, Unharmed, MovesAlone
<1>3. MovesStore(c)
    BY <1>1, <1>2 DEF MovesStore
<1>4. PlacedAt(c)' /\ AppendsAt(c)'
    BY DEF PlacedAt, AppendsAt, Files!LockedSteps
<1>. QED
    BY <1>3, <1>4 DEF Moves

\* What an operation of the client is at the step where it ends, or has not begun.
LEMMA NothingOnHand ==
    ASSUME NEW c \in Client, pc'[c] \in {"idle", "check", "return", "missing", "metadata"}
    PROVE  DeletesAt(c)'
BY DEF DeletesAt

LEMMA ClientCalls ==
    ASSUME FilesInv, NEW c \in Client, Files!Call(c)
    PROVE  Moves(c)
<1> DEFINE l == IF req'[c].op \in Files!Writes THEN "check" ELSE "metadata"
<1>1. PICK r \in Files!Request(calls + 1) : req' = [req EXCEPT ![c] = r]
    BY DEF Files!Call
<1>2. calls \in Nat /\ calls' \in 0..MaxCalls
  <2>1. calls \in 0..MaxCalls
    BY SameElsewhere
  <2>2. calls < MaxCalls /\ calls' = calls + 1
    BY DEF Files!Call
  <2>. QED
    BY <2>1, <2>2, BoundsAssumption
<1>3. /\ r \in FileRequest /\ (r.op \in Files!Writes \cup {"update"} => r.con \in Contract)
      /\ r.op \in Files!Writes \cup Files!Edits \cup Files!Reads
  <2> DEFINE n == calls + 1
  <2>1. n \in Nat
    BY <1>2
  <2>2. CASE r \in [op : Files!Writes, ids : SUBSET Id \ {{}}, con : Contract, ok : BOOLEAN, n : {n}]
    BY <2>1, <2>2 DEF FileRequest
  <2>3. CASE r \in [op : {"update"}, ids : SUBSET Id \ {{}}, con : Contract, ok : {TRUE}, n : {n}]
    BY <2>1, <2>3 DEF FileRequest, Files!Edits
  <2>4. CASE r \in [op : {"delete"}, ids : SUBSET Id \ {{}}, con : {""}, ok : {TRUE}, n : {n}]
    BY <2>1, <2>4 DEF FileRequest, Files!Edits, Files!Writes
  <2>5. CASE r \in [op : Files!Reads, ids : {{}}, con : {""}, ok : {TRUE}, n : {n}]
    BY <2>1, <2>5 DEF FileRequest, Files!Reads, Files!Writes
  <2>. QED
    BY <2>2, <2>3, <2>4, <2>5 DEF Files!Request
<1>4. req'[c] = r
    BY <1>1 DEF FilesInv, Files!TypeOK
<1>5. /\ pc[c] = "idle" /\ pc' = [pc EXCEPT ![c] = l]
      /\ seen' = [seen EXCEPT ![c] = Files!NoRead] /\ keep' = [keep EXCEPT ![c] = {}]
      /\ new' = [new EXCEPT ![c] = <<>>] /\ result' = [result EXCEPT ![c] = "none"]
      /\ stale' = [stale EXCEPT ![c] = FALSE]
      /\ UNCHANGED <<dir, temp, backup, left, lock, crashes, last>>
    BY DEF Files!Call, Files!Goto, Files!disk
<1>6. /\ pc'[c] = l /\ seen'[c] = Files!NoRead /\ keep'[c] = {} /\ new'[c] = <<>>
      /\ result'[c] = "none"
    BY <1>5 DEF FilesInv, Files!TypeOK
<1> HIDE DEF l
<1>7. l \in {"check", "metadata"} /\ (l = "check" <=> r.op \in Files!Writes)
    BY <1>4 DEF l
<1>8. Files!NoRead \in FileRead /\ Once(Files!NoRead.meta) /\ <<>> \in Seq(Files!Record) /\ Once(<<>>)
    BY DEF Files!NoRead, FileRead, Once
<1>9. MovesAlone(c)
  <2>1. /\ stale' \in [Client -> BOOLEAN]
        /\ \A d \in Client \ {c} : stale[d] => stale'[d]
    BY <1>5, SameElsewhere
  <2>2. l \in FileLabel \ {"dead"} /\ "none" \in FileResult
    BY <1>7 DEF FileLabel, Files!Steps, FileResult
  <2>. QED
    BY <1>1, <1>2, <1>3, <1>4, <1>5, <1>6, <1>7, <1>8, <2>1, <2>2, ClientFacts, SameElsewhere DEF MovesAlone
<1>. QED
    BY <1>3, <1>4, <1>5, <1>6, <1>7, <1>9, ReaderMoves, NothingOnHand DEF DoesAt, Files!LockedSteps

\* A client that goes from step to step before it has the lock.
LEMMA ReaderGoes ==
    ASSUME FilesInv, NEW c \in Client, NEW l, NEW s, NEW K, NEW n, NEW o,
           pc[c] \notin Files!LockedSteps \cup {"dead"}, l \in Files!Steps \ {"dead"},
           pc' = [pc EXCEPT ![c] = l],
           seen' = [seen EXCEPT ![c] = s], s \in FileRead, Once(s.meta),
           keep' = [keep EXCEPT ![c] = K], K \in SUBSET Nat,
           new' = [new EXCEPT ![c] = n], n \in Seq(Files!Record), Once(n),
           result' = [result EXCEPT ![c] = o], o \in FileResult,
           UNCHANGED <<dir, temp, backup, left, lock, last, stale, calls, crashes, req>>,
           DoesAt(l, req[c], s), DeletesAt(c)'
    PROVE  Moves(c)
<1>1. pc'[c] = l /\ seen'[c] = s /\ keep'[c] = K /\ new'[c] = n /\ result'[c] = o
    BY DEF FilesInv, Files!TypeOK
<1>2. l \in FileLabel \ {"dead"} /\ l \notin Files!LockedSteps
    BY DEF FileLabel, Files!Steps, Files!LockedSteps
<1>3. /\ req' = [req EXCEPT ![c] = req'[c]] /\ req'[c] \in FileRequest /\ req'[c] = req[c]
      /\ temp' = [temp EXCEPT ![c] = temp'[c]] /\ temp'[c] \in Files!Directory
      /\ Formed(temp'[c]) /\ Once(temp'[c].recs) /\ temp'[c] = Files!Absent
      /\ backup' = [backup EXCEPT ![c] = backup'[c]] /\ backup'[c] \in Files!Directory
      /\ Formed(backup'[c]) /\ Once(backup'[c].recs) /\ backup'[c] = Files!Absent
      /\ stale' \in [Client -> BOOLEAN] /\ calls' \in 0..MaxCalls
  <2>1. temp[c] = Files!Absent /\ backup[c] = Files!Absent
    BY ClientFacts DEF Files!LockedSteps
  <2>. QED
    BY <2>1, ClientFacts, SameElsewhere
<1>4. MovesAlone(c)
    BY <1>1, <1>2, <1>3 DEF MovesAlone
<1>. QED
    BY <1>1, <1>2, <1>3, <1>4, ReaderMoves

LEMMA RequestChecked ==
    ASSUME FilesInv, NEW c \in Client, Files!CheckRequest(c)
    PROVE  Moves(c)
<1>1. /\ pc[c] = "check"
      /\ UNCHANGED <<dir, temp, backup, left, lock, last, stale, calls, crashes, req, seen, keep, new>>
      /\ \/ pc' = [pc EXCEPT ![c] = "lock"] /\ result' = result
         \/ pc' = [pc EXCEPT ![c] = "idle"] /\ result' = [result EXCEPT ![c] = "refused"]
    BY DEF Files!CheckRequest, Files!Goto, Files!End, Files!disk, Files!local, Files!bounds
<1>2. PICK l \in {"lock", "idle"}, o \in FileResult :
          pc' = [pc EXCEPT ![c] = l] /\ result' = [result EXCEPT ![c] = o]
    BY <1>1, ClientFacts, SameElsewhere DEF FileResult
<1>3. /\ seen' = [seen EXCEPT ![c] = seen[c]] /\ keep' = [keep EXCEPT ![c] = keep[c]]
      /\ new' = [new EXCEPT ![c] = new[c]]
    BY <1>1, SameElsewhere
<1>4. DoesAt("check", req[c], seen[c])
    BY <1>1 DEF FilesInv, FilesDo
<1>5. DoesAt(l, req[c], seen[c]) /\ req[c].op # "delete"
    BY <1>2, <1>4 DEF DoesAt, Files!Writes, Files!Edits
<1>6. DeletesAt(c)'
    BY <1>1, <1>5 DEF DeletesAt
<1>7. pc[c] \notin Files!LockedSteps \cup {"dead"} /\ l \in Files!Steps \ {"dead"}
    BY <1>1, <1>2 DEF Files!LockedSteps, Files!Steps
<1>8. /\ seen[c] \in FileRead /\ Once(seen[c].meta) /\ keep[c] \in SUBSET Nat
      /\ new[c] \in Seq(Files!Record) /\ Once(new[c])
    BY ClientFacts
<1>. QED
    BY <1>1, <1>2, <1>3, <1>5, <1>6, <1>7, <1>8, ReaderGoes

\* What the directory of a whole store holds.
LEMMA StoreIsRead ==
    ASSUME FilesInv, dir.whole
    PROVE  dir.recs \in Seq(Files!Record) /\ Once(dir.recs) /\ dir.con \in Contract
<1>1. dir \in Files!Directory /\ Once(dir.recs) /\ Formed(dir)
    BY DEF FilesInv, Files!TypeOK, FilesOnce, FilesFormed
<1>2. dir.recs \in Seq(Files!Record)
    BY <1>1 DEF Files!Directory
<1>3. dir # Files!Absent
  <2>1. Files!Absent.whole = FALSE
    BY DEF Files!Absent
  <2>. QED
    BY <2>1
<1>. QED
    BY <1>1, <1>2, <1>3 DEF Formed

LEMMA MetadataRead ==
    ASSUME FilesInv, NEW c \in Client, Files!ReadMetadata(c) \/ Files!RereadMetadata(c)
    PROVE  Moves(c)
<1>1. /\ pc[c] \in {"metadata", "metadata2"}
      /\ UNCHANGED <<dir, temp, backup, left, lock, last, stale, calls, crashes, req, keep, new>>
    BY DEF Files!ReadMetadata, Files!RereadMetadata, Files!disk, Files!bounds
<1>2. pc[c] \notin Files!LockedSteps \cup {"dead"}
    BY <1>1 DEF Files!LockedSteps
<1>3. /\ seen[c] \in FileRead /\ Once(seen[c].meta) /\ keep[c] \in SUBSET Nat
      /\ new[c] \in Seq(Files!Record) /\ Once(new[c]) /\ result[c] \in FileResult
    BY ClientFacts
<1>4. DoesAt(pc[c], req[c], seen[c]) /\ DeletesAt(c)
    BY DEF FilesInv, FilesDo, FilesWrite
<1>5. keep' = [keep EXCEPT ![c] = keep[c]] /\ new' = [new EXCEPT ![c] = new[c]]
    BY <1>1, SameElsewhere
<1>6. CASE ~dir.whole
  <2>1. pc' = [pc EXCEPT ![c] = "idle"] /\ result' = [result EXCEPT ![c] = "unavailable"] /\ seen' = seen
    BY <1>6 DEF Files!ReadMetadata, Files!RereadMetadata, Files!End, Files!Goto
  <2>2. seen' = [seen EXCEPT ![c] = seen[c]]
    BY <2>1, SameElsewhere
  <2>3. "idle" \in Files!Steps \ {"dead"} /\ "unavailable" \in FileResult
    BY DEF Files!Steps, FileResult
  <2>4. DoesAt("idle", req[c], seen[c])
    BY <1>4 DEF DoesAt
  <2>5. DeletesAt(c)'
    BY <2>1, NothingOnHand DEF FilesInv, Files!TypeOK
  <2>. QED
    BY <1>1, <1>2, <1>3, <1>5, <2>1, <2>2, <2>3, <2>4, <2>5, ReaderGoes
<1>7. CASE dir.whole
  <2> DEFINE s == [con |-> dir.con, meta |-> dir.recs, vecs |-> <<>>]
             l == IF pc[c] = "metadata" THEN "vectors" ELSE "vectors2"
  <2>1. pc' = [pc EXCEPT ![c] = l] /\ result' = result /\ seen' = [seen EXCEPT ![c] = s]
    BY <1>7 DEF Files!ReadMetadata, Files!RereadMetadata, Files!Goto
  <2>2. s \in FileRead /\ Once(s.meta) /\ s.con \in Contract /\ s.meta = dir.recs
    <3>1. dir.recs \in Seq(Files!Record) /\ Once(dir.recs) /\ dir.con \in Contract
      BY <1>7, StoreIsRead
    <3>2. s.meta = dir.recs /\ s.con = dir.con
      OBVIOUS
    <3>3. s \in FileRead
      <4>1. <<>> \in Seq(Files!Record)
        OBVIOUS
      <4>. QED
        BY <3>1, <4>1 DEF FileRead
    <3>. QED
      BY <3>1, <3>2, <3>3
  <2>3. l \in Files!Steps \ {"dead"} /\ result' = [result EXCEPT ![c] = result[c]]
    BY <2>1, SameElsewhere DEF Files!Steps
  <2>4. pc'[c] = l /\ seen'[c] = s
    BY <2>1 DEF FilesInv, Files!TypeOK
  <2> HIDE DEF s
  <2>5. DoesAt(l, req[c], s)
    BY <1>1, <1>4, <2>2 DEF DoesAt
  <2>6. DeletesAt(c)'
    BY <1>1, <1>4, <1>7, <2>2, <2>4 DEF DeletesAt
  <2> HIDE DEF l
  <2>. QED
    BY <1>1, <1>2, <1>3, <1>5, <2>1, <2>2, <2>3, <2>5, <2>6, ReaderGoes
<1>. QED
    BY <1>6, <1>7

LEMMA VectorsRead ==
    ASSUME FilesInv, NEW c \in Client, Files!ReadVectors(c)
    PROVE  Moves(c)
<1>1. /\ pc[c] = "vectors"
      /\ UNCHANGED <<dir, temp, backup, left, lock, last, stale, calls, crashes, req, keep, new>>
    BY DEF Files!ReadVectors, Files!disk, Files!bounds
<1>2. pc[c] \notin Files!LockedSteps \cup {"dead"}
    BY <1>1 DEF Files!LockedSteps
<1>3. /\ seen[c] \in FileRead /\ Once(seen[c].meta) /\ keep[c] \in SUBSET Nat
      /\ new[c] \in Seq(Files!Record) /\ Once(new[c]) /\ result[c] \in FileResult
    BY ClientFacts
<1>4. DoesAt("vectors", req[c], seen[c]) /\ DeletesAt(c)
    BY <1>1 DEF FilesInv, FilesDo, FilesWrite
<1>5. keep' = [keep EXCEPT ![c] = keep[c]] /\ new' = [new EXCEPT ![c] = new[c]]
    BY <1>1, SameElsewhere
<1>6. CASE ~dir.whole
  <2>1. pc' = [pc EXCEPT ![c] = "idle"] /\ result' = [result EXCEPT ![c] = "unavailable"] /\ seen' = seen
    BY <1>6 DEF Files!ReadVectors, Files!End, Files!Goto
  <2>2. seen' = [seen EXCEPT ![c] = seen[c]]
    BY <2>1, SameElsewhere
  <2>3. "idle" \in Files!Steps \ {"dead"} /\ "unavailable" \in FileResult
    BY DEF Files!Steps, FileResult
  <2>4. DoesAt("idle", req[c], seen[c])
    BY <1>4 DEF DoesAt
  <2>5. DeletesAt(c)'
    BY <2>1, NothingOnHand DEF FilesInv, Files!TypeOK
  <2>. QED
    BY <1>1, <1>2, <1>3, <1>5, <2>1, <2>2, <2>3, <2>4, <2>5, ReaderGoes
<1>7. CASE dir.whole
  <2> DEFINE s == [seen[c] EXCEPT !.vecs = dir.recs]
             l == Files!AfterRead(c, dir.recs)
  <2>1. pc' = [pc EXCEPT ![c] = l] /\ result' = result /\ seen' = [seen EXCEPT ![c].vecs = dir.recs]
    BY <1>7 DEF Files!ReadVectors, Files!Goto
  <2>2. seen' = [seen EXCEPT ![c] = s]
    BY <2>1
  <2>3. s \in FileRead /\ s.meta = seen[c].meta /\ s.con = seen[c].con
    BY <1>3, <1>7, StoreIsRead DEF FileRead
  <2>4. l \in {"return", "select", "check", "missing"} /\ (l = "select" => req[c].op = "delete")
        /\ (l = "check" => req[c].op \in Files!Writes \cup {"update"})
    BY <1>4 DEF Files!AfterRead, DoesAt, Files!Edits
  <2>5. pc'[c] = l /\ seen'[c] = s
    BY <2>1, <2>2 DEF FilesInv, Files!TypeOK
  <2> HIDE DEF s, l
  <2>6. l \in Files!Steps \ {"dead"} /\ result' = [result EXCEPT ![c] = result[c]]
    BY <2>1, <2>4, SameElsewhere DEF Files!Steps
  <2>7. DoesAt(l, req[c], s)
    BY <1>4, <2>4 DEF DoesAt
  <2>8. DeletesAt(c)'
    BY <1>1, <1>4, <2>3, <2>4, <2>5 DEF DeletesAt
  <2>9. Once(s.meta)
    BY <1>3, <2>3
  <2>. QED
    BY <1>1, <1>2, <1>3, <1>5, <2>1, <2>2, <2>3, <2>6, <2>7, <2>8, <2>9, ReaderGoes
<1>. QED
    BY <1>6, <1>7

LEMMA ReadReturns ==
    ASSUME FilesInv, NEW c \in Client, Files!Return(c)
    PROVE  Moves(c)
<1>1. /\ pc[c] \in {"return", "missing"}
      /\ UNCHANGED <<dir, temp, backup, left, lock, last, stale, calls, crashes, req, seen, keep, new>>
      /\ pc' = [pc EXCEPT ![c] = "idle"]
    BY DEF Files!Return, Files!End, Files!Goto, Files!disk, Files!local, Files!bounds
<1>2. PICK o \in FileResult : result' = [result EXCEPT ![c] = o]
    BY DEF Files!Return, Files!End, FileResult
<1>3. pc[c] \notin Files!LockedSteps \cup {"dead"} /\ "idle" \in Files!Steps \ {"dead"}
    BY <1>1 DEF Files!LockedSteps, Files!Steps
<1>4. /\ seen[c] \in FileRead /\ Once(seen[c].meta) /\ keep[c] \in SUBSET Nat
      /\ new[c] \in Seq(Files!Record) /\ Once(new[c])
    BY ClientFacts
<1>5. /\ keep' = [keep EXCEPT ![c] = keep[c]] /\ new' = [new EXCEPT ![c] = new[c]]
      /\ seen' = [seen EXCEPT ![c] = seen[c]]
    BY <1>1, SameElsewhere
<1>6. DoesAt("idle", req[c], seen[c])
    BY DEF FilesInv, FilesDo, DoesAt
<1>7. DeletesAt(c)'
    BY <1>1, NothingOnHand DEF FilesInv, Files!TypeOK
<1>. QED
    BY <1>1, <1>2, <1>3, <1>4, <1>5, <1>6, <1>7, ReaderGoes

LEMMA RetainedSelected ==
    ASSUME FilesInv, NEW c \in Client, Files!Select(c)
    PROVE  Moves(c)
<1> DEFINE K == {i \in DOMAIN seen[c].meta : seen[c].meta[i].id \notin req[c].ids}
<1>1. /\ pc[c] = "select" /\ pc' = [pc EXCEPT ![c] = "metadata2"] /\ keep' = [keep EXCEPT ![c] = K]
      /\ UNCHANGED <<dir, temp, backup, left, lock, last, stale, calls, crashes, req, seen, new, result>>
    BY DEF Files!Select, Files!Goto, Files!disk, Files!bounds
<1>2. pc[c] \notin Files!LockedSteps \cup {"dead"} /\ "metadata2" \in Files!Steps \ {"dead"}
    BY <1>1 DEF Files!LockedSteps, Files!Steps
<1>3. /\ seen[c] \in FileRead /\ Once(seen[c].meta)
      /\ new[c] \in Seq(Files!Record) /\ Once(new[c]) /\ result[c] \in FileResult
    BY ClientFacts
<1>4. K \in SUBSET Nat
  <2>1. seen[c].meta \in Seq(Files!Record)
    BY <1>3 DEF FileRead
  <2>. QED
    BY <2>1
<1>5. /\ result' = [result EXCEPT ![c] = result[c]] /\ new' = [new EXCEPT ![c] = new[c]]
      /\ seen' = [seen EXCEPT ![c] = seen[c]]
    BY <1>1, SameElsewhere
<1>6. DoesAt("metadata2", req[c], seen[c])
    BY <1>1 DEF FilesInv, FilesDo, DoesAt
<1>7. pc'[c] = "metadata2" /\ keep'[c] = K
    BY <1>1 DEF FilesInv, Files!TypeOK
<1>8. DeletesAt(c)'
    BY <1>1, <1>7 DEF FilesInv, FilesWrite, DeletesAt
<1> HIDE DEF K
<1>. QED
    BY <1>1, <1>2, <1>3, <1>4, <1>5, <1>6, <1>8, ReaderGoes

LEMMA VectorsReread ==
    ASSUME FilesInv, NEW c \in Client, Files!RereadVectors(c)
    PROVE  Moves(c)
<1>1. /\ pc[c] = "vectors2"
      /\ UNCHANGED <<dir, temp, backup, left, lock, last, stale, calls, crashes, req, keep>>
    BY DEF Files!RereadVectors, Files!disk, Files!bounds
<1>2. pc[c] \notin Files!LockedSteps \cup {"dead"}
    BY <1>1 DEF Files!LockedSteps
<1>3. /\ seen[c] \in FileRead /\ Once(seen[c].meta) /\ keep[c] \in SUBSET Nat
      /\ new[c] \in Seq(Files!Record) /\ Once(new[c]) /\ result[c] \in FileResult
    BY ClientFacts
<1>4. DoesAt("vectors2", req[c], seen[c]) /\ DeletesAt(c)
    BY <1>1 DEF FilesInv, FilesDo, FilesWrite
<1>5. keep' = [keep EXCEPT ![c] = keep[c]]
    BY <1>1, SameElsewhere
<1>6. ASSUME pc' = [pc EXCEPT ![c] = "idle"], seen' = seen, new' = new,
             NEW o \in FileResult, result' = [result EXCEPT ![c] = o]
      PROVE  Moves(c)
  <2>1. seen' = [seen EXCEPT ![c] = seen[c]] /\ new' = [new EXCEPT ![c] = new[c]]
    BY <1>6, SameElsewhere
  <2>2. "idle" \in Files!Steps \ {"dead"}
    BY DEF Files!Steps
  <2>3. DoesAt("idle", req[c], seen[c])
    BY <1>4 DEF DoesAt
  <2>4. DeletesAt(c)'
    BY <1>6, NothingOnHand DEF FilesInv, Files!TypeOK
  <2>. QED
    BY <1>1, <1>2, <1>3, <1>5, <1>6, <2>1, <2>2, <2>3, <2>4, ReaderGoes
<1>7. CASE ~dir.whole /\ Files!End(c, "unavailable") /\ UNCHANGED <<seen, new>>
    BY <1>6, <1>7 DEF Files!End, Files!Goto, FileResult
<1>8. CASE dir.whole /\ keep[c] = {} /\ Files!Goto(c, "deleteLock") /\ UNCHANGED <<seen, new, result>>
  <2>1. /\ seen' = [seen EXCEPT ![c] = seen[c]] /\ new' = [new EXCEPT ![c] = new[c]]
        /\ result' = [result EXCEPT ![c] = result[c]]
    BY <1>8, SameElsewhere
  <2>2. "deleteLock" \in Files!Steps \ {"dead"}
    BY DEF Files!Steps
  <2>3. DoesAt("deleteLock", req[c], seen[c])
    BY <1>4 DEF DoesAt
  <2>4. pc' = [pc EXCEPT ![c] = "deleteLock"] /\ pc'[c] = "deleteLock"
    BY <1>8 DEF Files!Goto, FilesInv, Files!TypeOK
  <2>5. ASSUME req[c].op = "delete", ~stale[c] PROVE Spared(dir.recs, req[c].ids) = {}
    BY <1>1, <1>4, <1>8, <2>5 DEF DeletesAt, Spared, Files!Range
  <2>6. DeletesAt(c)'
    BY <1>1, <1>8, <2>4, <2>5 DEF DeletesAt
  <2>. QED
    BY <1>1, <1>2, <1>3, <1>5, <2>1, <2>2, <2>3, <2>4, <2>6, ReaderGoes
<1>9. CASE dir.whole /\ keep[c] # {} /\ ~(keep[c] \subseteq DOMAIN seen[c].meta \cap DOMAIN dir.recs)
  <2>1. Files!End(c, "indexError") /\ UNCHANGED <<seen, new>>
    BY <1>9 DEF Files!RereadVectors
  <2>. QED
    BY <2>1, <1>6 DEF Files!End, Files!Goto, FileResult
<1>10. CASE dir.whole /\ keep[c] # {} /\ keep[c] \subseteq DOMAIN seen[c].meta \cap DOMAIN dir.recs
  <2>1. PICK at \in Files!Ascending(keep[c]) :
            new' = [new EXCEPT ![c] =
                      [j \in DOMAIN at |-> Files!RecordAt(seen[c].meta, dir.recs, at[j])]]
    BY <1>10 DEF Files!RereadVectors
  <2> DEFINE n == [j \in DOMAIN at |-> Files!RecordAt(seen[c].meta, dir.recs, at[j])]
             s == [seen[c] EXCEPT !.vecs = dir.recs]
  <2>2. /\ seen' = [seen EXCEPT ![c].vecs = dir.recs] /\ result' = result
        /\ pc' = [pc EXCEPT ![c] = "lock"] /\ new' = [new EXCEPT ![c] = n]
    BY <1>10, <2>1 DEF Files!RereadVectors, Files!Goto
  <2>3. seen' = [seen EXCEPT ![c] = s]
    BY <2>2
  <2>4. dir.recs \in Seq(Files!Record) /\ seen[c].meta \in Seq(Files!Record)
    BY <1>3, <1>10, StoreIsRead DEF FileRead
  <2>5. s \in FileRead /\ s.meta = seen[c].meta /\ s.con = seen[c].con /\ Once(s.meta)
    BY <1>3, <2>4 DEF FileRead
  <2>6. /\ n \in Seq(Files!Record) /\ Once(n)
        /\ seen[c].meta = dir.recs => Files!Range(n) = {dir.recs[i] : i \in keep[c]}
    <3> DEFINE K == keep[c] m == seen[c].meta v == dir.recs
    <3>1. /\ K \in SUBSET (DOMAIN m \cap DOMAIN v) /\ at \in Files!Ascending(K) /\ Once(m)
          /\ m \in Seq(Files!Record) /\ v \in Seq(Files!Record)
      BY <1>3, <1>10, <2>1, <2>4
    <3>2. n = [j \in DOMAIN at |-> Files!RecordAt(m, v, at[j])]
      OBVIOUS
    <3> HIDE DEF n, K, m, v
    <3>3. n \in Seq(Files!Record) /\ Once(n) /\ (m = v => Files!Range(n) = {v[i] : i \in K})
      BY <3>1, <3>2, RetainedAre
    <3>. QED
      BY <3>3 DEF K, m, v
  <2>7. pc'[c] = "lock" /\ new'[c] = n
    BY <2>2 DEF FilesInv, Files!TypeOK
  <2>8. "lock" \in Files!Steps \ {"dead"} /\ result' = [result EXCEPT ![c] = result[c]]
    BY <2>2, SameElsewhere DEF Files!Steps
  <2> HIDE DEF n, s
  <2>9. DoesAt("lock", req[c], s)
    BY <1>4, <2>5 DEF DoesAt, Files!Edits
  <2>10. ASSUME req[c].op = "delete", ~stale[c] PROVE Files!Range(n) = Spared(dir.recs, req[c].ids)
    BY <1>1, <1>4, <2>6, <2>10 DEF DeletesAt, Spared, Files!Range
  <2>11. DeletesAt(c)'
    BY <1>1, <1>10, <2>7, <2>10 DEF DeletesAt
  <2>. QED
    BY <1>1, <1>2, <1>3, <1>5, <2>2, <2>3, <2>5, <2>6, <2>8, <2>9, <2>11, ReaderGoes
<1>. QED
    BY <1>7, <1>8, <1>9, <1>10 DEF Files!RereadVectors

LEMMA LockAcquired ==
    ASSUME FilesInv, NEW c \in Client, Files!AcquireLock(c)
    PROVE  Moves(c)
<1>1. /\ pc[c] \in {"lock", "deleteLock"}
      /\ UNCHANGED <<dir, temp, backup, left, last, stale, calls, crashes, req, seen, keep, new>>
    BY DEF Files!AcquireLock, Files!local, Files!bounds
<1>2. pc[c] \notin Files!LockedSteps \cup {"dead"}
    BY <1>1 DEF Files!LockedSteps
<1>3. /\ seen[c] \in FileRead /\ Once(seen[c].meta) /\ keep[c] \in SUBSET Nat
      /\ new[c] \in Seq(Files!Record) /\ Once(new[c]) /\ req[c] \in FileRequest
      /\ result[c] \in FileResult
    BY ClientFacts
<1>4. DoesAt(pc[c], req[c], seen[c]) /\ DeletesAt(c)
    BY DEF FilesInv, FilesDo, FilesWrite
<1>5. /\ keep' = [keep EXCEPT ![c] = keep[c]] /\ new' = [new EXCEPT ![c] = new[c]]
      /\ seen' = [seen EXCEPT ![c] = seen[c]] /\ req' = [req EXCEPT ![c] = req[c]]
      /\ temp' = [temp EXCEPT ![c] = temp[c]] /\ backup' = [backup EXCEPT ![c] = backup[c]]
    BY <1>1, SameElsewhere
<1>6. CASE lock # Nobody /\ Files!End(c, "lock_timeout") /\ UNCHANGED lock
  <2>1. /\ pc' = [pc EXCEPT ![c] = "idle"] /\ result' = [result EXCEPT ![c] = "lock_timeout"]
        /\ "lock_timeout" \in FileResult
    BY <1>6 DEF Files!End, Files!Goto, FileResult
  <2>2. "idle" \in Files!Steps \ {"dead"}
    BY DEF Files!Steps
  <2>3. DoesAt("idle", req[c], seen[c])
    BY <1>4 DEF DoesAt
  <2>4. DeletesAt(c)'
    BY <2>1, NothingOnHand DEF FilesInv, Files!TypeOK
  <2>. QED
    BY <1>1, <1>2, <1>3, <1>5, <1>6, <2>1, <2>2, <2>3, <2>4, ReaderGoes
<1>7. CASE lock = Nobody /\ lock' = c /\ UNCHANGED result
           /\ Files!Goto(c, IF pc[c] = "lock" THEN "merge" ELSE "remove")
  <2> DEFINE l == IF pc[c] = "lock" THEN "merge" ELSE "remove"
  <2>1. /\ pc' = [pc EXCEPT ![c] = l] /\ pc'[c] = l /\ result' = [result EXCEPT ![c] = result[c]]
    BY <1>7, SameElsewhere DEF Files!Goto, FilesInv, Files!TypeOK
  <2>2. l \in Files!LockedSteps /\ l \in FileLabel \ {"dead"} /\ l \in {"merge", "remove"}
    BY DEF Files!LockedSteps, FileLabel
  <2>3. temp[c] = Files!Absent /\ backup[c] = Files!Absent
    BY <1>1, ClientFacts
  <2>4. MovesAlone(c)
    <3>1. /\ pc[c] # "dead" /\ req'[c] = req[c] /\ seen'[c] = seen[c] /\ keep'[c] = keep[c]
          /\ new'[c] = new[c] /\ result'[c] = result[c]
          /\ temp'[c] = Files!Absent /\ backup'[c] = Files!Absent
      BY <1>1, <1>7, <2>3
    <3>2. /\ temp'[c] \in Files!Directory /\ Formed(temp'[c]) /\ Once(temp'[c].recs)
          /\ backup'[c] \in Files!Directory /\ Formed(backup'[c]) /\ Once(backup'[c].recs)
          /\ stale' \in [Client -> BOOLEAN] /\ calls' \in 0..MaxCalls
      BY <1>1, ClientFacts, SameElsewhere
    <3> HIDE DEF l
    <3>. QED
      BY <1>1, <1>3, <1>5, <2>1, <2>2, <3>1, <3>2 DEF MovesAlone
  <2>5. StandsIn(dir)' /\ (Unharmed => InPlace(dir))'
    BY <1>1, <1>7, <2>4, AsideStays DEF FilesInv, FilesPlaced, StandsIn, InPlace, Unharmed
  <2>6. MovesStore(c)
    <3>1. /\ dir' \in Files!Directory /\ Formed(dir') /\ Once(dir'.recs)
          /\ last' \in Files!Directory /\ Formed(last') /\ left' \subseteq Files!Directory
      BY <1>1 DEF FilesInv, Files!TypeOK, FilesFormed, FilesOnce
    <3> HIDE DEF l
    <3>. QED
      BY <1>1, <1>7, <2>1, <2>2, <2>5, <3>1 DEF MovesStore
  <2>7. DoesAt(l, req[c], seen[c])
    BY <1>1, <1>4 DEF DoesAt
  <2>8. PlacedAt(c)' /\ AppendsAt(c)'
    <3> HIDE DEF l
    <3>. QED
      BY <2>1, <2>2, <2>5 DEF PlacedAt, AppendsAt
  <2>9. DeletesAt(c)'
    BY <1>1, <1>4, <2>1 DEF DeletesAt
  <2> HIDE DEF l
  <2>. QED
    BY <1>1, <2>1, <2>4, <2>6, <2>7, <2>8, <2>9 DEF Moves
<1>. QED
    BY <1>6, <1>7 DEF Files!AcquireLock

------------------------------------------------------------------------------
(* The client with the lock *)

\* It goes to l, with the records n, the temporary directory t and the backup b.
HolderDoes(c, l, n, o, t, b) ==
    /\ pc[c] # "dead" /\ l \in FileLabel \ {"dead"} /\ pc' = [pc EXCEPT ![c] = l]
    /\ new' = [new EXCEPT ![c] = n] /\ n \in Seq(Files!Record) /\ Once(n)
    /\ result' = [result EXCEPT ![c] = o] /\ o \in FileResult
    /\ temp' = [temp EXCEPT ![c] = t] /\ t \in Files!Directory /\ Formed(t) /\ Once(t.recs)
    /\ t # Files!Absent => l \in {"moveAside", "install"}
    /\ backup' = [backup EXCEPT ![c] = b] /\ b \in Files!Directory /\ Formed(b) /\ Once(b.recs)
    /\ b # Files!Absent => l \in {"install", "clean"}
    /\ stale' \in [Client -> BOOLEAN] /\ \A d \in Client \ {c} : stale[d] => stale'[d]
    /\ UNCHANGED <<req, seen, keep, calls, crashes>>

LEMMA HolderAlone ==
    ASSUME FilesInv, NEW c \in Client, NEW l, NEW n, NEW o, NEW t, NEW b,
           HolderDoes(c, l, n, o, t, b)
    PROVE  /\ MovesAlone(c)
           /\ pc'[c] = l /\ new'[c] = n /\ temp'[c] = t /\ backup'[c] = b
           /\ req'[c] = req[c] /\ seen'[c] = seen[c] /\ keep'[c] = keep[c]
<1> USE DEF HolderDoes
<1>1. pc'[c] = l /\ new'[c] = n /\ result'[c] = o /\ temp'[c] = t /\ backup'[c] = b
    BY DEF FilesInv, Files!TypeOK
<1>2. /\ req' = [req EXCEPT ![c] = req'[c]] /\ req'[c] \in FileRequest
      /\ seen' = [seen EXCEPT ![c] = seen'[c]] /\ seen'[c] \in FileRead /\ Once(seen'[c].meta)
      /\ keep' = [keep EXCEPT ![c] = keep'[c]] /\ keep'[c] \in SUBSET Nat
      /\ calls' \in 0..MaxCalls
    BY ClientFacts, SameElsewhere
<1>3. MovesAlone(c)
    BY <1>1, <1>2 DEF MovesAlone
<1>. QED
    BY <1>1, <1>3

LEMMA NoFiles ==
    /\ Files!Absent \in Files!Directory /\ Formed(Files!Absent) /\ Once(Files!Absent.recs)
    /\ Files!Absent.recs = <<>> /\ Files!Absent.whole = FALSE /\ Files!Absent.con = ""
    /\ \A ids : Spared(Files!Absent.recs, ids) = {}
<1>1. Files!Absent.recs = <<>> /\ Files!Absent.whole = FALSE /\ Files!Absent.con = ""
    BY DEF Files!Absent
<1>2. Files!Absent \in Files!Directory
  <2>1. <<>> \in Seq(Files!Record)
    OBVIOUS
  <2>. QED
    BY <2>1 DEF Files!Absent, Files!Directory
<1>3. DOMAIN <<>> = {}
    OBVIOUS
<1>4. Once(Files!Absent.recs)
    BY <1>1, <1>3 DEF Once
<1>5. \A ids : Spared(Files!Absent.recs, ids) = {}
    BY <1>1, <1>3 DEF Spared, Files!Range
<1>. QED
    BY <1>1, <1>2, <1>4, <1>5 DEF Formed

\* What it goes through before it touches the store: it goes to l with the records n and
\* the temporary directory t, or gives up.
HolderGoes(c, l, n, o, t) ==
    /\ pc[c] \in {"merge", "build", "moveAside", "remove"}
    /\ l \in {"idle", "build", "moveAside"} /\ pc' = [pc EXCEPT ![c] = l]
    /\ l = "idle" => lock' = Nobody
    /\ l # "idle" => lock' = c
    /\ new' = [new EXCEPT ![c] = n] /\ n \in Seq(Files!Record) /\ Once(n)
    /\ result' = [result EXCEPT ![c] = o] /\ o \in FileResult
    /\ temp' = [temp EXCEPT ![c] = t] /\ t \in Files!Directory /\ Formed(t) /\ Once(t.recs)
    /\ t # Files!Absent => l = "moveAside"
    /\ UNCHANGED <<dir, last, backup, left, stale, req, seen, keep, calls, crashes>>
    /\ DoesAt(l, req[c], seen[c]) /\ AppendsAt(c)' /\ DeletesAt(c)'

LEMMA HolderMoves ==
    ASSUME FilesInv, NEW c \in Client, NEW l, NEW n, NEW o, NEW t, HolderGoes(c, l, n, o, t)
    PROVE  Moves(c)
<1> USE DEF HolderGoes
<1>1. /\ backup' = [backup EXCEPT ![c] = Files!Absent] /\ lock = c
      /\ Files!Absent \in Files!Directory /\ Formed(Files!Absent) /\ Once(Files!Absent.recs)
  <2>1. backup[c] = Files!Absent /\ lock = c /\ backup' = [backup EXCEPT ![c] = backup[c]]
    BY ClientFacts, SameElsewhere DEF Files!LockedSteps
  <2>. QED
    BY <2>1, NoFiles
<1>2. l \in FileLabel \ {"dead"} /\ (l # "idle" <=> l \in Files!LockedSteps)
    BY DEF FileLabel, Files!Steps, Files!LockedSteps
<1>3. stale' \in [Client -> BOOLEAN] /\ \A d \in Client \ {c} : stale[d] => stale'[d]
    BY SameElsewhere
<1>4. /\ MovesAlone(c) /\ pc'[c] = l /\ req'[c] = req[c] /\ seen'[c] = seen[c]
  <2>1. HolderDoes(c, l, n, o, t, Files!Absent)
    BY <1>1, <1>2, <1>3 DEF HolderDoes
  <2>. QED
    BY <2>1, HolderAlone
<1>5. StandsIn(dir)' /\ (Unharmed => InPlace(dir))'
    BY <1>4, AsideStays DEF FilesInv, FilesPlaced, PlacedAt, StandsIn, InPlace, Unharmed
<1>6. MovesStore(c)
  <2>1. /\ dir \in Files!Directory /\ last \in Files!Directory /\ Formed(dir) /\ Formed(last)
        /\ Once(dir.recs) /\ left \subseteq Files!Directory
    BY DEF FilesInv, Files!TypeOK, FilesFormed, FilesOnce
  <2>. QED
    BY <1>1, <1>2, <1>4, <1>5, <2>1, ClientsAssumption DEF MovesStore
<1>7. PlacedAt(c)'
    BY <1>4, <1>5 DEF PlacedAt
<1>. QED
    BY <1>4, <1>6, <1>7 DEF Moves

LEMMA WriteMerges ==
    ASSUME FilesInv, NEW c \in Client, Files!Merge(c)
    PROVE  Moves(c)
<1> DEFINE append == req[c].op \in {"insert", "upsert", "update"} /\ Files!Exists(dir)
           conflicts == Files!Ids(dir.recs) \cap req[c].ids
<1>1. /\ pc[c] = "merge"
      /\ UNCHANGED <<dir, temp, backup, left, last, stale, calls, crashes, req, seen, keep>>
    BY DEF Files!Merge, Files!bounds
<1>2. /\ new[c] \in Seq(Files!Record) /\ Once(new[c]) /\ req[c] \in FileRequest
      /\ result[c] \in FileResult
      /\ temp[c] = Files!Absent /\ lock = c
    BY <1>1, ClientFacts DEF Files!LockedSteps
<1>3. /\ temp' = [temp EXCEPT ![c] = Files!Absent]
      /\ Files!Absent \in Files!Directory /\ Formed(Files!Absent) /\ Once(Files!Absent.recs)
    BY <1>1, <1>2, SameElsewhere, NoFiles
<1>4. DoesAt("merge", req[c], seen[c]) /\ DeletesAt(c) /\ StandsIn(dir)
    BY <1>1 DEF FilesInv, FilesDo, FilesWrite, FilesPlaced, PlacedAt
<1>5. Files!LeftAside => Files!LeftAside'
  <2>1. \E l : pc' = [pc EXCEPT ![c] = l]
    BY DEF Files!Merge, Files!Goto, Files!End, Files!Raise
  <2>2. DOMAIN pc = Client
    BY DEF FilesInv, Files!TypeOK
  <2>. QED
    BY <1>1, <2>1, <2>2 DEF Files!LeftAside
<1>6. CASE Files!Raise(c)
  <2>1. /\ pc' = [pc EXCEPT ![c] = "idle"] /\ result' = [result EXCEPT ![c] = "refused"]
        /\ lock' = Nobody /\ new' = new /\ "refused" \in FileResult
    BY <1>6 DEF Files!Raise, Files!End, Files!Goto, FileResult
  <2>2. new' = [new EXCEPT ![c] = new[c]] /\ pc'[c] = "idle"
    BY <2>1, SameElsewhere DEF FilesInv, Files!TypeOK
  <2>3. DoesAt("idle", req[c], seen[c]) /\ AppendsAt(c)' /\ DeletesAt(c)'
    BY <1>4, <2>2 DEF DoesAt, AppendsAt, DeletesAt
  <2>4. HolderGoes(c, "idle", new[c], "refused", Files!Absent)
    BY <1>1, <1>2, <1>3, <2>1, <2>2, <2>3 DEF HolderGoes
  <2>. QED
    BY <2>4, HolderMoves
<1>7. ASSUME Files!Goto(c, "build"), UNCHANGED <<lock, result>>, NEW n \in Seq(Files!Record), Once(n),
             new' = [new EXCEPT ![c] = n],
             req[c].op \in {"insert", "upsert", "update"} =>
                 Files!LeftAside \/ Spared(last.recs, req[c].ids) \subseteq Files!Range(n),
             req[c].op = "delete" => n = new[c]
      PROVE  Moves(c)
  <2>1. /\ pc' = [pc EXCEPT ![c] = "build"] /\ pc'[c] = "build" /\ new'[c] = n
        /\ result' = [result EXCEPT ![c] = result[c]]
    <3>1. pc' = [pc EXCEPT ![c] = "build"] /\ result' = [result EXCEPT ![c] = result[c]]
      BY <1>7, SameElsewhere DEF Files!Goto
    <3>2. DOMAIN pc = Client /\ DOMAIN new = Client
      BY DEF FilesInv, Files!TypeOK
    <3>. QED
      BY <1>7, <3>1, <3>2
  <2>2. DoesAt("build", req[c], seen[c])
    BY <1>4 DEF DoesAt
  <2>3. AppendsAt(c)'
    BY <1>1, <1>5, <1>7, <2>1 DEF AppendsAt
  <2>4. DeletesAt(c)'
    BY <1>1, <1>4, <1>7, <2>1 DEF DeletesAt
  <2>5. HolderGoes(c, "build", n, result[c], Files!Absent)
    BY <1>1, <1>2, <1>3, <1>7, <2>1, <2>2, <2>3, <2>4 DEF HolderGoes
  <2>. QED
    BY <2>5, HolderMoves
<1>8. ASSUME append, dir.whole, NEW old \in Files!Others(dir.recs, conflicts),
             NEW p \in Files!Incoming(c), new' = [new EXCEPT ![c] = old \o p],
             Files!Goto(c, "build"), UNCHANGED <<lock, result>>
      PROVE  Moves(c)
  <2>1. dir.recs \in Seq(Files!Record) /\ Once(dir.recs)
    BY <1>8, StoreIsRead
  <2>2. /\ old \in Seq(Files!Record) /\ Once(old)
        /\ Files!Range(old) = Spared(dir.recs, conflicts)
    BY <2>1, <1>8, OthersAreSpared
  <2>3. p \in Seq(Files!Record) /\ Once(p) /\ \A i \in DOMAIN p : p[i].id \in req[c].ids
    <3>1. req[c].ids \in SUBSET Id /\ req[c].n \in Nat
      BY <1>2 DEF FileRequest
    <3>. QED
      BY <3>1, <1>8, PointsAreRecords DEF Files!Incoming
  <2>4. Spared(dir.recs, conflicts) = Spared(dir.recs, req[c].ids)
    BY DEF Spared, Files!Ids, Files!Range
  <2>5. \A i \in DOMAIN old : old[i].id \notin req[c].ids
    BY <2>2, <2>4 DEF Files!Range, Spared
  <2>6. /\ old \o p \in Seq(Files!Record) /\ Once(old \o p)
        /\ Files!Range(old) \subseteq Files!Range(old \o p)
    BY <2>2, <2>3, <2>5, JoinedAre
  <2>7. Files!LeftAside \/ Spared(last.recs, req[c].ids) \subseteq Files!Range(old \o p)
    <3>1. CASE dir = last
      BY <3>1, <2>2, <2>4, <2>6
    <3>2. CASE last = Files!Absent
      BY <3>2, NoFiles
    <3>. QED
      BY <1>4, <3>1, <3>2 DEF StandsIn
  <2>. QED
    BY <1>7, <1>8, <2>6, <2>7
<1>9. ASSUME ~append, Files!Goto(c, "build"), UNCHANGED <<lock, result>>,
             NEW n \in Seq(Files!Record), Once(n), new' = [new EXCEPT ![c] = n],
             req[c].op = "delete" => n = new[c]
      PROVE  Moves(c)
  <2>1. req[c].op \in {"insert", "upsert", "update"} =>
            Files!LeftAside \/ Spared(last.recs, req[c].ids) \subseteq Files!Range(n)
    <3> SUFFICES ASSUME ~Files!Exists(dir)
                 PROVE  Files!LeftAside \/ Spared(last.recs, req[c].ids) \subseteq Files!Range(n)
      BY <1>9
    <3>1. dir = Files!Absent
      BY ContractsAssumption DEF FilesInv, FilesFormed, Formed, Files!Exists
    <3>. QED
      BY <3>1, <1>4, NoFiles DEF StandsIn
  <2>. QED
    BY <1>7, <1>9, <2>1
<1>10. CASE ~append /\ req[c].op = "delete" /\ UNCHANGED new
            /\ Files!Goto(c, "build") /\ UNCHANGED <<lock, result>>
  <2>1. new' = [new EXCEPT ![c] = new[c]]
    BY <1>10, SameElsewhere
  <2>. QED
    BY <1>2, <1>9, <1>10, <2>1
<1>11. ASSUME ~append, req[c].op # "delete", NEW p \in Files!Incoming(c),
              new' = [new EXCEPT ![c] = p], Files!Goto(c, "build"), UNCHANGED <<lock, result>>
       PROVE  Moves(c)
  <2>1. req[c].ids \in SUBSET Id /\ req[c].n \in Nat
    BY <1>2 DEF FileRequest
  <2>2. p \in Seq(Files!Record) /\ Once(p)
    BY <2>1, <1>11, PointsAreRecords DEF Files!Incoming
  <2>. QED
    BY <1>9, <1>11, <2>2
<1>. QED
    BY <1>6, <1>8, <1>10, <1>11 DEF Files!Merge

LEMMA FilesBuilt ==
    ASSUME FilesInv, NEW c \in Client, Files!Build(c)
    PROVE  Moves(c)
<1>1. /\ pc[c] = "build"
      /\ UNCHANGED <<dir, backup, left, last, stale, calls, crashes, req, seen, keep, new>>
    BY DEF Files!Build, Files!local, Files!bounds
<1>2. /\ new[c] \in Seq(Files!Record) /\ Once(new[c]) /\ req[c] \in FileRequest
      /\ seen[c] \in FileRead /\ result[c] \in FileResult /\ temp[c] = Files!Absent /\ lock = c
    BY <1>1, ClientFacts DEF Files!LockedSteps
<1>3. new' = [new EXCEPT ![c] = new[c]]
    BY <1>1, SameElsewhere
<1>4. DoesAt("build", req[c], seen[c]) /\ AppendsAt(c) /\ DeletesAt(c)
    BY <1>1 DEF FilesInv, FilesDo, FilesWrite
<1>5. DOMAIN pc = Client /\ DOMAIN temp = Client
    BY DEF FilesInv, Files!TypeOK
<1>6. CASE lock' = Nobody /\ Files!End(c, "failed") /\ UNCHANGED temp
  <2>1. /\ pc' = [pc EXCEPT ![c] = "idle"] /\ pc'[c] = "idle"
        /\ result' = [result EXCEPT ![c] = "failed"] /\ "failed" \in FileResult
    BY <1>5, <1>6 DEF Files!End, Files!Goto, FileResult
  <2>2. temp' = [temp EXCEPT ![c] = Files!Absent]
    BY <1>2, <1>6, SameElsewhere
  <2>3. DoesAt("idle", req[c], seen[c]) /\ AppendsAt(c)' /\ DeletesAt(c)'
    BY <1>4, <2>1 DEF DoesAt, AppendsAt, DeletesAt
  <2>4. HolderGoes(c, "idle", new[c], "failed", Files!Absent)
    BY <1>1, <1>2, <1>3, <1>6, <2>1, <2>2, <2>3, NoFiles DEF HolderGoes
  <2>. QED
    BY <2>4, HolderMoves
<1>7. CASE /\ temp' = [temp EXCEPT ![c] = Files!Files(Files!ContractOf(c), new[c])]
           /\ Files!Goto(c, "moveAside") /\ UNCHANGED <<lock, result>>
  <2> DEFINE t == Files!Files(Files!ContractOf(c), new[c])
  <2>1. Files!ContractOf(c) \in Contract
    BY <1>2, <1>4 DEF Files!ContractOf, DoesAt, Files!Edits
  <2>2. /\ t \in Files!Directory /\ t.con \in Contract /\ t.recs = new[c]
    BY <2>1, <1>2 DEF Files!Files, Files!Directory
  <2>3. /\ temp' = [temp EXCEPT ![c] = t] /\ temp'[c] = t
        /\ pc' = [pc EXCEPT ![c] = "moveAside"] /\ pc'[c] = "moveAside"
        /\ result' = [result EXCEPT ![c] = result[c]] /\ lock' = c
    BY <1>2, <1>5, <1>7, SameElsewhere DEF Files!Goto
  <2> HIDE DEF t
  <2>4. Files!LeftAside => Files!LeftAside'
    BY <1>1, <1>5, <2>3 DEF Files!LeftAside
  <2>5. AppendsAt(c)' /\ DeletesAt(c)' /\ DoesAt("moveAside", req[c], seen[c])
    BY <1>1, <1>4, <2>2, <2>3, <2>4 DEF AppendsAt, DeletesAt, DoesAt
  <2>6. Formed(t) /\ Once(t.recs)
    BY <1>2, <2>2 DEF Formed
  <2>7. HolderGoes(c, "moveAside", new[c], result[c], t)
    BY <1>1, <1>2, <1>3, <2>2, <2>3, <2>5, <2>6 DEF HolderGoes
  <2>. QED
    BY <2>7, HolderMoves
<1>. QED
    BY <1>6, <1>7 DEF Files!Build

\* Whom a commit finds at work.
LEMMA OutdatedAre ==
    ASSUME FilesInv, NEW c \in Client, stale' = Files!Outdate(c)
    PROVE  /\ stale' \in [Client -> BOOLEAN] /\ stale'[c] = stale[c]
           /\ \A d \in Client \ {c} : (stale[d] => stale'[d]) /\ (pc[d] # "idle" => stale'[d])
<1>1. stale \in [Client -> BOOLEAN]
    BY SameElsewhere
<1>. QED
    BY <1>1 DEF Files!Outdate

LEMMA StoreMovedAside ==
    ASSUME FilesInv, NEW c \in Client, Files!MoveAside(c)
    PROVE  Moves(c)
<1>1. /\ pc[c] = "moveAside"
      /\ UNCHANGED <<left, last, calls, crashes, req, seen, keep, new>>
    BY DEF Files!MoveAside, Files!local, Files!bounds
<1>2. /\ new[c] \in Seq(Files!Record) /\ Once(new[c]) /\ result[c] \in FileResult
      /\ temp[c] \in Files!Directory /\ Formed(temp[c]) /\ Once(temp[c].recs)
      /\ backup[c] = Files!Absent /\ lock = c
    BY <1>1, ClientFacts DEF Files!LockedSteps
<1>3. new' = [new EXCEPT ![c] = new[c]]
    BY <1>1, SameElsewhere
<1>4. /\ DoesAt("moveAside", req[c], seen[c]) /\ AppendsAt(c) /\ DeletesAt(c)
      /\ StandsIn(dir) /\ (Unharmed => InPlace(dir))
    BY <1>1 DEF FilesInv, FilesDo, FilesWrite, FilesPlaced, PlacedAt
<1>5. /\ DOMAIN pc = Client /\ DOMAIN backup = Client
      /\ dir \in Files!Directory /\ Formed(dir) /\ Once(dir.recs)
      /\ last \in Files!Directory /\ Formed(last) /\ left \subseteq Files!Directory
    BY DEF FilesInv, Files!TypeOK, FilesFormed, FilesOnce
<1>6. CASE /\ temp' = [temp EXCEPT ![c] = Files!Absent]
           /\ lock' = Nobody /\ Files!End(c, "failed") /\ UNCHANGED <<dir, backup, stale>>
  <2>1. /\ pc' = [pc EXCEPT ![c] = "idle"] /\ pc'[c] = "idle"
        /\ result' = [result EXCEPT ![c] = "failed"] /\ "failed" \in FileResult
    BY <1>5, <1>6 DEF Files!End, Files!Goto, FileResult
  <2>2. DoesAt("idle", req[c], seen[c]) /\ AppendsAt(c)' /\ DeletesAt(c)'
    BY <1>4, <2>1 DEF DoesAt, AppendsAt, DeletesAt
  <2>3. HolderGoes(c, "idle", new[c], "failed", Files!Absent)
    BY <1>1, <1>2, <1>3, <1>6, <2>1, <2>2, NoFiles DEF HolderGoes
  <2>. QED
    BY <2>3, HolderMoves
<1>7. CASE /\ backup' = IF Files!Exists(dir) THEN [backup EXCEPT ![c] = dir] ELSE backup
           /\ dir' = Files!Absent /\ stale' = Files!Outdate(c)
           /\ Files!Goto(c, "install") /\ UNCHANGED <<temp, lock, result>>
  <2>1. backup' = [backup EXCEPT ![c] = dir]
    <3>1. CASE Files!Exists(dir)
      BY <3>1, <1>7
    <3>2. CASE ~Files!Exists(dir)
      <4>1. dir = Files!Absent
        BY <3>2, <1>5, ContractsAssumption DEF Formed, Files!Exists
      <4>. QED
        BY <3>2, <4>1, <1>2, <1>7, SameElsewhere
    <3>. QED
      BY <3>1, <3>2
  <2>2. /\ pc' = [pc EXCEPT ![c] = "install"] /\ temp' = [temp EXCEPT ![c] = temp[c]]
        /\ result' = [result EXCEPT ![c] = result[c]]
    BY <1>7, SameElsewhere DEF Files!Goto
  <2>3. /\ stale' \in [Client -> BOOLEAN] /\ stale'[c] = stale[c]
        /\ \A d \in Client \ {c} : (stale[d] => stale'[d]) /\ (pc[d] # "idle" => stale'[d])
    BY <1>7, OutdatedAre
  <2>4. "install" \in FileLabel \ {"dead"} /\ "install" \in Files!LockedSteps
    BY DEF FileLabel, Files!LockedSteps
  <2>5. /\ MovesAlone(c) /\ pc'[c] = "install" /\ temp'[c] = temp[c] /\ backup'[c] = dir
        /\ req'[c] = req[c] /\ seen'[c] = seen[c]
    <3>1. HolderDoes(c, "install", new[c], result[c], temp[c], dir)
      BY <1>1, <1>2, <1>3, <1>5, <2>1, <2>2, <2>3, <2>4 DEF HolderDoes
    <3>. QED
      BY <3>1, HolderAlone
  <2>6. MovesStore(c)
    BY <1>1, <1>2, <1>5, <1>7, <2>3, <2>4, <2>5, NoFiles, ClientsAssumption DEF MovesStore
  <2>7. Files!LeftAside => Files!LeftAside'
    BY <1>1, <1>5, <2>1, <2>2 DEF Files!LeftAside
  <2>8. PlacedAt(c)'
    BY <1>1, <1>4, <1>7, <2>5, <2>7 DEF PlacedAt, StandsIn, InPlace, Unharmed
  <2>9. AppendsAt(c)'
    BY <1>1, <1>4, <2>5, <2>7 DEF AppendsAt
  <2>10. DeletesAt(c)'
    <3>1. ASSUME req[c].op = "delete", ~stale[c]
          PROVE  \/ Files!LeftAside'
                 \/ Files!Range(temp[c].recs) = Spared(last.recs, req[c].ids)
      <4>1. dir.whole /\ Files!Range(temp[c].recs) = Spared(dir.recs, req[c].ids)
        BY <1>1, <1>4, <3>1 DEF DeletesAt
      <4>. QED
        BY <4>1, <1>4, <2>7 DEF StandsIn
    <3>. QED
      BY <1>1, <2>3, <2>5, <3>1 DEF DeletesAt
  <2>11. DoesAt(pc'[c], req'[c], seen'[c])
    BY <1>4, <2>5 DEF DoesAt
  <2>. QED
    BY <2>5, <2>6, <2>8, <2>9, <2>10, <2>11 DEF Moves
<1>. QED
    BY <1>6, <1>7 DEF Files!MoveAside

LEMMA StoreInstalled ==
    ASSUME FilesInv, NEW c \in Client, Files!Install(c)
    PROVE  Moves(c)
<1>1. /\ pc[c] = "install" /\ temp' = [temp EXCEPT ![c] = Files!Absent]
      /\ stale' = Files!Outdate(c)
      /\ UNCHANGED <<calls, crashes, req, seen, keep, new>>
    BY DEF Files!Install, Files!local, Files!bounds
<1>2. /\ new[c] \in Seq(Files!Record) /\ Once(new[c]) /\ result[c] \in FileResult
      /\ temp[c] \in Files!Directory /\ Formed(temp[c]) /\ Once(temp[c].recs)
      /\ backup[c] \in Files!Directory /\ Formed(backup[c]) /\ Once(backup[c].recs)
      /\ lock = c
    BY <1>1, ClientFacts DEF Files!LockedSteps
<1>3. new' = [new EXCEPT ![c] = new[c]]
    BY <1>1, SameElsewhere
<1>4. /\ DoesAt("install", req[c], seen[c])
      /\ dir = Files!Absent /\ StandsIn(backup[c]) /\ (Unharmed => InPlace(backup[c]))
    BY <1>1 DEF FilesInv, FilesDo, FilesPlaced, PlacedAt
<1>5. /\ DOMAIN pc = Client /\ DOMAIN backup = Client
      /\ last \in Files!Directory /\ Formed(last) /\ left \subseteq Files!Directory
    BY DEF FilesInv, Files!TypeOK, FilesFormed
<1>6. /\ stale' \in [Client -> BOOLEAN]
      /\ \A d \in Client \ {c} : (stale[d] => stale'[d]) /\ (pc[d] # "idle" => stale'[d])
    BY <1>1, OutdatedAre
<1>7. CASE /\ dir' = temp[c] /\ last' = temp[c]
           /\ Files!Goto(c, "clean") /\ UNCHANGED <<lock, result, backup, left>>
  <2>1. /\ pc' = [pc EXCEPT ![c] = "clean"] /\ result' = [result EXCEPT ![c] = result[c]]
        /\ backup' = [backup EXCEPT ![c] = backup[c]]
    BY <1>7, SameElsewhere DEF Files!Goto
  <2>2. "clean" \in FileLabel \ {"dead"} /\ "clean" \in Files!LockedSteps
    BY DEF FileLabel, Files!LockedSteps
  <2>3. HolderDoes(c, "clean", new[c], result[c], Files!Absent, backup[c])
    BY <1>1, <1>2, <1>3, <1>6, <2>1, <2>2, NoFiles DEF HolderDoes
  <2>4. MovesAlone(c) /\ pc'[c] = "clean" /\ req'[c] = req[c] /\ seen'[c] = seen[c]
    BY <2>3, HolderAlone
  <2>5. MovesStore(c)
    BY <1>2, <1>5, <1>6, <1>7, <2>2, <2>4, ClientsAssumption DEF MovesStore
  <2>6. PlacedAt(c)' /\ AppendsAt(c)' /\ DeletesAt(c)'
    BY <1>7, <2>4 DEF PlacedAt, AppendsAt, DeletesAt
  <2>7. DoesAt(pc'[c], req'[c], seen'[c])
    BY <1>4, <2>4 DEF DoesAt
  <2>. QED
    BY <2>4, <2>5, <2>6, <2>7 DEF Moves
<1>8. CASE /\ \/ dir' = backup[c] /\ UNCHANGED left
              \/ Files!Exists(backup[c]) /\ left' = left \cup {backup[c]} /\ UNCHANGED dir
           /\ backup' = [backup EXCEPT ![c] = Files!Absent]
           /\ lock' = Nobody /\ Files!End(c, "failed") /\ UNCHANGED last
  <2>1. /\ pc' = [pc EXCEPT ![c] = "idle"] /\ result' = [result EXCEPT ![c] = "failed"]
    BY <1>8 DEF Files!End, Files!Goto
  <2>2. "idle" \in FileLabel \ {"dead"} /\ "idle" \notin Files!LockedSteps /\ "failed" \in FileResult
    BY DEF FileLabel, Files!Steps, Files!LockedSteps, FileResult
  <2>3. HolderDoes(c, "idle", new[c], "failed", Files!Absent, Files!Absent)
    BY <1>1, <1>2, <1>3, <1>6, <1>8, <2>1, <2>2, NoFiles DEF HolderDoes
  <2>4. MovesAlone(c) /\ pc'[c] = "idle" /\ req'[c] = req[c] /\ seen'[c] = seen[c]
    BY <2>3, HolderAlone
  <2>5. Files!LeftAside => Files!LeftAside'
    BY <1>1, <1>5, <1>8, <2>1 DEF Files!LeftAside
  <2>6. (StandsIn(dir) /\ (Unharmed => InPlace(dir)))'
    <3>1. CASE dir' = backup[c] /\ UNCHANGED left
      BY <1>1, <1>4, <1>8, <2>5, <3>1 DEF StandsIn, InPlace, Unharmed
    <3>2. CASE Files!Exists(backup[c]) /\ left' = left \cup {backup[c]} /\ UNCHANGED dir
      <4>1. /\ backup[c] = last => Files!LeftAside'
            /\ dir' = Files!Absent /\ ~Files!Exists(Files!Absent)
        BY <1>4, <1>8, <3>2, NoFiles DEF Files!LeftAside, Files!Exists
      <4>2. StandsIn(dir)'
        BY <1>4, <1>8, <2>5, <4>1 DEF StandsIn
      <4>3. InPlace(backup[c]) => InPlace(dir)'
        BY <1>8, <3>2, <4>1 DEF InPlace
      <4>. QED
        BY <1>1, <1>4, <4>2, <4>3 DEF Unharmed
    <3>. QED
      BY <1>8, <3>1, <3>2
  <2>7. MovesStore(c)
    <3>1. dir' \in Files!Directory /\ Formed(dir') /\ Once(dir'.recs) /\ left' \subseteq Files!Directory
      BY <1>2, <1>4, <1>5, <1>8, NoFiles
    <3>2. ~dir.whole
      BY <1>4, NoFiles
    <3>. QED
      BY <1>2, <1>5, <1>6, <1>8, <2>2, <2>4, <2>6, <3>1, <3>2, ClientsAssumption DEF MovesStore
  <2>8. PlacedAt(c)' /\ AppendsAt(c)' /\ DeletesAt(c)'
    BY <2>4 DEF PlacedAt, AppendsAt, DeletesAt
  <2>9. DoesAt(pc'[c], req'[c], seen'[c])
    BY <1>4, <2>4 DEF DoesAt
  <2>. QED
    BY <2>4, <2>7, <2>8, <2>9 DEF Moves
<1>. QED
    BY <1>7, <1>8 DEF Files!Install

LEMMA BackupCleaned ==
    ASSUME FilesInv, NEW c \in Client, Files!Clean(c)
    PROVE  Moves(c)
<1>1. /\ pc[c] = "clean" /\ pc' = [pc EXCEPT ![c] = "idle"] /\ lock' = Nobody
      /\ backup' = [backup EXCEPT ![c] = Files!Absent] /\ result' = [result EXCEPT ![c] = "written"]
      /\ UNCHANGED <<dir, temp, left, last, stale, calls, crashes, req, seen, keep, new>>
    BY DEF Files!Clean, Files!End, Files!Goto, Files!local, Files!bounds
<1>2. /\ new[c] \in Seq(Files!Record) /\ Once(new[c]) /\ temp[c] = Files!Absent /\ lock = c
    BY <1>1, ClientFacts DEF Files!LockedSteps
<1>3. /\ new' = [new EXCEPT ![c] = new[c]] /\ temp' = [temp EXCEPT ![c] = Files!Absent]
      /\ stale' \in [Client -> BOOLEAN]
    BY <1>1, <1>2, SameElsewhere
<1>4. "idle" \in FileLabel \ {"dead"} /\ "idle" \notin Files!LockedSteps /\ "written" \in FileResult
    BY DEF FileLabel, Files!Steps, Files!LockedSteps, FileResult
<1>5. HolderDoes(c, "idle", new[c], "written", Files!Absent, Files!Absent)
    BY <1>1, <1>2, <1>3, <1>4, NoFiles DEF HolderDoes
<1>6. MovesAlone(c) /\ pc'[c] = "idle" /\ req'[c] = req[c] /\ seen'[c] = seen[c]
    BY <1>5, HolderAlone
<1>7. (StandsIn(dir) /\ (Unharmed => InPlace(dir)))'
    BY <1>1 DEF FilesInv, FilesPlaced, PlacedAt, StandsIn, InPlace
<1>8. /\ dir \in Files!Directory /\ Formed(dir) /\ Once(dir.recs)
      /\ last \in Files!Directory /\ Formed(last) /\ left \subseteq Files!Directory
    BY DEF FilesInv, Files!TypeOK, FilesFormed, FilesOnce
<1>9. MovesStore(c)
    BY <1>1, <1>2, <1>4, <1>6, <1>7, <1>8, ClientsAssumption DEF MovesStore
<1>10. PlacedAt(c)' /\ AppendsAt(c)' /\ DeletesAt(c)'
    BY <1>6 DEF PlacedAt, AppendsAt, DeletesAt
<1>11. DoesAt(pc'[c], req'[c], seen'[c])
    BY <1>6 DEF FilesInv, FilesDo, DoesAt
<1>. QED
    BY <1>6, <1>9, <1>10, <1>11 DEF Moves

LEMMA StoreRemoved ==
    ASSUME FilesInv, NEW c \in Client, Files!RemoveTree(c) \/ Files!RemoveRest(c)
    PROVE  Moves(c)
<1>1. /\ pc[c] \in {"remove", "removing"}
      /\ UNCHANGED <<temp, backup, left, calls, crashes, req, seen, keep, new>>
    BY DEF Files!RemoveTree, Files!RemoveRest, Files!local, Files!bounds
<1>2. /\ new[c] \in Seq(Files!Record) /\ Once(new[c]) /\ result[c] \in FileResult
      /\ temp[c] = Files!Absent /\ backup[c] = Files!Absent /\ lock = c
    BY <1>1, ClientFacts DEF Files!LockedSteps
<1>3. /\ new' = [new EXCEPT ![c] = new[c]] /\ temp' = [temp EXCEPT ![c] = Files!Absent]
      /\ backup' = [backup EXCEPT ![c] = Files!Absent]
    BY <1>1, <1>2, SameElsewhere
<1>4. DoesAt(pc[c], req[c], seen[c]) /\ PlacedAt(c)
    BY DEF FilesInv, FilesDo, FilesPlaced
<1>5. /\ dir \in Files!Directory /\ Formed(dir) /\ Once(dir.recs)
      /\ last \in Files!Directory /\ Formed(last) /\ left \subseteq Files!Directory
    BY DEF FilesInv, Files!TypeOK, FilesFormed, FilesOnce
<1>6. /\ {"idle", "removing"} \subseteq FileLabel \ {"dead"}
      /\ "idle" \notin Files!LockedSteps /\ "removing" \in Files!LockedSteps
      /\ {"refused", "written", "failed"} \subseteq FileResult
    BY DEF FileLabel, Files!Steps, Files!LockedSteps, FileResult
<1>7. ASSUME NEW l \in {"idle", "removing"}, pc' = [pc EXCEPT ![c] = l],
             NEW o \in FileResult, result' = [result EXCEPT ![c] = o],
             stale' \in [Client -> BOOLEAN], \A d \in Client \ {c} : stale[d] => stale'[d]
      PROVE  /\ MovesAlone(c) /\ pc'[c] = l /\ req'[c] = req[c] /\ seen'[c] = seen[c]
             /\ DoesAt(pc'[c], req'[c], seen'[c]) /\ AppendsAt(c)' /\ DeletesAt(c)'
  <2>1. HolderDoes(c, l, new[c], o, Files!Absent, Files!Absent)
    BY <1>1, <1>2, <1>3, <1>6, <1>7, NoFiles DEF HolderDoes
  <2>2. MovesAlone(c) /\ pc'[c] = l /\ req'[c] = req[c] /\ seen'[c] = seen[c]
    BY <2>1, HolderAlone
  <2>. QED
    BY <1>4, <1>7, <2>2 DEF DoesAt, AppendsAt, DeletesAt
<1>8. stale \in [Client -> BOOLEAN]
    BY SameElsewhere
<1>9. ASSUME pc[c] = "remove", dir.whole, dir' = [dir EXCEPT !.whole = FALSE],
             last' = Files!Absent, stale' = Files!Outdate(c),
             Files!Goto(c, "removing"), UNCHANGED <<lock, result>>
      PROVE  Moves(c)
  <2>1. /\ stale' \in [Client -> BOOLEAN]
        /\ \A d \in Client \ {c} : (stale[d] => stale'[d]) /\ (pc[d] # "idle" => stale'[d])
    BY <1>9, OutdatedAre
  <2>2. pc' = [pc EXCEPT ![c] = "removing"] /\ result' = [result EXCEPT ![c] = result[c]]
    BY <1>9, SameElsewhere DEF Files!Goto
  <2>3. /\ MovesAlone(c) /\ pc'[c] = "removing"
        /\ DoesAt(pc'[c], req'[c], seen'[c]) /\ AppendsAt(c)' /\ DeletesAt(c)'
    BY <1>2, <1>7, <2>1, <2>2
  <2>4. /\ dir' \in Files!Directory /\ Formed(dir') /\ Once(dir'.recs) /\ ~dir'.whole
    <3>1. dir.con \in Contract
      BY <1>9, StoreIsRead
    <3>2. /\ dir' \in Files!Directory /\ dir'.con = dir.con /\ dir'.recs = dir.recs
          /\ dir'.whole = FALSE
      BY <1>5, <1>9 DEF Files!Directory
    <3>. QED
      BY <1>5, <3>1, <3>2 DEF Formed
  <2>5. MovesStore(c)
    BY <1>1, <1>2, <1>5, <1>6, <1>9, <2>1, <2>3, <2>4, NoFiles, ClientsAssumption DEF MovesStore
  <2>6. PlacedAt(c)'
    BY <1>9, <2>3, <2>4 DEF PlacedAt
  <2>. QED
    BY <2>3, <2>5, <2>6 DEF Moves
<1>10. ASSUME lock' = Nobody, NEW o \in FileResult, Files!End(c, o), UNCHANGED stale,
              last' = last, dir' \in Files!Directory, Formed(dir'), Once(dir'.recs),
              UNCHANGED dir \/ ~dir.whole,
              (StandsIn(dir) /\ (Unharmed => InPlace(dir)))'
       PROVE  Moves(c)
  <2>1. pc' = [pc EXCEPT ![c] = "idle"] /\ result' = [result EXCEPT ![c] = o]
    BY <1>10 DEF Files!End, Files!Goto
  <2>2. /\ MovesAlone(c) /\ pc'[c] = "idle"
        /\ DoesAt(pc'[c], req'[c], seen'[c]) /\ AppendsAt(c)' /\ DeletesAt(c)'
    BY <1>7, <1>8, <1>10, <2>1
  <2>3. MovesStore(c)
    BY <1>1, <1>2, <1>5, <1>6, <1>10, <2>2, ClientsAssumption DEF MovesStore
  <2>4. PlacedAt(c)'
    BY <2>2 DEF PlacedAt
  <2>. QED
    BY <2>2, <2>3, <2>4 DEF Moves
<1>11. CASE Files!RemoveTree(c)
  <2>1. ASSUME NEW o \in FileResult, lock' = Nobody, Files!End(c, o), UNCHANGED <<dir, last, stale>>
        PROVE  Moves(c)
    <3>2. Files!LeftAside => Files!LeftAside'
      <4>1. pc' = [pc EXCEPT ![c] = "idle"] /\ DOMAIN pc = Client
        BY <2>1 DEF Files!End, Files!Goto, FilesInv, Files!TypeOK
      <4>. QED
        BY <1>1, <2>1, <4>1 DEF Files!LeftAside
    <3>3. (StandsIn(dir) /\ (Unharmed => InPlace(dir)))'
      BY <1>1, <1>4, <1>11, <2>1, <3>2 DEF Files!RemoveTree, PlacedAt, StandsIn, InPlace, Unharmed
    <3>. QED
      BY <1>5, <1>10, <2>1, <3>3
  <2>2. CASE dir.whole /\ lock' = Nobody /\ Files!End(c, "failed") /\ UNCHANGED <<dir, last, stale>>
    BY <1>6, <2>1, <2>2
  <2>3. CASE /\ ~dir.whole /\ lock' = Nobody
             /\ Files!End(c, IF Files!Exists(dir) THEN "refused" ELSE "written")
             /\ UNCHANGED <<dir, last, stale>>
    <3> DEFINE o == IF Files!Exists(dir) THEN "refused" ELSE "written"
    <3>1. o \in FileResult /\ Files!End(c, o)
      BY <1>6, <2>3
    <3> HIDE DEF o
    <3>. QED
      BY <2>1, <2>3, <3>1
  <2>. QED
    BY <1>9, <1>11, <2>2, <2>3 DEF Files!RemoveTree
<1>12. CASE Files!RemoveRest(c)
  <2>1. /\ pc[c] = "removing" /\ lock' = Nobody /\ UNCHANGED <<last, stale>>
        /\ \/ dir' = Files!Absent /\ Files!End(c, "written")
           \/ UNCHANGED dir /\ Files!End(c, "failed")
    BY <1>12 DEF Files!RemoveRest
  <2>2. last = Files!Absent /\ ~dir.whole
    BY <1>4, <2>1 DEF PlacedAt
  <2>3. /\ dir' \in Files!Directory /\ Formed(dir') /\ Once(dir'.recs) /\ ~dir'.whole
        /\ \E o \in FileResult : Files!End(c, o)
    BY <1>5, <1>6, <2>1, <2>2, NoFiles
  <2>4. (StandsIn(dir) /\ (Unharmed => InPlace(dir)))'
    BY <2>1, <2>2, <2>3 DEF StandsIn, InPlace
  <2>. QED
    BY <1>10, <2>1, <2>2, <2>3, <2>4
<1>. QED
    BY <1>11, <1>12

------------------------------------------------------------------------------
(* The invariant, and what follows from it *)

\* A process that is killed leaves the store in place, or holds it aside.
LEMMA ProcessKilled ==
    ASSUME FilesInv, NEW c \in Client, Files!Crash(c)
    PROVE  FilesInv'
<1>1. /\ crashes < MaxCrashes /\ crashes' = crashes + 1
      /\ pc[c] # "dead" /\ pc' = [pc EXCEPT ![c] = "dead"]
      /\ lock' = IF lock = c THEN Nobody ELSE lock
      /\ UNCHANGED <<dir, temp, backup, left, req, seen, keep, new, result, calls, last, stale>>
    BY DEF Files!Crash, Files!Goto, Files!local
<1>2. /\ DOMAIN pc = Client /\ crashes \in 0..MaxCrashes
      /\ pc'[c] = "dead" /\ \A d \in Client \ {c} : pc'[d] = pc[d]
      /\ \A d \in Client : lock = d <=> pc[d] \in Files!LockedSteps
    BY <1>1 DEF FilesInv, Files!TypeOK
<1>3. crashes' \in 0..MaxCrashes /\ ~Unharmed'
    BY <1>1, <1>2, BoundsAssumption DEF Unharmed
<1>4. Files!LeftAside => Files!LeftAside'
    BY <1>1, <1>2 DEF Files!LeftAside
<1>5. \A d : StandsIn(d) => StandsIn(d)'
    BY <1>1, <1>4 DEF StandsIn
<1>6. \A d \in Client : lock' = d <=> pc'[d] \in Files!LockedSteps
    BY <1>1, <1>2, ClientsAssumption DEF Files!LockedSteps
<1>7. Files!TypeOK'
  <2>1. pc' \in [Client -> Files!Steps \cup Files!LockedSteps]
    <3>1. pc \in [Client -> Files!Steps \cup Files!LockedSteps] /\ "dead" \in Files!Steps
      BY DEF FilesInv, Files!TypeOK, Files!Steps
    <3>. QED
      BY <1>1, <3>1
  <2>2. lock' \in Client \cup {Nobody}
    BY <1>1 DEF FilesInv, Files!TypeOK
  <2>3. \A d \in Client :
          /\ temp'[d] # Files!Absent => pc'[d] \in {"moveAside", "install", "dead"}
          /\ backup'[d] # Files!Absent => pc'[d] \in {"install", "clean", "dead"}
    BY <1>1, <1>2 DEF FilesInv, Files!TypeOK
  <2>. QED
    BY <1>1, <1>3, <1>6, <2>1, <2>2, <2>3 DEF FilesInv, Files!TypeOK
<1>8. FilesOnce' /\ FilesFormed'
    BY <1>1 DEF FilesInv, FilesOnce, FilesFormed
<1>9. FilesDo'
  <2>1. \A d \in Client : DoesAt(pc[d], req[d], seen[d])
    BY DEF FilesInv, FilesDo
  <2>2. DoesAt("dead", req[c], seen[c])
    BY <2>1 DEF DoesAt
  <2>3. \A d \in Client : DoesAt(pc'[d], req[d], seen[d])
    BY <1>2, <2>1, <2>2
  <2>. QED
    BY <1>1, <2>3 DEF FilesDo
<1>10. FilesPlaced'
  <2>1. \A d \in Client : PlacedAt(d)'
    BY <1>1, <1>2, <1>3, <1>5 DEF FilesInv, FilesPlaced, PlacedAt
  <2>2. ASSUME lock' = Nobody PROVE StandsIn(dir)'
    <3>1. CASE lock = Nobody
      BY <1>1, <1>5, <3>1 DEF FilesInv, FilesPlaced
    <3>2. CASE lock = c
      <4>1. PlacedAt(c) /\ pc[c] \in Files!LockedSteps
        BY <1>2, <3>2 DEF FilesInv, FilesPlaced
      <4>2. CASE pc[c] = "install"
        <5>1. dir = Files!Absent /\ StandsIn(backup[c])
          BY <4>1, <4>2 DEF PlacedAt
        <5>2. backup[c] = last => Files!LeftAside'
          BY <1>1, <1>2 DEF Files!LeftAside
        <5>. QED
          BY <1>1, <1>4, <5>1, <5>2 DEF StandsIn
      <4>3. CASE pc[c] # "install"
        <5>1. StandsIn(dir)
          BY <4>1, <4>3 DEF PlacedAt, StandsIn, Files!LockedSteps
        <5>. QED
          BY <1>1, <1>5, <5>1
      <4>. QED
        BY <4>2, <4>3
    <3>. QED
      BY <1>1, <2>2, <3>1, <3>2
  <2>. QED
    BY <1>3, <2>1, <2>2 DEF FilesPlaced
<1>11. FilesWrite'
  <2> SUFFICES ASSUME NEW d \in Client PROVE AppendsAt(d)' /\ DeletesAt(d)'
    BY DEF FilesWrite
  <2>1. AppendsAt(d) /\ DeletesAt(d)
    BY DEF FilesInv, FilesWrite
  <2>2. pc'[d] = pc[d] \/ pc'[d] = "dead"
    BY <1>2
  <2>. QED
    BY <1>1, <1>4, <2>1, <2>2 DEF AppendsAt, DeletesAt
<1>. QED
    BY <1>7, <1>8, <1>9, <1>10, <1>11 DEF FilesInv

LEMMA FilesStart == Files!Init => FilesInv
<1> SUFFICES ASSUME Files!Init PROVE FilesInv
    OBVIOUS
<1>1. /\ dir \in Files!Stored /\ lock = Nobody /\ calls = 0 /\ crashes = 0 /\ last = dir
      /\ \A c \in Client :
           /\ temp[c] = Files!Absent /\ backup[c] = Files!Absent /\ pc[c] = "idle"
           /\ req[c] = Files!NoReq /\ seen[c] = Files!NoRead /\ new[c] = <<>>
      /\ left = {}
    BY DEF Files!Init
<1>2. dir \in Files!Directory /\ Formed(dir) /\ Once(dir.recs)
  <2>1. CASE dir = Files!Absent
    BY <2>1, NoFiles
  <2>2. CASE dir # Files!Absent
    <3>1. PICK con \in Contract, ids \in SUBSET Id :
              \E list \in Files!Points(ids, 0) : dir = Files!Files(con, list)
      BY <1>1, <2>2 DEF Files!Stored
    <3>2. PICK list \in Files!Points(ids, 0) : dir = Files!Files(con, list)
      BY <3>1
    <3>3. list \in Seq(Files!Record) /\ Once(list)
      BY <3>2, PointsAreRecords
    <3>4. dir \in Files!Directory /\ dir.con = con /\ dir.recs = list
      BY <3>2, <3>3 DEF Files!Files, Files!Directory
    <3>. QED
      BY <3>3, <3>4 DEF Formed
  <2>. QED
    BY <2>1, <2>2
<1>3. /\ Files!NoReq \in FileRequest /\ Files!NoRead \in FileRead
      /\ <<>> \in Seq(Files!Record) /\ Once(<<>>) /\ Once(Files!NoRead.meta)
    BY DEF Files!NoReq, Files!NoRead, FileRequest, FileRead, Once
<1>4. Files!TypeOK
  <2>1. /\ req \in [Client -> FileRequest] /\ seen \in [Client -> FileRead]
        /\ new \in [Client -> Seq(Files!Record)]
    BY <1>3 DEF Files!Init
  <2>2. temp \in [Client -> Files!Directory] /\ backup \in [Client -> Files!Directory]
    BY NoFiles DEF Files!Init
  <2>3. /\ pc \in [Client -> Files!Steps \cup Files!LockedSteps] /\ keep \in [Client -> SUBSET Nat]
        /\ result \in [Client -> FileResult] /\ stale \in [Client -> BOOLEAN]
    BY DEF Files!Init, Files!Steps, FileResult
  <2>4. \A c \in Client : lock = c <=> pc[c] \in Files!LockedSteps
    BY <1>1, ClientsAssumption DEF Files!LockedSteps
  <2>5. calls \in 0..MaxCalls /\ crashes \in 0..MaxCrashes
    BY <1>1, BoundsAssumption
  <2>6. /\ dir \in Files!Directory /\ last \in Files!Directory /\ lock \in Client \cup {Nobody}
        /\ \A c \in Client :
             /\ temp[c] # Files!Absent => pc[c] \in {"moveAside", "install", "dead"}
             /\ backup[c] # Files!Absent => pc[c] \in {"install", "clean", "dead"}
    BY <1>1, <1>2
  <2>. QED
    BY <1>1, <2>1, <2>2, <2>3, <2>4, <2>5, <2>6 DEF Files!TypeOK, FileRequest, FileRead, FileResult
<1>5. FilesOnce /\ FilesFormed
    BY <1>1, <1>2, <1>3, NoFiles DEF FilesOnce, FilesFormed
<1>6. FilesDo
  <2>1. Files!NoReq.op \notin Files!Writes \cup {"update"}
    BY DEF Files!NoReq, Files!Writes
  <2>. QED
    BY <1>1, <2>1 DEF FilesDo, DoesAt
<1>7. FilesPlaced
    BY <1>1 DEF FilesPlaced, PlacedAt, StandsIn, InPlace
<1>8. FilesWrite
    BY <1>1 DEF FilesWrite, AppendsAt, DeletesAt
<1>. QED
    BY <1>4, <1>5, <1>6, <1>7, <1>8 DEF FilesInv

LEMMA FileStepMoves ==
    ASSUME FilesInv, NEW c \in Client, Files!Call(c) \/ Files!Step(c)
    PROVE  Moves(c)
BY ClientCalls, RequestChecked, MetadataRead, VectorsRead, ReadReturns, RetainedSelected,
   VectorsReread, LockAcquired, WriteMerges, FilesBuilt, StoreMovedAside, StoreInstalled,
   BackupCleaned, StoreRemoved
   DEF Files!Step

LEMMA FilesRest ==
    ASSUME FilesInv, UNCHANGED Files!vars
    PROVE  FilesInv'
<1>1. UNCHANGED <<dir, temp, backup, left, lock, pc, req, seen, keep, new, result, calls, crashes,
                  last, stale>>
    BY DEF Files!vars, Files!disk, Files!local, Files!bounds
<1>2. Files!TypeOK' /\ FilesOnce' /\ FilesFormed' /\ FilesDo'
    BY <1>1 DEF FilesInv, Files!TypeOK, FilesOnce, FilesFormed, FilesDo
<1>3. Files!LeftAside' <=> Files!LeftAside
    BY <1>1 DEF Files!LeftAside
<1>4. FilesPlaced'
    BY <1>1, <1>3 DEF FilesInv, FilesPlaced, PlacedAt, StandsIn, InPlace, Unharmed
<1>5. FilesWrite'
    BY <1>1, <1>3 DEF FilesInv, FilesWrite, AppendsAt, DeletesAt
<1>. QED
    BY <1>2, <1>4, <1>5 DEF FilesInv

LEMMA FilesSteps == FilesInv /\ [Files!Next]_(Files!vars) => FilesInv'
<1> SUFFICES ASSUME FilesInv, [Files!Next]_(Files!vars) PROVE FilesInv'
    OBVIOUS
<1>1. CASE UNCHANGED Files!vars \/ Files!Rest
    BY <1>1, FilesRest DEF Files!Rest
<1>2. ASSUME NEW c \in Client, Files!Call(c) \/ Files!Step(c) PROVE FilesInv'
    BY <1>2, FileStepMoves, MoveKeeps
<1>3. ASSUME NEW c \in Client, Files!Crash(c) PROVE FilesInv'
    BY <1>3, ProcessKilled
<1>. QED
    BY <1>1, <1>2, <1>3 DEF Files!Next

\* The committed store is on the disk: in place, or held or left aside.
LEMMA StoreIsThere == FilesInv => Files!StoreSurvives
<1> SUFFICES ASSUME FilesInv PROVE Files!StoreSurvives
    OBVIOUS
<1>1. Files!Exists(last) => last # Files!Absent
    BY NoFiles DEF Files!Exists
<1>2. ASSUME NEW d, StandsIn(d), Files!Exists(last)
      PROVE  d = last \/ last \in left \/ \E c \in Client : backup[c] = last
    BY <1>1, <1>2 DEF StandsIn, Files!LeftAside
<1>3. Files!CommittedSurvives
  <2> SUFFICES ASSUME Files!Exists(last)
               PROVE  dir = last \/ last \in left \/ \E c \in Client : backup[c] = last
    BY DEF Files!CommittedSurvives
  <2>1. CASE lock = Nobody
    BY <2>1, <1>2 DEF FilesInv, FilesPlaced
  <2>2. CASE lock # Nobody
    <3>1. PICK c \in Client : lock = c
      BY <2>2 DEF FilesInv, Files!TypeOK
    <3>2. pc[c] \in Files!LockedSteps /\ PlacedAt(c)
      BY <3>1 DEF FilesInv, Files!TypeOK, FilesPlaced
    <3>. QED
      BY <3>2, <1>1, <1>2 DEF PlacedAt, Files!LockedSteps
  <2>. QED
    BY <2>1, <2>2
<1>4. Files!FailureRestores
  <2> SUFFICES ASSUME lock = Nobody, crashes = 0
               PROVE  dir = last \/ Files!NotPutBack \/ Files!HalfRemoved
    BY DEF Files!FailureRestores
  <2>1. InPlace(dir) /\ Formed(dir)
    BY DEF FilesInv, FilesPlaced, FilesFormed, Unharmed
  <2>. QED
    BY <2>1, ContractsAssumption DEF InPlace, Formed, Files!NotPutBack, Files!HalfRemoved, Files!Exists
<1>5. Files!UniqueIds
    BY DEF Files!UniqueIds, FilesInv, FilesOnce, Once
<1>. QED
    BY <1>3, <1>4, <1>5 DEF Files!StoreSurvives

\* Where a client commits: at the rename that installs its files, and at the first file
\* that it removes.
LEMMA CommitsAre ==
    ASSUME FilesInv, [Files!Next]_(Files!vars), NEW c \in Client, Files!Commits(c)
    PROVE  \/ pc[c] = "install" /\ last' = temp[c]
           \/ pc[c] = "remove" /\ dir.whole /\ last' = Files!Absent
<1>1. DOMAIN pc = Client /\ pc'[c] # pc[c]
    BY DEF Files!Commits, FilesInv, Files!TypeOK
<1>2. /\ ~UNCHANGED Files!vars /\ ~Files!Rest
    BY <1>1 DEF Files!vars, Files!Rest
<1>3. ASSUME NEW d \in Client, d # c, Files!Call(d) \/ Files!Step(d) \/ Files!Crash(d) PROVE FALSE
  <2>1. CASE Files!Crash(d)
    BY <1>1, <1>3, <2>1 DEF Files!Crash, Files!Goto
  <2>2. CASE Files!Call(d) \/ Files!Step(d)
    BY <1>1, <1>3, <2>2, FileStepMoves DEF Moves, MovesAlone
  <2>. QED
    BY <1>3, <2>1, <2>2
<1>4. Files!Call(c) \/ Files!Step(c) \/ Files!Crash(c)
    BY <1>2, <1>3 DEF Files!Next
<1>5. /\ pc[c] \in {"install", "remove"}
      /\ pc'[c] \in {"clean", "removing"}
    BY DEF Files!Commits
<1>6. ~Files!Crash(c) /\ ~Files!Call(c)
  <2>1. ASSUME Files!Crash(c) PROVE FALSE
    BY <1>1, <1>5, <2>1 DEF Files!Crash, Files!Goto
  <2>2. ASSUME Files!Call(c) PROVE FALSE
    BY <1>5, <2>2 DEF Files!Call
  <2>. QED
    BY <2>1, <2>2
<1>7. Files!Install(c) \/ Files!RemoveTree(c)
  <2>1. ASSUME Files!CheckRequest(c) \/ Files!ReadMetadata(c) \/ Files!ReadVectors(c)
               \/ Files!Return(c) \/ Files!Select(c) \/ Files!RereadMetadata(c)
               \/ Files!RereadVectors(c)
        PROVE  FALSE
    BY <1>5, <2>1 DEF Files!CheckRequest, Files!ReadMetadata, Files!ReadVectors, Files!Return,
           Files!Select, Files!RereadMetadata, Files!RereadVectors
  <2>2. ASSUME Files!AcquireLock(c) \/ Files!Merge(c) \/ Files!Build(c) \/ Files!MoveAside(c)
               \/ Files!Clean(c) \/ Files!RemoveRest(c)
        PROVE  FALSE
    BY <1>5, <2>2 DEF Files!AcquireLock, Files!Merge, Files!Build, Files!MoveAside, Files!Clean,
           Files!RemoveRest
  <2>. QED
    BY <1>4, <1>6, <2>1, <2>2 DEF Files!Step
<1>8. CASE Files!Install(c)
    BY <1>1, <1>5, <1>8 DEF Files!Install, Files!End, Files!Goto
<1>9. CASE Files!RemoveTree(c)
    BY <1>1, <1>5, <1>9 DEF Files!RemoveTree, Files!End, Files!Goto
<1>. QED
    BY <1>7, <1>8, <1>9

LEMMA CommitsAreExact ==
    ASSUME FilesInv, [Files!Next]_(Files!vars), NEW c \in Client
    PROVE  Files!WriteIsExact(c)
<1>1. AppendsAt(c) /\ DeletesAt(c) /\ DoesAt(pc[c], req[c], seen[c]) /\ PlacedAt(c)
    BY DEF FilesInv, FilesWrite, FilesDo, FilesPlaced
<1>2. Files!AppendKeeps(c)
  <2> SUFFICES ASSUME pc[c] = "install", pc'[c] = "clean", ~Files!LeftAside,
                      req[c].op \in {"insert", "upsert", "update"},
                      NEW r \in Files!Range(last.recs)
               PROVE  r.id \in req[c].ids \/ r \in Files!Range(last'.recs)
    BY DEF Files!AppendKeeps
  <2>1. last' = temp[c]
    <3>1. Files!Commits(c)
      BY DEF Files!Commits
    <3>. QED
      BY <3>1, CommitsAre
  <2>2. Spared(last.recs, req[c].ids) \subseteq Files!Range(temp[c].recs)
    BY <1>1 DEF AppendsAt
  <2>. QED
    BY <2>1, <2>2 DEF Spared
<1>3. Files!DeletionIsExact(c)
  <2> SUFFICES ASSUME Files!Commits(c), req[c].op = "delete", ~stale[c], ~Files!LeftAside
               PROVE  Files!Range(last'.recs) = Files!Range(last.recs) \ Files!Removes(c)
    BY DEF Files!DeletionIsExact
  <2>1. Files!Range(last.recs) \ Files!Removes(c) = Spared(last.recs, req[c].ids)
    BY DEF Files!Removes, Spared
  <2>2. CASE pc[c] = "install" /\ last' = temp[c]
    BY <1>1, <2>1, <2>2 DEF DeletesAt
  <2>3. CASE pc[c] = "remove" /\ dir.whole /\ last' = Files!Absent
    <3>1. Spared(dir.recs, req[c].ids) = {} /\ StandsIn(dir)
      BY <1>1, <2>3 DEF DeletesAt, PlacedAt
    <3>2. Spared(last.recs, req[c].ids) = {}
      BY <2>3, <3>1 DEF StandsIn
    <3>3. Files!Range(last'.recs) = {}
      <4>1. Files!Range(<<>>) = {}
        BY DEF Files!Range
      <4>. QED
        BY <2>3, <4>1, NoFiles
    <3>. QED
      BY <2>1, <3>2, <3>3
  <2>. QED
    BY <2>2, <2>3, CommitsAre
<1>. QED
    BY <1>2, <1>3 DEF Files!WriteIsExact

LEMMA FilesAreKept ==
    ASSUME which = "files" => FilesInv, [RetrievalNext]_all, which' = "files"
    PROVE  which = "files" /\ [Files!Next]_(Files!vars)
<1>1. which = "files" /\ (FilesNext \/ UNCHANGED all)
    BY DEF RetrievalNext, FilesNext, BackendsNext, SearchNext, Stopped, all
<1>. QED
    BY <1>1 DEF FilesNext, all, Files!vars, Files!disk, Files!local, Files!bounds

\* base.py, _replace_local_points: wherever a writer fails or is killed, the committed
\* store of an index is in place or in a backup of it, and it holds no record id twice.
\* Whenever nobody is writing and no process was killed it is in place, unless the rename
\* that should have put it back failed or its removal failed half way.
THEOREM StoreAlwaysSurvives == RetrievalSpec => []StoreSurvives
<1> DEFINE Inv == which = "files" => FilesInv
<1>1. RetrievalInit => Inv
    BY FilesStart DEF RetrievalInit, FilesInit, BackendsInit, SearchInit
<1>2. Inv /\ [RetrievalNext]_all => Inv'
    BY FilesAreKept, FilesSteps
<1>3. Inv => StoreSurvives
    BY StoreIsThere DEF StoreSurvives
<1>. QED
    BY <1>1, <1>2, <1>3, PTL DEF RetrievalSpec

\* base.py, write_points and delete_ids: what a committed append and a committed deletion
\* leave in the store is exact, whatever other clients did in the meantime.
THEOREM WritesAreAlwaysExact == RetrievalSpec => WritesAreExact
<1> DEFINE Inv == which = "files" => FilesInv
           Exact == which = "files" => \A c \in Client : Files!WriteIsExact(c)
<1>1. RetrievalInit => Inv
    BY FilesStart DEF RetrievalInit, FilesInit, BackendsInit, SearchInit
<1>2. Inv /\ [RetrievalNext]_all => Inv'
    BY FilesAreKept, FilesSteps
<1>3. Inv /\ [RetrievalNext]_all => [Exact]_all
  <2> SUFFICES ASSUME Inv, RetrievalNext, which = "files" PROVE \A c \in Client : Files!WriteIsExact(c)
    OBVIOUS
  <2>1. which' = "files"
    BY DEF RetrievalNext, FilesNext, BackendsNext, SearchNext, Stopped, all
  <2>. QED
    BY <2>1, FilesAreKept, CommitsAreExact
<1>. QED
    BY <1>1, <1>2, <1>3, PTL DEF RetrievalSpec, WritesAreExact

------------------------------------------------------------------------------
(* The searches of the adapters *)

LEMMA SearchCounts == \A S : Search!Cardinality(S) = Cardinality(S)
BY DEF Search!Cardinality, Cardinality

LEMMA ClausesAreFinite == IsFiniteSet(Search!Clause)
<1> DEFINE a == [op |-> "exists", val |-> 0]
           b == [op |-> "eq", val |-> 1]
           c == [op |-> "gt", val |-> 1]
           d == [op |-> "lte", val |-> 1]
<1>1. Search!Clause = (({a} \cup {b}) \cup {c}) \cup {d}
    BY DEF Search!Clause
<1> HIDE DEF a, b, c, d
<1>2. IsFiniteSet({a})
    BY FS_Singleton
<1>3. IsFiniteSet({a} \cup {b})
    BY <1>2, FS_AddElement
<1>4. IsFiniteSet(({a} \cup {b}) \cup {c})
    BY <1>3, FS_AddElement
<1>5. IsFiniteSet((({a} \cup {b}) \cup {c}) \cup {d})
    BY <1>4, FS_AddElement
<1>. QED
    BY <1>1, <1>5

\* Without nulls, and unless a number of "should" matches is asked for, the query language
\* of a service and the shared filter agree.
LEMMA TranslatedMatches ==
    ASSUME NEW f, f.should \subseteq Search!Clause, f.minimum = -1, NEW x, x # 0
    PROVE  Search!Translated(f, x) <=> Search!Matches(x, f)
<1> DEFINE T == {cl \in f.should : Search!MatchesClause(x, cl)}
<1>1. IsFiniteSet(T)
  <2>1. T \subseteq Search!Clause
    OBVIOUS
  <2>. QED
    BY <2>1, ClausesAreFinite, FS_Subset
<1>2. Cardinality(T) \in Nat /\ (Cardinality(T) = 0 <=> T = {})
    BY <1>1, FS_CardinalityType, FS_EmptySet
<1>3. Search!Cardinality(T) >= Search!Minimum(f) <=> f.should = {} \/ T # {}
  <2>1. Search!Minimum(f) = IF f.should = {} THEN 0 ELSE 1
    BY DEF Search!Minimum
  <2>2. Search!Cardinality(T) = Cardinality(T)
    BY SearchCounts
  <2> HIDE DEF T
  <2>. QED
    BY <1>2, <2>1, <2>2
<1>4. Search!Matches(x, f) <=>
          /\ \A cl \in f.must : Search!MatchesClause(x, cl)
          /\ \A cl \in f.mustNot : ~Search!MatchesClause(x, cl)
          /\ f.should = {} \/ T # {}
    BY <1>3 DEF Search!Matches
<1>5. T # {} <=> \E cl \in f.should : Search!MatchesClause(x, cl)
    OBVIOUS
<1> HIDE DEF T
<1>. QED
    BY <1>4, <1>5 DEF Search!Translated

\* What is nearer than one of the n nearest is one of them.
LEMMA NearestAreClosed ==
    ASSUME NEW S \in SUBSET Nat, IsFiniteSet(S), NEW n \in Nat,
           NEW i \in Search!Take(n, S), NEW j \in S, j <= i
    PROVE  j \in Search!Take(n, S)
<1> DEFINE Below(x) == {l \in S : l <= x}
<1>1. IsFiniteSet(Below(i)) /\ Below(j) \subseteq Below(i)
  <2>1. Below(i) \subseteq S
    OBVIOUS
  <2>2. i \in Nat /\ j \in Nat
    BY DEF Search!Take
  <2>3. ASSUME NEW l \in S, l <= j PROVE l <= i
    <3>1. l \in Nat
      OBVIOUS
    <3>. QED
      BY <2>2, <2>3, <3>1
  <2>4. Below(j) \subseteq Below(i)
    BY <2>3
  <2> HIDE DEF Below
  <2>. QED
    BY <2>1, <2>4, FS_Subset
<1>2. /\ Cardinality(Below(j)) <= Cardinality(Below(i))
      /\ Cardinality(Below(j)) \in Nat /\ Cardinality(Below(i)) \in Nat
    BY <1>1, FS_Subset, FS_CardinalityType
<1>3. Cardinality(Below(i)) <= n
    BY SearchCounts DEF Search!Take
<1>4. Cardinality(Below(j)) <= n
  <2> HIDE DEF Below
  <2>. QED
    BY <1>2, <1>3
<1>. QED
    BY <1>4, SearchCounts DEF Search!Take

LEMMA NearestOfNearest ==
    ASSUME NEW S \in SUBSET Nat, IsFiniteSet(S), NEW n \in Nat
    PROVE  Search!Take(n, Search!Take(n, S)) = Search!Take(n, S)
<1> DEFINE T == Search!Take(n, S)
<1>1. T \subseteq S
    BY DEF Search!Take
<1>2. ASSUME NEW i \in T PROVE {j \in T : j <= i} = {j \in S : j <= i}
    BY <1>1, NearestAreClosed
<1>3. \A i \in T : Search!Cardinality({j \in S : j <= i}) <= n
    BY DEF Search!Take
<1>4. Search!Take(n, T) = {i \in T : Search!Cardinality({j \in T : j <= i}) <= n}
    BY DEF Search!Take
<1> HIDE DEF T
<1>5. \A i \in T : Search!Cardinality({j \in T : j <= i}) <= n
    BY <1>2, <1>3
<1>6. Search!Take(n, T) = T
    BY <1>4, <1>5
<1>. QED
    BY <1>6 DEF T

\* A threshold commutes with the limit.
LEMMA NearestWithin ==
    ASSUME NEW S \in SUBSET Nat, NEW n \in Nat, NEW r, r.threshold \in Nat
    PROVE  Search!Nearer(Search!Take(n, S), r) = Search!Take(n, Search!Nearer(S, r))
<1> DEFINE D == Search!Nearer(S, r)
<1>1. D = {i \in S : i <= r.threshold}
    BY DEF Search!Nearer
<1>2. ASSUME NEW i \in D PROVE {j \in D : j <= i} = {j \in S : j <= i}
  <2>1. i \in S /\ i \in Nat /\ i <= r.threshold
    BY <1>1
  <2>2. \A j \in S : j \in Nat /\ (j <= i => j <= r.threshold)
    BY <2>1
  <2> HIDE DEF D
  <2>. QED
    BY <1>1, <2>2
<1>3. Search!Take(n, D) = {i \in D : Search!Cardinality({j \in D : j <= i}) <= n}
    BY DEF Search!Take
<1> HIDE DEF D
<1>4. Search!Take(n, D) = {i \in D : Search!Cardinality({j \in S : j <= i}) <= n}
    BY <1>2, <1>3
<1>5. Search!Nearer(Search!Take(n, S), r) = {i \in D : Search!Cardinality({j \in S : j <= i}) <= n}
    BY <1>1 DEF Search!Nearer, Search!Take
<1>. QED
    BY <1>4, <1>5 DEF D

LEMMA NearestOfFew ==
    ASSUME NEW S \in SUBSET Nat, IsFiniteSet(S), NEW n \in Nat, Cardinality(S) <= n
    PROVE  Search!Take(n, S) = S
<1>1. ASSUME NEW i \in S PROVE Search!Cardinality({j \in S : j <= i}) <= n
  <2> DEFINE B == {j \in S : j <= i}
  <2>1. B \subseteq S
    OBVIOUS
  <2>2. Cardinality(B) \in Nat /\ Cardinality(S) \in Nat /\ Cardinality(B) <= Cardinality(S)
    BY <2>1, FS_Subset, FS_CardinalityType
  <2>3. Search!Cardinality(B) = Cardinality(B)
    BY SearchCounts
  <2> HIDE DEF B
  <2>4. Search!Cardinality(B) <= n
    BY <2>2, <2>3
  <2>. QED
    BY <2>4 DEF B
<1>. QED
    BY <1>1 DEF Search!Take

\* A set of numbers that is finite and not empty has a greatest.
LEMMA FarthestIs ==
    ASSUME NEW T \in SUBSET Nat, IsFiniteSet(T), T # {}
    PROVE  \E x \in T : \A i \in T : i <= x
<1> DEFINE Above(i) == {j \in T : j > i}
           Aboves   == {Above(i) : i \in T}
<1>1. Aboves \subseteq FiniteSubsetsOf(T) /\ Aboves # {}
  <2>1. \A i \in T : Above(i) \subseteq T /\ IsFiniteSet(Above(i))
    BY FS_Subset
  <2>. QED
    BY <2>1 DEF FiniteSubsetsOf
<1>2. PICK A \in Aboves : \A B \in Aboves : ~(<<B, A>> \in StrictSubsetOrdering(T))
  <2> HIDE DEF Aboves
  <2>. QED
    BY <1>1, FS_StrictSubsetOrderingWellFounded, WFMin
<1>3. PICK x \in T : A = Above(x)
    OBVIOUS
<1>4. ASSUME NEW i \in T, ~(i <= x) PROVE FALSE
  <2>1. i > x /\ i \in Nat /\ x \in Nat
    BY <1>4
  <2>2. Above(i) \subseteq Above(x) /\ i \in Above(x) /\ i \notin Above(i)
    <3>1. ASSUME NEW j \in T, j > i PROVE j > x
      <4>1. j \in Nat
        OBVIOUS
      <4>. QED
        BY <2>1, <3>1, <4>1
    <3>2. ~(i > i)
      BY <2>1
    <3>. QED
      BY <2>1, <3>1, <3>2
  <2>3. Above(i) \in SUBSET T /\ Above(x) \in SUBSET T /\ Above(i) # Above(x) /\ Above(i) \in Aboves
    BY <2>2
  <2>4. <<Above(i), Above(x)>> \in StrictSubsetOrdering(T)
    <3> HIDE DEF Above
    <3>. QED
      BY <2>2, <2>3 DEF StrictSubsetOrdering
  <2>. QED
    BY <1>2, <1>3, <2>3, <2>4
<1>. QED
    BY <1>4

\* The n nearest are at most n: the farthest of them counts them all.
LEMMA NearestAreFew ==
    ASSUME NEW S \in SUBSET Nat, IsFiniteSet(S), NEW n \in Nat
    PROVE  IsFiniteSet(Search!Take(n, S)) /\ Cardinality(Search!Take(n, S)) <= n
<1> DEFINE T == Search!Take(n, S)
<1>1. T \subseteq S /\ T \subseteq Nat
    BY DEF Search!Take
<1>2. IsFiniteSet(T)
    BY <1>1, FS_Subset
<1>3. CASE T = {}
    BY <1>2, <1>3, FS_EmptySet
<1>4. CASE T # {}
  <2>1. PICK x \in T : \A i \in T : i <= x
    BY <1>1, <1>2, <1>4, FarthestIs
  <2> DEFINE B == {j \in S : j <= x}
  <2>2. T \subseteq B /\ B \subseteq S
    BY <1>1, <2>1
  <2>3. Cardinality(B) <= n
    BY <2>1, SearchCounts DEF Search!Take
  <2>4. IsFiniteSet(B) /\ Cardinality(B) \in Nat
    BY <2>2, FS_Subset, FS_CardinalityType
  <2> HIDE DEF T, B
  <2>5. Cardinality(T) <= Cardinality(B) /\ Cardinality(T) \in Nat
    BY <2>2, <2>4, FS_Subset, FS_CardinalityType
  <2>6. Cardinality(T) <= n
    BY <2>3, <2>4, <2>5
  <2>. QED
    BY <1>2, <2>6 DEF T
<1>. QED
    BY <1>3, <1>4

SearchInv ==
    /\ phase \in {"idle", "asked", "refused", "answered", "failed"}
    /\ backend \in Search!Backend /\ recs \in Seq(Field)
    /\ place \in [DOMAIN recs -> DOMAIN recs]
    /\ \A i, j \in DOMAIN recs : place[i] = place[j] => i = j
    /\ Search!RanksByMetric => \A i \in DOMAIN recs : place[i] = i
    /\ phase \in {"asked", "answered"} =>
         /\ Search!Accepts(backend, req, store)
         /\ req.filter.should \subseteq Search!Clause /\ req.threshold \in Nat
    /\ hits = IF phase = "answered" THEN Search!Hits(backend, req) ELSE {}

LEMMA SearchStarts == Search!Init => SearchInv
<1> SUFFICES ASSUME Search!Init PROVE SearchInv
    OBVIOUS
<1>1. recs \in Seq(Field)
  <2>1. PICK n \in 0..MaxRecords : recs \in [1..n -> Field]
    BY DEF Search!Init
  <2>. QED
    BY <2>1, BoundsAssumption
<1>2. /\ place \in [DOMAIN recs -> DOMAIN recs]
      /\ \A i, j \in DOMAIN recs : place[i] = place[j] => i = j
      /\ Search!RanksByMetric => \A i \in DOMAIN recs : place[i] = i
    BY DEF Search!Init, Search!Bijection, Search!Injection, Search!IsInjective
<1>. QED
    BY <1>1, <1>2 DEF Search!Init, SearchInv

LEMMA SearchSteps == SearchInv /\ [Search!Next]_(Search!vars) => SearchInv'
<1> SUFFICES ASSUME SearchInv, [Search!Next]_(Search!vars) PROVE SearchInv'
    OBVIOUS
<1>1. CASE UNCHANGED Search!vars
  <2>1. UNCHANGED <<backend, store, recs, place, req, phase, hits>>
    BY <1>1 DEF Search!vars
  <2>2. Search!Hits(backend, req)' = Search!Hits(backend, req)
    BY <2>1 DEF Search!Hits, Search!FaissHits, Search!LanceDbHits, Search!ChromaHits, Search!WeaviateHits,
           Search!QdrantHits, Search!MilvusHits, Search!PineconeHits, Search!Overfetched, Search!Rechecked,
           Search!QdrantFilter, Search!MilvusFilter, Search!PineconeFilter, Search!Positions,
           Search!Matching, Search!Passing, Search!First
  <2>. QED
    BY <2>1, <2>2 DEF SearchInv, Search!RanksByMetric
<1>2. CASE Search!Ask
  <2>1. PICK r \in Search!Request(store) :
            req' = r /\ phase' = IF Search!Accepts(backend, r, store) THEN "asked" ELSE "refused"
    BY <1>2 DEF Search!Ask
  <2>2. phase = "idle" /\ UNCHANGED <<backend, store, recs, place, hits>>
    BY <1>2 DEF Search!Ask
  <2>3. r.filter.should \subseteq Search!Clause /\ r.threshold \in Nat
    <3>1. MaxRecords \in Nat
      BY BoundsAssumption
    <3>2. CASE r \in [strategy : {store.metric}, mode : {"vector"}, engine : {"native"},
                      keyword : {FALSE}, filter : Search!Filter, threshold : {1, MaxRecords}]
      <4>1. r.filter \in Search!Filter /\ r.threshold \in {1, MaxRecords}
        BY <3>2
      <4>2. r.filter.should \in Search!AtMost(2)
        BY <4>1 DEF Search!Filter
      <4>. QED
        BY <3>1, <4>1, <4>2 DEF Search!AtMost
    <3>3. CASE r \in Search!Odd(store)
      <4>1. r.filter = Search!NoFilter /\ r.threshold = MaxRecords
        BY <3>3 DEF Search!Odd, Search!NoReq
      <4>2. Search!NoFilter.should = {}
        BY DEF Search!NoFilter
      <4>. QED
        BY <3>1, <4>1, <4>2
    <3>. QED
      BY <3>2, <3>3 DEF Search!Request
  <2>4. Search!Accepts(backend, r, store)' <=> Search!Accepts(backend, r, store)
    BY <2>2
  <2>. QED
    BY <2>1, <2>2, <2>3 DEF SearchInv, Search!RanksByMetric
<1>3. CASE Search!Search
  <2>1. /\ phase = "asked" /\ UNCHANGED <<backend, store, recs, place, req>>
        /\ \/ phase' = "answered" /\ hits' = Search!Hits(backend, req)
           \/ phase' = "failed" /\ UNCHANGED hits
    BY <1>3 DEF Search!Search
  <2>2. Search!Hits(backend, req)' = Search!Hits(backend, req)
    BY <2>1 DEF Search!Hits, Search!FaissHits, Search!LanceDbHits, Search!ChromaHits, Search!WeaviateHits,
           Search!QdrantHits, Search!MilvusHits, Search!PineconeHits, Search!Overfetched, Search!Rechecked,
           Search!QdrantFilter, Search!MilvusFilter, Search!PineconeFilter, Search!Positions,
           Search!Matching, Search!Passing, Search!First
  <2>. QED
    BY <2>1, <2>2 DEF SearchInv, Search!RanksByMetric
<1>. QED
    BY <1>1, <1>2, <1>3 DEF Search!Next

\* The n that come first for LanceDB are at most n, and the n nearest when it ranks by
\* the metric of the store.
LEMMA FirstAre ==
    ASSUME SearchInv, NEW S \in SUBSET DOMAIN recs, NEW n \in Nat
    PROVE  /\ Search!First(n, S) \subseteq S /\ Cardinality(Search!First(n, S)) <= n
           /\ Search!RanksByMetric => Search!First(n, S) = Search!Take(n, S)
<1> DEFINE T == {place[j] : j \in S}
           F == Search!First(n, S)
           K == Search!Take(n, T)
           f == [i \in F |-> place[i]]
<1>1. /\ DOMAIN recs \in SUBSET Nat /\ IsFiniteSet(DOMAIN recs)
  <2>1. DOMAIN recs = 1..Len(recs) /\ Len(recs) \in Nat
    BY DEF SearchInv
  <2> DEFINE m == Len(recs)
  <2>2. m \in Nat
    BY <2>1
  <2> HIDE DEF m
  <2>3. IsFiniteSet(1..m) /\ 1..m \in SUBSET Nat
    BY <2>2, FS_Interval
  <2>. QED
    BY <2>1, <2>3 DEF m
<1>2. T \in SUBSET Nat /\ IsFiniteSet(T)
  <2>1. T \subseteq DOMAIN recs
    BY DEF SearchInv
  <2> HIDE DEF T
  <2>. QED
    BY <1>1, <2>1, FS_Subset
<1>3. F \subseteq S /\ \A i \in F : place[i] \in K
    BY DEF Search!First
<1> HIDE DEF T
<1>4. IsFiniteSet(K) /\ Cardinality(K) <= n
    BY <1>2, NearestAreFew
<1>5. f \in Injection(F, K)
  <2>1. \A i, j \in F : place[i] = place[j] => i = j
    BY <1>3 DEF SearchInv
  <2> HIDE DEF F, K
  <2>. QED
    BY <1>3, <2>1 DEF Injection, IsInjective
<1> HIDE DEF F, K, f
<1>6. IsFiniteSet(F) /\ Cardinality(F) <= Cardinality(K)
    BY <1>4, <1>5, FS_Injection
<1>7. Cardinality(F) \in Nat /\ Cardinality(K) \in Nat
    BY <1>4, <1>6, FS_CardinalityType
<1>8. Cardinality(F) <= n
    BY <1>4, <1>6, <1>7
<1>9. ASSUME Search!RanksByMetric PROVE F = Search!Take(n, S)
  <2>1. \A i \in S : place[i] = i
    BY <1>9 DEF SearchInv
  <2>2. T = S
    BY <2>1 DEF T
  <2>3. F = {i \in S : i \in K}
    BY <2>1 DEF F, K, T, Search!First
  <2>. QED
    BY <2>2, <2>3 DEF K, Search!Take
<1>. QED
    BY <1>3, <1>8, <1>9 DEF F

\* What the adapters answer, of the positions that match within the threshold.
LEMMA HitsAre ==
    ASSUME SearchInv, phase = "answered"
    PROVE  /\ hits \subseteq Search!Positions
           /\ backend # "pinecone" => hits \subseteq Search!Matching(req.filter)
           /\ backend # "weaviate" => Cardinality(hits) <= TopK
           /\ /\ Search!RanksByMetric /\ Len(recs) <= TopK * Overfetch /\ store.flat
              /\ \A i \in DOMAIN recs : recs[i] # 0
              => Search!Take(TopK, hits)
                 = Search!Take(TopK, Search!Nearer(Search!Matching(req.filter), req))
<1> DEFINE P == Search!Positions
           M == Search!Matching(req.filter)
           N == Search!Nearer(M, req)
           A == Search!Take(TopK * Overfetch, P)
           O == Search!Nearer(Search!Passing(A, req.filter), req)
           Plain == /\ Search!RanksByMetric /\ Len(recs) <= TopK * Overfetch /\ store.flat
                    /\ \A i \in DOMAIN recs : recs[i] # 0
<1>1. /\ P = 1..Len(recs) /\ P \in SUBSET Nat /\ IsFiniteSet(P) /\ Cardinality(P) = Len(recs)
      /\ Len(recs) \in Nat /\ DOMAIN recs = P
  <2>1. recs \in Seq(Field)
    BY DEF SearchInv
  <2>2. P = 1..Len(recs) /\ Len(recs) \in Nat /\ DOMAIN recs = P
    BY <2>1 DEF Search!Positions
  <2>3. IsFiniteSet(1..Len(recs)) /\ Cardinality(1..Len(recs)) = Len(recs)
    <3> DEFINE m == Len(recs)
    <3>1. m \in Nat
      BY <2>2
    <3> HIDE DEF m
    <3>2. IsFiniteSet(1..m) /\ Cardinality(1..m) = m
      BY <3>1, FS_Interval
    <3>. QED
      BY <3>2 DEF m
  <2>. QED
    BY <2>2, <2>3
<1>2. TopK \in Nat /\ TopK * Overfetch \in Nat /\ req.threshold \in Nat
    BY BoundsAssumption DEF SearchInv
<1>3. ASSUME NEW S \in SUBSET P PROVE S \in SUBSET Nat /\ IsFiniteSet(S)
    BY <1>1, FS_Subset
<1>4. /\ M = {i \in P : Search!Matches(recs[i], req.filter)} /\ M \in SUBSET P
      /\ N \in SUBSET M
    BY DEF Search!Matching, Search!Passing, Search!Nearer
<1>5. A \in SUBSET P /\ O \in SUBSET M
    BY <1>4 DEF Search!Take, Search!Nearer, Search!Passing
<1>6. Plain => O = N
  <2> SUFFICES ASSUME Plain PROVE O = N
    OBVIOUS
  <2>1. A = P
    BY <1>1, <1>2, NearestOfFew
  <2>. QED
    BY <2>1 DEF Search!Matching
<1>7. ASSUME NEW S \in SUBSET M
      PROVE  /\ Search!Take(TopK, S) \subseteq M /\ Cardinality(Search!Take(TopK, S)) <= TopK
             /\ Search!Take(TopK, Search!Take(TopK, S)) = Search!Take(TopK, S)
  <2>1. S \in SUBSET Nat /\ IsFiniteSet(S)
    BY <1>3, <1>4
  <2>2. Search!Take(TopK, S) \subseteq S
    BY DEF Search!Take
  <2>. QED
    BY <1>2, <2>1, <2>2, NearestAreFew, NearestOfNearest
<1>8. hits = Search!Hits(backend, req) /\ backend \in Search!Backend
    BY DEF SearchInv
<1>9. CASE backend = "faiss"
  <2>1. hits = Search!Take(TopK, N)
    BY <1>8, <1>9 DEF Search!Hits, Search!FaissHits
  <2>. QED
    BY <1>4, <1>7, <1>9, <2>1
<1>13. CASE backend = "lancedb"
  <2> DEFINE B == Search!Passing(Search!First(TopK * Overfetch, P), req.filter)
             R == {i \in B : place[i] <= req.threshold}
  <2>1. hits = Search!First(TopK, R)
    BY <1>8, <1>13 DEF Search!Hits, Search!LanceDbHits
  <2>2. Search!First(TopK * Overfetch, P) \subseteq P
    BY <1>1, <1>2, FirstAre
  <2>3. R \in SUBSET M /\ R \in SUBSET DOMAIN recs
    BY <1>1, <2>2 DEF Search!Passing, Search!Matching
  <2> HIDE DEF M, N, R
  <2>4. hits \subseteq M /\ Cardinality(hits) <= TopK
    BY <1>2, <2>1, <2>3, FirstAre
  <2>5. ASSUME Plain PROVE Search!Take(TopK, hits) = Search!Take(TopK, N)
    <3>1. hits = Search!Take(TopK, R)
      BY <1>2, <2>1, <2>3, <2>5, FirstAre
    <3>2. Search!First(TopK * Overfetch, P) = A
      BY <1>1, <1>2, <2>5, FirstAre
    <3>3. \A i \in DOMAIN recs : place[i] = i
      BY <2>5 DEF SearchInv
    <3>4. R = O
      BY <1>1, <2>2, <3>2, <3>3 DEF R, Search!Nearer, Search!Passing
    <3>. QED
      BY <1>6, <1>7, <2>3, <2>5, <3>1, <3>4
  <2>. QED
    BY <1>4, <1>13, <2>4, <2>5 DEF M, N
<1>10. CASE backend = "chroma"
  <2>1. hits = Search!Take(TopK, O)
    BY <1>8, <1>10 DEF Search!Hits, Search!ChromaHits, Search!Overfetched
  <2> HIDE DEF O, N, M
  <2>2. hits \subseteq M /\ Cardinality(hits) <= TopK
        /\ (Plain => Search!Take(TopK, hits) = Search!Take(TopK, N))
    BY <1>5, <1>6, <1>7, <2>1
  <2>. QED
    BY <1>4, <1>10, <2>2 DEF M, N
<1>11. CASE backend = "weaviate"
  <2>1. hits = O
    BY <1>8, <1>11 DEF Search!Hits, Search!WeaviateHits, Search!Overfetched
  <2> HIDE DEF O, N, M
  <2>2. hits \subseteq M /\ (Plain => Search!Take(TopK, hits) = Search!Take(TopK, N))
    BY <1>5, <1>6, <2>1
  <2>. QED
    BY <1>4, <1>11, <2>2 DEF M, N
<1>12. CASE backend \in {"qdrant", "milvus", "pinecone"}
  <2> DEFINE Passes(x) == IF backend = "pinecone" THEN Search!PineconeFilter(req.filter, x)
                          ELSE Search!Translated(req.filter, x)
             F == {i \in P : Passes(recs[i])}
             G == IF backend = "pinecone" THEN Search!Take(TopK, F)
                  ELSE Search!Passing(Search!Take(TopK, F), req.filter)
  <2>1. hits = Search!Nearer(G, req)
    BY <1>8, <1>12 DEF Search!Hits, Search!QdrantHits, Search!MilvusHits, Search!PineconeHits,
           Search!QdrantFilter, Search!MilvusFilter, Search!Rechecked
  <2>2. F \in SUBSET P /\ G \subseteq Search!Take(TopK, F) /\ G \subseteq P
        /\ (backend # "pinecone" => G \subseteq M)
    BY DEF Search!Take, Search!Passing, Search!Matching
  <2>3. hits \subseteq G
    BY <2>1 DEF Search!Nearer
  <2>4. F \in SUBSET Nat /\ IsFiniteSet(F)
    <3> HIDE DEF F
    <3>. QED
      BY <2>2, <1>3
  <2>5. Cardinality(hits) <= TopK
    <3> DEFINE K == Search!Take(TopK, F)
    <3> HIDE DEF F, G
    <3>1. IsFiniteSet(K) /\ Cardinality(K) <= TopK
      BY <1>2, <2>4, NearestAreFew
    <3>2. hits \subseteq K
      BY <2>2, <2>3
    <3> HIDE DEF K
    <3>3. /\ Cardinality(hits) <= Cardinality(K)
          /\ Cardinality(hits) \in Nat /\ Cardinality(K) \in Nat
      BY <3>1, <3>2, FS_Subset, FS_CardinalityType
    <3>. QED
      BY <1>2, <3>1, <3>3
  <2>6. ASSUME Plain PROVE Search!Take(TopK, hits) = Search!Take(TopK, N)
    <3>1. req.filter.minimum = -1 /\ req.filter.should \subseteq Search!Clause
      BY <1>12 DEF SearchInv, Search!Accepts, Search!Filtering
    <3>2. \A i \in P : Passes(recs[i]) <=> Search!Matches(recs[i], req.filter)
      BY <1>1, <2>6, <3>1, TranslatedMatches DEF Search!PineconeFilter
    <3>3. F = M
      BY <1>4, <3>2
    <3>4. G = Search!Take(TopK, M)
      <4>1. ASSUME NEW S \in SUBSET M PROVE Search!Passing(S, req.filter) = S
        BY <1>4, <4>1 DEF Search!Passing
      <4>2. Search!Take(TopK, M) \in SUBSET M
        BY <1>7
      <4> HIDE DEF F, M
      <4>. QED
        BY <3>3, <4>1, <4>2
    <3>5. hits = Search!Take(TopK, N)
      <4>1. M \in SUBSET Nat
        BY <1>3, <1>4
      <4> HIDE DEF G, M
      <4>. QED
        BY <1>2, <2>1, <3>4, <4>1, NearestWithin
    <3> HIDE DEF N, M
    <3>. QED
      BY <1>4, <1>7, <3>5
  <2> HIDE DEF G, F
  <2>. QED
    BY <1>12, <2>2, <2>3, <2>5, <2>6
<1>. QED
    BY <1>8, <1>9, <1>10, <1>11, <1>12, <1>13 DEF Search!Backend

LEMMA SearchesAreExact == SearchInv => Search!SearchIsExact /\ Search!TypeOK
<1> SUFFICES ASSUME SearchInv PROVE Search!SearchIsExact /\ Search!TypeOK
    OBVIOUS
<1>1. CASE phase = "answered"
  <2>1. Search!HitsMatch
    BY <1>1, HitsAre DEF Search!HitsMatch, Search!Matching, Search!Passing
  <2>2. Search!NearestMatches
    BY <1>1, HitsAre DEF Search!NearestMatches
  <2>3. Search!WithinLimit
    BY <1>1, HitsAre, SearchCounts DEF Search!WithinLimit
  <2>4. Search!TypeOK
    BY <1>1, HitsAre DEF Search!TypeOK, SearchInv, Search!Positions
  <2>. QED
    BY <2>1, <2>2, <2>3, <2>4 DEF Search!SearchIsExact
<1>2. CASE phase # "answered"
  <2>1. hits = {}
    BY <1>2 DEF SearchInv
  <2>2. Search!WithinLimit
    BY <2>1, SearchCounts, FS_EmptySet, BoundsAssumption DEF Search!WithinLimit
  <2>. QED
    BY <1>2, <2>1, <2>2 DEF Search!SearchIsExact, Search!HitsMatch, Search!NearestMatches, Search!TypeOK,
           SearchInv
<1>. QED
    BY <1>1, <1>2

------------------------------------------------------------------------------
(* The calls of the adapters *)

PointsRecord == [id : Id, n : 1..MaxWrites]
NoName       == ""
CollRecord   == [made : BOOLEAN, con : Contract \cup {NoName},
                 metric : Backends!Metric \cup {NoName}, recs : SUBSET PointsRecord]

\* A collection, or none.
Sound(c) == c \in CollRecord /\ (~c.made => c = Backends!NoCollection)

\* The request of a write under way.
Writing(r) ==
    /\ r.mode \in {"overwrite", "append"} /\ r.con \in Contract
    /\ r.metric \in Backends!Metric \cup {NoName} /\ r.recs \in Seq(PointsRecord)

CallName == {"replace", "drop", "create", "agree", "unique", "store", "clear", "upsert", "insert",
             "insertOne", "index"}

\* The calls of a write that makes them all.
AllCalls(b, r, c) ==
    CASE b = "faiss"    -> <<"replace">>
      [] b = "lancedb"  -> <<"replace", "index">>
      [] b = "chroma"   -> <<"drop", "create", "agree", "unique", "store">>
      [] b = "pinecone" -> <<IF c.made THEN "clear" ELSE "create", "upsert">>
      [] b = "qdrant"   -> <<"drop", "create", "upsert">>
      [] b = "milvus"   -> <<"drop", "create", "insert">>
      [] b = "weaviate" -> <<"drop", "create">> \o [i \in DOMAIN r.recs |-> "insertOne"]

\* The last calls of a write.
LastOf(t, w) ==
    /\ t \in Seq(CallName) /\ Len(t) <= Len(w)
    /\ \A i \in 1..Len(t) : t[i] = w[i + (Len(w) - Len(t))]

\* What an overwrite keeps, and the collection that the points of a write are added to.
Kept(r, c) == IF r.mode = "overwrite" THEN Backends!NoCollection ELSE c
Base(r, c) == Backends!Create(r, Kept(r, c))
PineconeBase(r, c) ==
    IF ~c.made THEN Backends!Create(r, c) ELSE IF r.mode = "overwrite" THEN Backends!Clear(c) ELSE c

\* The collection d has the first m points of a write, and no other records of their ids.
Inserted(r, c, d, m) ==
    /\ d.made /\ d.con = c.con /\ d.metric = c.metric
    /\ d.recs = c.recs \cup {r.recs[i] : i \in 1..m}
    /\ \A x \in d.recs : \A i \in 1..m : x.id = r.recs[i].id => x = r.recs[i]

\* What is promised of a write that has made all its calls: of the collection c it found
\* and the collection d it leaves.
Ended(b, r, c, d) ==
    /\ b \in Backends!Local /\ r.policy = "reject" /\ r.mode = "append" => c.recs \subseteq d.recs
    /\ r.policy = "upsert" /\ ~Backends!HasDuplicates(r.recs) /\ b # "milvus" =>
         /\ Backends!Range(r.recs) \subseteq d.recs
         /\ \A x \in d.recs : x.id \in Backends!IdsOf(Backends!Range(r.recs))
                              => x \in Backends!Range(r.recs)
    /\ r.mode = "overwrite" =>
         d.recs = Backends!Range(r.recs) /\ (b # "pinecone" => d.con = r.con)
    /\ b \in Backends!Local /\ r.mode = "append" /\ c.recs # {} => c.con = r.con

\* What the calls of a write have made of the collection c when k of them are left.
Reached(b, r, c, d, k) ==
    /\ b = "faiss" => d = c
    /\ b = "lancedb" => (k = 2 => d = c) /\ (k = 1 => Ended(b, r, c, d))
    /\ b = "chroma" =>
         /\ k = 5 => d = c /\ r.mode = "overwrite"
         /\ k = 4 => d = Kept(r, c)
         /\ k \in 1..3 => d = Base(r, c)
         /\ k \in 1..2 => ~Backends!ChromaDisagrees(r, Base(r, c))
         /\ k = 1 => ~Backends!ChromaRefuses(r, Base(r, c))
    /\ b = "pinecone" =>
         /\ k = 2 => d = c /\ (c.made => r.mode = "overwrite")
         /\ k = 1 => d = PineconeBase(r, c)
    /\ b \in {"qdrant", "milvus"} =>
         /\ k = 3 => r.mode = "overwrite"
         /\ k = 2 => d = Kept(r, c)
         /\ k = 1 => d = Base(r, c)
    /\ b = "weaviate" =>
         /\ k = Len(r.recs) + 2 => r.mode = "overwrite"
         /\ k = Len(r.recs) + 1 => d = Kept(r, c)
         /\ k <= Len(r.recs) => Inserted(r, Base(r, c), d, Len(r.recs) - k)

WriteResult == {"none", "refused", "failed", "written", "deleted", "unsupported"}

WritesInv ==
    /\ backend \in Backends!Backend /\ writes \in 0..MaxWrites
    /\ Sound(coll) /\ Sound(before)
    /\ req.recs \in Seq(PointsRecord) /\ result \in WriteResult
    /\ todo # <<>> =>
         /\ result = "none" /\ Writing(req)
         /\ LastOf(todo, AllCalls(backend, req, before))
         /\ Reached(backend, req, before, coll, Len(todo))
    /\ Backends!PoliciesHold

\* Nothing is promised of a write that has not ended.
LEMMA NothingPromised ==
    ASSUME result' \notin {"refused", "written"}
    PROVE  Backends!PoliciesHold'
BY DEF Backends!PoliciesHold, Backends!RefusedIsHarmless, Backends!RejectKeepsRecords,
       Backends!UpsertReplaces, Backends!OverwriteRepairs, Backends!OneContract

LEMMA NoneIs ==
    /\ Sound(Backends!NoCollection)
    /\ Backends!NoCollection.recs = {} /\ Backends!NoCollection.made = FALSE
    /\ Backends!NoReq.recs = <<>> /\ \A op : [Backends!NoReq EXCEPT !.op = op].recs = <<>>
    /\ <<>> \in Seq(PointsRecord)
<1>1. Backends!NoCollection = [made |-> FALSE, con |-> NoName, metric |-> NoName, recs |-> {}]
    BY DEF Backends!NoCollection, NoName
<1>2. Backends!NoReq = [op |-> "none", mode |-> NoName, policy |-> NoName, metric |-> NoName,
                        con |-> NoName, recs |-> <<>>]
    BY DEF Backends!NoReq, NoName
<1>3. Backends!NoCollection \in CollRecord
    BY <1>1 DEF CollRecord
<1>4. Backends!NoCollection.recs = {} /\ Backends!NoCollection.made = FALSE
    BY <1>1
<1>5. Backends!NoReq.recs = <<>> /\ \A op : [Backends!NoReq EXCEPT !.op = op].recs = <<>>
    BY <1>2
<1>. QED
    BY <1>3, <1>4, <1>5 DEF Sound

LEMMA WritesStart == Backends!Init => WritesInv
<1> SUFFICES ASSUME Backends!Init PROVE WritesInv
    OBVIOUS
<1>1. Sound(Backends!NoCollection) /\ Backends!NoReq.recs \in Seq(PointsRecord)
    BY NoneIs
<1>2. /\ backend \in Backends!Backend /\ coll = Backends!NoCollection /\ before = Backends!NoCollection
      /\ req = Backends!NoReq /\ todo = <<>> /\ result = "none" /\ writes = 0
    BY DEF Backends!Init
<1>3. Backends!PoliciesHold
    BY <1>2 DEF Backends!PoliciesHold, Backends!RefusedIsHarmless, Backends!RejectKeepsRecords,
           Backends!UpsertReplaces, Backends!OverwriteRepairs, Backends!OneContract
<1>. QED
    BY <1>1, <1>2, <1>3, BoundsAssumption DEF WritesInv, WriteResult

LEMMA CallsLeft ==
    ASSUME NEW t, NEW w \in Seq(CallName), LastOf(t, w), t # <<>>
    PROVE  /\ Len(t) \in Nat /\ Len(w) \in Nat /\ Len(t) \in 1..Len(w)
           /\ Head(t) = w[1 + (Len(w) - Len(t))]
           /\ LastOf(Tail(t), w) /\ Len(Tail(t)) = Len(t) - 1
           /\ Tail(t) # <<>> <=> Len(t) # 1
<1>1. t \in Seq(CallName) /\ Len(t) <= Len(w) /\ \A i \in 1..Len(t) : t[i] = w[i + (Len(w) - Len(t))]
    BY DEF LastOf
<1>2. Len(t) \in Nat /\ Len(w) \in Nat /\ Len(t) # 0
    BY <1>1
<1>3. Head(t) = t[1] /\ Tail(t) \in Seq(CallName) /\ Len(Tail(t)) = Len(t) - 1
    BY <1>1, <1>2
<1>4. \A i \in 1..Len(Tail(t)) : Tail(t)[i] = t[i + 1]
    BY <1>1, <1>2
<1>5. \A i \in 1..Len(Tail(t)) : Tail(t)[i] = w[i + (Len(w) - Len(Tail(t)))]
  <2> SUFFICES ASSUME NEW i \in 1..Len(Tail(t)) PROVE Tail(t)[i] = w[i + (Len(w) - Len(Tail(t)))]
    OBVIOUS
  <2>1. i + 1 \in 1..Len(t) /\ (i + 1) + (Len(w) - Len(t)) = i + (Len(w) - Len(Tail(t)))
    BY <1>2, <1>3
  <2>2. t[i + 1] = w[(i + 1) + (Len(w) - Len(t))]
    BY <1>1, <2>1
  <2>. QED
    BY <1>4, <2>1, <2>2
<1>6. Tail(t) # <<>> <=> Len(t) # 1
  <2>1. Tail(t) = <<>> <=> Len(Tail(t)) = 0
    <3> DEFINE u == Tail(t)
    <3>1. u \in Seq(CallName)
      BY <1>3
    <3> HIDE DEF u
    <3>2. u = <<>> <=> Len(u) = 0
      BY <3>1
    <3>. QED
      BY <3>2 DEF u
  <2>. QED
    BY <1>2, <1>3, <2>1
<1>. QED
    BY <1>1, <1>2, <1>3, <1>5, <1>6 DEF LastOf

\* The calls, one by one.
CallsInOrder(b, r, c, w) ==
    /\ w \in Seq(CallName)
    /\ b = "faiss" => Len(w) = 1 /\ w[1] = "replace"
    /\ b = "lancedb" => Len(w) = 2 /\ w[1] = "replace" /\ w[2] = "index"
    /\ b = "chroma" => /\ Len(w) = 5 /\ w[1] = "drop" /\ w[2] = "create" /\ w[3] = "agree"
                       /\ w[4] = "unique" /\ w[5] = "store"
    /\ b = "pinecone" => /\ Len(w) = 2 /\ w[1] = (IF c.made THEN "clear" ELSE "create")
                         /\ w[2] = "upsert"
    /\ b \in {"qdrant", "milvus"} =>
         /\ Len(w) = 3 /\ w[1] = "drop" /\ w[2] = "create"
         /\ w[3] = (IF b = "qdrant" THEN "upsert" ELSE "insert")
    /\ b = "weaviate" => /\ Len(w) = Len(r.recs) + 2 /\ w[1] = "drop" /\ w[2] = "create"
                         /\ \A i \in 3..Len(w) : w[i] = "insertOne"

LEMMA JoinedCalls ==
    ASSUME NEW s \in Seq(CallName), NEW t \in Seq(CallName)
    PROVE  /\ s \o t \in Seq(CallName) /\ Len(s \o t) = Len(s) + Len(t)
           /\ \A i \in 1..Len(s) : (s \o t)[i] = s[i]
           /\ \A i \in 1..Len(t) : (s \o t)[i + Len(s)] = t[i]
OBVIOUS

\* Two calls and three.
LEMMA TwoCalls ==
    ASSUME NEW x \in CallName, NEW y \in CallName, NEW w, w = <<x, y>>
    PROVE  w \in Seq(CallName) /\ Len(w) = 2 /\ w[1] = x /\ w[2] = y
OBVIOUS

LEMMA ThreeCalls ==
    ASSUME NEW x \in CallName, NEW y \in CallName, NEW z \in CallName, NEW w, w = <<x, y, z>>
    PROVE  w \in Seq(CallName) /\ Len(w) = 3 /\ w[1] = x /\ w[2] = y /\ w[3] = z
OBVIOUS

LEMMA AllCallsAre ==
    ASSUME NEW b \in Backends!Backend, NEW r, r.recs \in Seq(PointsRecord), NEW c
    PROVE  CallsInOrder(b, r, c, AllCalls(b, r, c))
<1> DEFINE w == AllCalls(b, r, c)
<1>1. CASE b = "faiss"
  <2>1. w = <<"replace">>
    BY <1>1 DEF AllCalls
  <2>2. w \in Seq(CallName) /\ Len(w) = 1 /\ w[1] = "replace"
    BY <2>1 DEF CallName
  <2> HIDE DEF w
  <2>3. CallsInOrder(b, r, c, w)
    BY <1>1, <2>2 DEF CallsInOrder
  <2>. QED
    BY <2>3 DEF w
<1>2. CASE b = "chroma"
  <2>1. w = <<"drop", "create", "agree", "unique", "store">>
    BY <1>2 DEF AllCalls
  <2>2. w \in Seq(CallName)
    BY <2>1 DEF CallName
  <2>3. /\ Len(w) = 5 /\ w[1] = "drop" /\ w[2] = "create" /\ w[3] = "agree"
        /\ w[4] = "unique" /\ w[5] = "store"
    BY <2>1
  <2> HIDE DEF w
  <2>4. CallsInOrder(b, r, c, w)
    BY <1>2, <2>2, <2>3 DEF CallsInOrder
  <2>. QED
    BY <2>4 DEF w
<1>3. CASE b = "pinecone"
  <2> DEFINE s == IF c.made THEN "clear" ELSE "create"
  <2>1. w = <<s, "upsert">>
    BY <1>3 DEF AllCalls
  <2>2. s \in CallName /\ "upsert" \in CallName
    BY DEF CallName
  <2> HIDE DEF w
  <2>3. w \in Seq(CallName) /\ Len(w) = 2 /\ w[1] = s /\ w[2] = "upsert"
    <3> HIDE DEF s
    <3>. QED
      BY <2>1, <2>2, TwoCalls
  <2>4. CallsInOrder(b, r, c, w)
    BY <1>3, <2>3 DEF CallsInOrder
  <2>. QED
    BY <2>4 DEF w
<1>4. CASE b \in {"qdrant", "milvus"}
  <2> DEFINE s == IF b = "qdrant" THEN "upsert" ELSE "insert"
  <2>1. w = <<"drop", "create", s>>
    BY <1>4 DEF AllCalls
  <2>2. s \in CallName /\ "drop" \in CallName /\ "create" \in CallName
    BY DEF CallName
  <2> HIDE DEF w
  <2>3. w \in Seq(CallName) /\ Len(w) = 3 /\ w[1] = "drop" /\ w[2] = "create" /\ w[3] = s
    <3> HIDE DEF s
    <3>. QED
      BY <2>1, <2>2, ThreeCalls
  <2>4. CallsInOrder(b, r, c, w)
    BY <1>4, <2>3 DEF CallsInOrder
  <2>. QED
    BY <2>4 DEF w
<1>5. CASE b = "weaviate"
  <2> DEFINE s == <<"drop", "create">>
             t == [i \in DOMAIN r.recs |-> "insertOne"]
  <2>1. w = s \o t
    BY <1>5 DEF AllCalls
  <2>2. s \in Seq(CallName) /\ Len(s) = 2 /\ s[1] = "drop" /\ s[2] = "create"
    BY DEF CallName
  <2>3. t \in Seq(CallName) /\ Len(t) = Len(r.recs) /\ \A i \in 1..Len(t) : t[i] = "insertOne"
    BY DEF CallName
  <2> HIDE DEF s, t, w
  <2>4. /\ w \in Seq(CallName) /\ Len(w) = Len(s) + Len(t)
        /\ \A i \in 1..Len(s) : w[i] = s[i]
        /\ \A i \in 1..Len(t) : w[i + Len(s)] = t[i]
    <3>1. s \in Seq(CallName) /\ t \in Seq(CallName)
      BY <2>2, <2>3
    <3>. QED
      BY <2>1, <3>1, JoinedCalls
  <2>5. ASSUME NEW i \in 3..Len(w) PROVE w[i] = "insertOne"
    <3>1. i - 2 \in 1..Len(t) /\ (i - 2) + Len(s) = i
      BY <2>2, <2>3, <2>4
    <3>2. w[(i - 2) + Len(s)] = t[i - 2]
      BY <2>4, <3>1
    <3>. QED
      BY <2>3, <3>1, <3>2
  <2>6. CallsInOrder(b, r, c, w)
    <3>1. Len(w) = Len(r.recs) + 2 /\ w[1] = "drop" /\ w[2] = "create"
      BY <2>2, <2>3, <2>4
    <3>. QED
      BY <1>5, <2>4, <2>5, <3>1 DEF CallsInOrder
  <2>. QED
    BY <2>6 DEF w
<1>6. CASE b = "lancedb"
  <2>1. w = <<"replace", "index">>
    BY <1>6 DEF AllCalls
  <2>2. "replace" \in CallName /\ "index" \in CallName
    BY DEF CallName
  <2> HIDE DEF w
  <2>3. w \in Seq(CallName) /\ Len(w) = 2 /\ w[1] = "replace" /\ w[2] = "index"
    BY <2>1, <2>2, TwoCalls
  <2>4. CallsInOrder(b, r, c, w)
    BY <1>6, <2>3 DEF CallsInOrder
  <2>. QED
    BY <2>4 DEF w
<1>. QED
    BY <1>1, <1>2, <1>3, <1>4, <1>5, <1>6 DEF Backends!Backend

LEMMA CallsFollow ==
    ASSUME NEW s \in Seq(CallName), NEW t \in Seq(CallName), NEW w \in Seq(CallName),
           Len(s) + Len(t) <= Len(w), LastOf(t, w),
           \A i \in 1..Len(s) : s[i] = w[i + (Len(w) - (Len(s) + Len(t)))]
    PROVE  LastOf(s \o t, w) /\ Len(s \o t) = Len(s) + Len(t)
<1>1. /\ s \o t \in Seq(CallName) /\ Len(s \o t) = Len(s) + Len(t)
      /\ Len(s) \in Nat /\ Len(t) \in Nat /\ Len(w) \in Nat
    OBVIOUS
<1>2. ASSUME NEW i \in 1..Len(s \o t)
      PROVE  (s \o t)[i] = w[i + (Len(w) - (Len(s) + Len(t)))]
  <2>1. CASE i <= Len(s)
    BY <1>1, <2>1
  <2>2. CASE i > Len(s)
    <3>1. i - Len(s) \in 1..Len(t) /\ (s \o t)[i] = t[i - Len(s)]
      BY <1>1, <2>2
    <3>2. t[i - Len(s)] = w[(i - Len(s)) + (Len(w) - Len(t))]
      BY <3>1 DEF LastOf
    <3>3. (i - Len(s)) + (Len(w) - Len(t)) = i + (Len(w) - (Len(s) + Len(t)))
      BY <1>1, <2>2
    <3>. QED
      BY <3>1, <3>2, <3>3
  <2>. QED
    BY <1>1, <2>1, <2>2
<1>. QED
    BY <1>1, <1>2 DEF LastOf

LEMMA CallsAssociate ==
    ASSUME NEW s \in Seq(CallName), NEW u \in Seq(CallName), NEW v \in Seq(CallName)
    PROVE  (s \o u) \o v = s \o (u \o v)
<1> DEFINE x == (s \o u) \o v
           y == s \o (u \o v)
           n == Len(s) + (Len(u) + Len(v))
<1>1. /\ s \o u \in Seq(CallName) /\ Len(s \o u) = Len(s) + Len(u)
      /\ u \o v \in Seq(CallName) /\ Len(u \o v) = Len(u) + Len(v)
      /\ Len(s) \in Nat /\ Len(u) \in Nat /\ Len(v) \in Nat
    BY JoinedCalls
<1>2. x \in Seq(CallName) /\ y \in Seq(CallName) /\ Len(x) = n /\ Len(y) = n
    BY <1>1
<1>3. ASSUME NEW i \in 1..n PROVE x[i] = y[i]
  <2>1. CASE i <= Len(s)
    BY <1>1, <2>1
  <2>2. CASE Len(s) < i /\ i <= Len(s) + Len(u)
    <3>1. i \in 1..Len(s \o u) /\ i - Len(s) \in 1..Len(u)
      BY <1>1, <2>2
    <3>2. x[i] = u[i - Len(s)]
      BY <1>1, <2>2, <3>1
    <3>3. y[i] = (u \o v)[i - Len(s)]
      BY <1>1, <2>2, <3>1
    <3>4. (u \o v)[i - Len(s)] = u[i - Len(s)]
      BY <3>1
    <3>. QED
      BY <3>2, <3>3, <3>4
  <2>3. CASE Len(s) + Len(u) < i
    <3>1. (i - Len(s)) - Len(u) \in 1..Len(v) /\ i - (Len(s) + Len(u)) = (i - Len(s)) - Len(u)
      BY <1>1, <2>3
    <3>2. x[i] = v[i - (Len(s) + Len(u))]
      BY <1>1, <2>3, <3>1
    <3>3. i - Len(s) \in 1..Len(u \o v) /\ Len(u) < i - Len(s) /\ Len(s) < i
      BY <1>1, <2>3
    <3>4. y[i] = (u \o v)[i - Len(s)]
      BY <1>1, <3>3
    <3>5. (u \o v)[i - Len(s)] = v[(i - Len(s)) - Len(u)]
      BY <1>1, <3>3
    <3>. QED
      BY <3>1, <3>2, <3>4, <3>5
  <2>. QED
    BY <1>1, <2>1, <2>2, <2>3
<1> HIDE DEF x, y
<1>4. x = y
    BY <1>2, <1>3
<1>. QED
    BY <1>4 DEF x, y

\* What a write starts with.
LEMMA CallsStart ==
    ASSUME NEW b \in Backends!Backend, NEW r, Writing(r), NEW c, Sound(c),
           NEW t, t = Backends!Calls(b, r, c)
    PROVE  LastOf(t, AllCalls(b, r, c)) /\ Reached(b, r, c, c, Len(t))
<1> DEFINE w == AllCalls(b, r, c)
           n == Len(r.recs)
<1>1. CallsInOrder(b, r, c, w)
    BY AllCallsAre DEF Writing
<1>2. n \in Nat /\ DOMAIN r.recs = 1..n
    BY DEF Writing
<1>3. r.mode # "overwrite" \/ ~c.made => c = Kept(r, c)
    BY DEF Kept, Sound
<1> HIDE DEF w, n
<1>10. w \in Seq(CallName)
    BY <1>1 DEF CallsInOrder
<1>14. CASE b = "lancedb"
  <2>1. t = w
    BY <1>14 DEF Backends!Calls, Backends!LanceDbCalls, AllCalls, w
  <2>2. t \in Seq(CallName) /\ Len(t) = 2 /\ Len(w) = 2
    BY <1>1, <1>14, <2>1 DEF CallsInOrder
  <2>3. LastOf(t, w)
    BY <2>1, <2>2 DEF LastOf
  <2>4. Reached(b, r, c, c, 2)
    BY <1>14 DEF Reached
  <2>. QED
    BY <2>2, <2>3, <2>4 DEF w
<1>4. CASE b = "faiss"
  <2>1. t = <<"replace">>
    BY <1>4 DEF Backends!Calls, Backends!FaissCalls
  <2>2. t \in Seq(CallName) /\ Len(t) = 1 /\ t[1] = "replace"
    BY <2>1 DEF CallName
  <2>3. LastOf(t, w)
    BY <1>1, <1>4, <2>2 DEF LastOf, CallsInOrder
  <2>. QED
    BY <1>4, <2>2, <2>3 DEF Reached, w
<1>5. ASSUME NEW s, NEW call \in CallName, NEW p \in BOOLEAN, s = IF p THEN <<call>> ELSE <<>>
      PROVE  /\ s \in Seq(CallName) /\ ((p /\ Len(s) = 1) \/ (~p /\ Len(s) = 0))
             /\ \A i \in 1..Len(s) : i = 1 /\ s[i] = call
  <2>1. CASE p
    <3>1. s = <<call>>
      BY <1>5, <2>1
    <3>2. s \in Seq(CallName) /\ Len(s) = 1 /\ s[1] = call
      BY <3>1
    <3>3. \A i \in 1..Len(s) : i = 1 /\ s[i] = call
      BY <3>2
    <3>. QED
      BY <2>1, <3>2, <3>3
  <2>2. CASE ~p
    <3>1. s = <<>>
      BY <1>5, <2>2
    <3>. QED
      BY <2>2, <3>1
  <2>. QED
    BY <2>1, <2>2
<1>6. CASE b = "chroma"
  <2> DEFINE s == IF r.mode = "overwrite" THEN <<"drop">> ELSE <<>>
             u == <<"create", "agree", "unique", "store">>
  <2>1. t = s \o u
    BY <1>6 DEF Backends!Calls, Backends!ChromaCalls
  <2>2. /\ s \in Seq(CallName) /\ ((r.mode = "overwrite" /\ Len(s) = 1) \/ (r.mode # "overwrite" /\ Len(s) = 0))
        /\ \A i \in 1..Len(s) : i = 1 /\ s[i] = "drop"
    <3> DEFINE p == r.mode = "overwrite"
    <3>1. "drop" \in CallName /\ p \in BOOLEAN
      BY DEF CallName
    <3>2. s = IF p THEN <<"drop">> ELSE <<>>
      OBVIOUS
    <3> HIDE DEF s, p
    <3>3. /\ s \in Seq(CallName) /\ ((p /\ Len(s) = 1) \/ (~p /\ Len(s) = 0))
          /\ \A i \in 1..Len(s) : i = 1 /\ s[i] = "drop"
      BY <1>5, <3>1, <3>2
    <3>. QED
      BY <3>3 DEF p
  <2>3. u \in Seq(CallName)
    BY DEF CallName
  <2>4. Len(u) = 4 /\ u[1] = "create" /\ u[2] = "agree" /\ u[3] = "unique" /\ u[4] = "store"
    OBVIOUS
  <2> HIDE DEF s, u
  <2>5. Len(w) = 5 /\ w[1] = "drop" /\ w[2] = "create" /\ w[3] = "agree" /\ w[4] = "unique"
        /\ w[5] = "store"
    BY <1>1, <1>6 DEF CallsInOrder
  <2>6. LastOf(u, w)
    <3>1. Len(w) - Len(u) = 1 /\ \A i \in 1..4 : u[i] = w[i + 1]
      BY <2>4, <2>5
    <3>. QED
      BY <2>3, <2>4, <2>5, <3>1 DEF LastOf
  <2>7. \A i \in 1..Len(s) : s[i] = w[i + (Len(w) - (Len(s) + Len(u)))]
    BY <2>2, <2>4, <2>5
  <2>8. LastOf(t, w) /\ Len(t) = Len(s) + 4
    <3>1. Len(s) + Len(u) <= Len(w)
      BY <2>2, <2>4, <2>5
    <3>. QED
      BY <1>10, <2>1, <2>2, <2>3, <2>4, <2>6, <2>7, <3>1, CallsFollow
  <2>9. (Len(t) = 5 /\ r.mode = "overwrite") \/ (Len(t) = 4 /\ r.mode # "overwrite")
    <3>1. CASE r.mode = "overwrite" /\ Len(s) = 1
      BY <2>8, <3>1
    <3>2. CASE r.mode # "overwrite" /\ Len(s) = 0
      BY <2>8, <3>2
    <3>. QED
      BY <2>2, <3>1, <3>2
  <2>10. Reached(b, r, c, c, Len(t))
    <3>1. CASE Len(t) = 5 /\ r.mode = "overwrite"
      BY <1>6, <3>1 DEF Reached
    <3>2. CASE Len(t) = 4 /\ r.mode # "overwrite"
      BY <1>3, <1>6, <3>2 DEF Reached
    <3>. QED
      BY <2>9, <3>1, <3>2
  <2>. QED
    BY <2>8, <2>10 DEF w
<1>7. CASE b = "pinecone"
  <2> DEFINE first == IF c.made THEN "clear" ELSE "create"
             s == IF ~c.made \/ r.mode = "overwrite" THEN <<first>> ELSE <<>>
             u == <<"upsert">>
  <2>1. t = s \o u
    BY <1>7 DEF Backends!Calls, Backends!PineconeCalls
  <2>2. first \in CallName
    BY DEF CallName
  <2>3. s \in Seq(CallName) 
        /\ \/ (~c.made \/ r.mode = "overwrite") /\ Len(s) = 1
           \/ c.made /\ r.mode # "overwrite" /\ Len(s) = 0
        /\ \A i \in 1..Len(s) : i = 1 /\ s[i] = first
    <3> HIDE DEF first
    <3>1. (~c.made \/ r.mode = "overwrite") \in BOOLEAN
      OBVIOUS
    <3>. QED
      BY <1>5, <2>2, <3>1
  <2>4. u \in Seq(CallName) /\ Len(u) = 1 /\ u[1] = "upsert"
    BY DEF CallName
  <2>5. Len(w) = 2 /\ w[1] = first /\ w[2] = "upsert"
    BY <1>1, <1>7 DEF CallsInOrder
  <2> HIDE DEF first, s, u
  <2>6. LastOf(u, w)
    BY <2>4, <2>5 DEF LastOf
  <2>7. \A i \in 1..Len(s) : s[i] = w[i + (Len(w) - (Len(s) + Len(u)))]
    BY <2>3, <2>4, <2>5
  <2>8. LastOf(t, w) /\ Len(t) = Len(s) + 1
    <3>1. Len(s) + Len(u) <= Len(w)
      BY <2>3, <2>4, <2>5
    <3>2. s \in Seq(CallName) /\ u \in Seq(CallName)
      BY <2>3, <2>4, <2>5
    <3>3. LastOf(s \o u, w) /\ Len(s \o u) = Len(s) + Len(u)
      BY <1>10, <2>6, <2>7, <3>1, <3>2, CallsFollow
    <3>. QED
      BY <2>1, <2>4, <2>5, <3>3
  <2>9. \/ Len(t) = 2 /\ (c.made => r.mode = "overwrite")
        \/ Len(t) = 1 /\ c.made /\ r.mode # "overwrite"
    <3>1. CASE (~c.made \/ r.mode = "overwrite") /\ Len(s) = 1
      <4>1. Len(t) = 2
        BY <2>8, <3>1
      <4>. QED
        BY <3>1, <4>1
    <3>2. CASE c.made /\ r.mode # "overwrite" /\ Len(s) = 0
      BY <2>8, <3>2
    <3>. QED
      BY <2>3, <3>1, <3>2
  <2>10. Reached(b, r, c, c, Len(t))
    BY <1>7, <2>9 DEF Reached, PineconeBase
  <2>. QED
    BY <2>8, <2>10 DEF w
<1>8. ASSUME NEW s, s = Backends!DropFirst(r, c)
      PROVE  /\ s \in Seq(CallName) 
             /\ \/ r.mode = "overwrite" /\ c.made /\ Len(s) = 1
                \/ ~(r.mode = "overwrite" /\ c.made) /\ Len(s) = 0
             /\ \A i \in 1..Len(s) : i = 1 /\ s[i] = "drop"
  <2>1. s = IF r.mode = "overwrite" /\ c.made THEN <<"drop">> ELSE <<>>
    BY <1>8 DEF Backends!DropFirst
  <2>2. "drop" \in CallName /\ (r.mode = "overwrite" /\ c.made) \in BOOLEAN
    BY DEF CallName
  <2>. QED
    BY <1>5, <2>1, <2>2
<1>9. CASE b \in {"qdrant", "milvus"}
  <2> DEFINE s == Backends!DropFirst(r, c)
             third == IF b = "qdrant" THEN "upsert" ELSE "insert"
             u == <<"create", third>>
  <2>1. t = s \o u
    BY <1>9 DEF Backends!Calls, Backends!QdrantCalls, Backends!MilvusCalls
  <2>2. third \in CallName /\ "create" \in CallName
    BY DEF CallName
  <2>3. Len(w) = 3 /\ w[1] = "drop" /\ w[2] = "create" /\ w[3] = third
    BY <1>1, <1>9 DEF CallsInOrder
  <2>4. /\ s \in Seq(CallName) 
        /\ \/ r.mode = "overwrite" /\ c.made /\ Len(s) = 1
           \/ ~(r.mode = "overwrite" /\ c.made) /\ Len(s) = 0
        /\ \A i \in 1..Len(s) : i = 1 /\ s[i] = "drop"
    BY <1>8
  <2> HIDE DEF s, third
  <2>5. u \in Seq(CallName) /\ Len(u) = 2 /\ u[1] = "create" /\ u[2] = third
    BY <2>2, TwoCalls
  <2> HIDE DEF u
  <2>6. LastOf(u, w)
    <3>1. Len(w) - Len(u) = 1 /\ \A i \in 1..2 : u[i] = w[i + 1]
      BY <2>3, <2>5
    <3>. QED
      BY <2>3, <2>5, <3>1 DEF LastOf
  <2>7. \A i \in 1..Len(s) : s[i] = w[i + (Len(w) - (Len(s) + Len(u)))]
    BY <2>3, <2>4, <2>5
  <2>8. LastOf(t, w) /\ Len(t) = Len(s) + 2
    <3>1. Len(s) + Len(u) <= Len(w)
      BY <2>3, <2>4, <2>5
    <3>2. s \in Seq(CallName) /\ u \in Seq(CallName)
      BY <2>3, <2>4, <2>5
    <3>3. LastOf(s \o u, w) /\ Len(s \o u) = Len(s) + Len(u)
      BY <1>10, <2>6, <2>7, <3>1, <3>2, CallsFollow
    <3>. QED
      BY <2>1, <2>4, <2>5, <3>3
  <2>9. \/ Len(t) = 3 /\ r.mode = "overwrite"
        \/ Len(t) = 2 /\ ~(r.mode = "overwrite" /\ c.made)
    <3>1. CASE r.mode = "overwrite" /\ c.made /\ Len(s) = 1
      <4>1. Len(t) = 3
        BY <2>8, <3>1
      <4>. QED
        BY <3>1, <4>1
    <3>2. CASE ~(r.mode = "overwrite" /\ c.made) /\ Len(s) = 0
      BY <2>8, <3>2
    <3>. QED
      BY <2>4, <3>1, <3>2
  <2>10. Reached(b, r, c, c, Len(t))
    <3>1. CASE Len(t) = 3 /\ r.mode = "overwrite"
      BY <1>9, <3>1 DEF Reached
    <3>2. CASE Len(t) = 2 /\ ~(r.mode = "overwrite" /\ c.made)
      <4>1. c = Kept(r, c)
        BY <1>3, <3>2
      <4>. QED
        BY <1>9, <3>2, <4>1 DEF Reached
    <3>. QED
      BY <2>9, <3>1, <3>2
  <2>. QED
    BY <2>8, <2>10 DEF w
<1>11. CASE b = "weaviate"
  <2> DEFINE s == Backends!DropFirst(r, c)
             u == <<"create">>
             v == [i \in DOMAIN r.recs |-> "insertOne"]
  <2>1. t = (s \o u) \o v
    BY <1>11 DEF Backends!Calls, Backends!WeaviateCalls
  <2>2. u \in Seq(CallName) /\ Len(u) = 1 /\ u[1] = "create"
    BY DEF CallName
  <2>3. v \in Seq(CallName) /\ Len(v) = n /\ \A i \in 1..Len(v) : v[i] = "insertOne"
    BY <1>2 DEF CallName
  <2>4. /\ s \in Seq(CallName) 
        /\ \/ r.mode = "overwrite" /\ c.made /\ Len(s) = 1
           \/ ~(r.mode = "overwrite" /\ c.made) /\ Len(s) = 0
        /\ \A i \in 1..Len(s) : i = 1 /\ s[i] = "drop"
    BY <1>8
  <2>5. /\ Len(w) = n + 2 /\ w[1] = "drop" /\ w[2] = "create"
        /\ \A i \in 3..Len(w) : w[i] = "insertOne"
    BY <1>1, <1>11 DEF CallsInOrder, n
  <2> HIDE DEF s, u, v
  <2>6. LastOf(v, w)
    <3>1. \A i \in 1..n : i + (Len(w) - n) \in 3..Len(w)
      BY <1>2, <2>5
    <3>. QED
      BY <1>2, <2>3, <2>5, <3>1 DEF LastOf
  <2>7. LastOf(u \o v, w) /\ Len(u \o v) = n + 1 /\ u \o v \in Seq(CallName)
    <3>1. \A i \in 1..Len(u) : u[i] = w[i + (Len(w) - (Len(u) + Len(v)))]
      BY <1>2, <2>2, <2>3, <2>5
    <3>2. Len(u) + Len(v) <= Len(w) /\ Len(u) + Len(v) = n + 1
      BY <1>2, <2>2, <2>3, <2>5
    <3>3. LastOf(u \o v, w) /\ Len(u \o v) = Len(u) + Len(v)
      BY <1>10, <2>2, <2>3, <2>6, <3>1, <3>2, CallsFollow
    <3>. QED
      BY <2>2, <2>3, <3>2, <3>3
  <2>8. t = s \o (u \o v)
    <3>1. s \in Seq(CallName) /\ u \in Seq(CallName) /\ v \in Seq(CallName)
      BY <2>2, <2>3, <2>4
    <3>. QED
      BY <2>1, <3>1, CallsAssociate
  <2>9. LastOf(t, w) /\ Len(t) = Len(s) + (n + 1)
    <3> DEFINE uv == u \o v
    <3> HIDE DEF uv
    <3>1. uv \in Seq(CallName) /\ Len(uv) = n + 1 /\ LastOf(uv, w)
      BY <2>7 DEF uv
    <3>2. \A i \in 1..Len(s) : s[i] = w[i + (Len(w) - (Len(s) + Len(uv)))]
      BY <1>2, <2>4, <2>5, <3>1
    <3>3. Len(s) + Len(uv) <= Len(w)
      BY <1>2, <2>4, <2>5, <3>1
    <3>4. LastOf(s \o uv, w) /\ Len(s \o uv) = Len(s) + Len(uv)
      BY <1>10, <2>4, <3>1, <3>2, <3>3, CallsFollow
    <3>. QED
      BY <2>8, <3>1, <3>4 DEF uv
  <2>10. \/ Len(t) = n + 2 /\ r.mode = "overwrite"
         \/ Len(t) = n + 1 /\ ~(r.mode = "overwrite" /\ c.made)
    <3>1. CASE r.mode = "overwrite" /\ c.made /\ Len(s) = 1
      <4>1. Len(t) = n + 2
        BY <1>2, <2>9, <3>1
      <4>. QED
        BY <3>1, <4>1
    <3>2. CASE ~(r.mode = "overwrite" /\ c.made) /\ Len(s) = 0
      BY <1>2, <2>9, <3>2
    <3>. QED
      BY <2>4, <3>1, <3>2
  <2>11. ~(Len(t) <= n) /\ (Len(t) = n + 2 => Len(t) # n + 1)
    BY <1>2, <2>10
  <2>12. Reached(b, r, c, c, Len(t))
    BY <1>3, <1>11, <2>10, <2>11 DEF Reached, n
  <2>. QED
    BY <2>9, <2>12 DEF w
<1>. QED
    BY <1>4, <1>14, <1>6, <1>7, <1>9, <1>11 DEF Backends!Backend

\* The records of a write take the places of those with their ids.
LEMMA MergedAre ==
    ASSUME NEW A \in SUBSET PointsRecord, NEW list \in Seq(PointsRecord)
    PROVE  LET R == Backends!Range(list)
               D == Backends!Merged(A, list) IN
           /\ R \subseteq PointsRecord /\ D \subseteq PointsRecord /\ R \subseteq D
           /\ \A x \in D : x.id \in Backends!IdsOf(R) => x \in R
           /\ Backends!IdsOf(A) \cap Backends!IdsOf(R) = {} => A \subseteq D
           /\ A = {} => D = R
<1> DEFINE R == Backends!Range(list)
           D == Backends!Merged(A, list)
<1>1. R \subseteq PointsRecord
    BY DEF Backends!Range
<1>2. D = {x \in A : x.id \notin Backends!IdsOf(R)} \cup R
    BY DEF Backends!Merged, Backends!Without
<1> HIDE DEF R, D
<1>3. \A x \in A : Backends!IdsOf(A) \cap Backends!IdsOf(R) = {} => x.id \notin Backends!IdsOf(R)
    BY DEF Backends!IdsOf
<1>4. /\ R \subseteq PointsRecord /\ D \subseteq PointsRecord /\ R \subseteq D
      /\ \A x \in D : x.id \in Backends!IdsOf(R) => x \in R
      /\ Backends!IdsOf(A) \cap Backends!IdsOf(R) = {} => A \subseteq D
      /\ A = {} => D = R
    BY <1>1, <1>2, <1>3
<1>. QED
    BY <1>4 DEF R, D

LEMMA BasesAre ==
    ASSUME NEW r, Writing(r), NEW c, Sound(c)
    PROVE  /\ Sound(Kept(r, c)) /\ Sound(Base(r, c)) /\ Sound(PineconeBase(r, c))
           /\ Base(r, c).made /\ PineconeBase(r, c).made
           /\ r.mode = "overwrite" => /\ Base(r, c).recs = {} /\ Base(r, c).con = r.con
                                      /\ PineconeBase(r, c).recs = {}
           /\ r.mode = "append" => /\ c.recs = Base(r, c).recs
                                   /\ c.recs # {} => Base(r, c) = c
           /\ r.mode = "append" /\ c.made => Base(r, c) = c
           /\ ~c.made => c.recs = {}
<1>1. /\ Sound(Backends!NoCollection) /\ Backends!NoCollection.recs = {}
      /\ Backends!NoCollection.made = FALSE
    BY NoneIs
<1>2. ~c.made => c = Backends!NoCollection
    BY DEF Sound
<1>3. Sound(Kept(r, c)) /\ (r.mode = "append" => Kept(r, c) = c)
    BY <1>1 DEF Kept
<1>4. ASSUME NEW k, Sound(k)
      PROVE  /\ Sound(Backends!Create(r, k)) /\ Backends!Create(r, k).made
             /\ k.made => Backends!Create(r, k) = k
             /\ ~k.made => Backends!Create(r, k).recs = {} /\ Backends!Create(r, k).con = r.con
  <2>1. CASE k.made
    BY <1>4, <2>1 DEF Backends!Create
  <2>2. CASE ~k.made
    <3> DEFINE d == [made |-> TRUE, con |-> r.con, metric |-> r.metric, recs |-> {}]
    <3>1. Backends!Create(r, k) = d
      BY <2>2 DEF Backends!Create
    <3>2. d \in CollRecord /\ d.made /\ d.recs = {} /\ d.con = r.con
      BY DEF CollRecord, Writing
    <3> HIDE DEF d
    <3>. QED
      BY <2>2, <3>1, <3>2 DEF Sound
  <2>. QED
    BY <2>1, <2>2
<1>5. ASSUME c.made PROVE Sound(Backends!Clear(c)) /\ Backends!Clear(c).made /\ Backends!Clear(c).recs = {}
  <2>1. c \in CollRecord
    BY DEF Sound
  <2>2. Backends!Clear(c) \in CollRecord /\ Backends!Clear(c).made = c.made /\ Backends!Clear(c).recs = {}
    BY <2>1 DEF Backends!Clear, CollRecord
  <2>. QED
    BY <1>5, <2>2 DEF Sound
<1>6. /\ Sound(Base(r, c)) /\ Base(r, c).made
      /\ Kept(r, c).made => Base(r, c) = Kept(r, c)
      /\ ~Kept(r, c).made => Base(r, c).recs = {} /\ Base(r, c).con = r.con
    BY <1>3, <1>4 DEF Base
<1>7. r.mode = "overwrite" => ~Kept(r, c).made
    BY <1>1 DEF Kept
<1>8. Sound(PineconeBase(r, c)) /\ PineconeBase(r, c).made
      /\ (r.mode = "overwrite" => PineconeBase(r, c).recs = {})
    BY <1>4, <1>5 DEF PineconeBase
<1>. QED
    BY <1>1, <1>2, <1>3, <1>6, <1>7, <1>8 DEF Kept

\* What a replacement of the whole collection leaves.
LEMMA ReplaceEnds ==
    ASSUME NEW b \in {"faiss", "lancedb"}, NEW r, Writing(r), NEW c, Sound(c),
           ~Backends!Raises(b, "replace", r, c)
    PROVE  Sound(Backends!Replace(r, c)) /\ Ended(b, r, c, Backends!Replace(r, c))
<1> DEFINE R == Backends!Range(r.recs)
           D == Backends!Merged(c.recs, r.recs)
           d == Backends!Replace(r, c)
<1>1. c.recs \in SUBSET PointsRecord /\ r.recs \in Seq(PointsRecord)
    BY DEF Sound, CollRecord, Writing
<1>2. /\ R \subseteq PointsRecord /\ D \subseteq PointsRecord /\ R \subseteq D
      /\ \A x \in D : x.id \in Backends!IdsOf(R) => x \in R
      /\ Backends!IdsOf(c.recs) \cap Backends!IdsOf(R) = {} => c.recs \subseteq D
      /\ c.recs = {} => D = R
    BY <1>1, MergedAre
<1>3. /\ d.made /\ d.con = r.con /\ d.recs = (IF r.mode = "append" THEN D ELSE R)
      /\ d.metric = r.metric
    BY DEF Backends!Replace
<1>4. Sound(d)
  <2>1. d \in CollRecord
    BY <1>2 DEF Backends!Replace, CollRecord, Writing
  <2>. QED
    BY <1>3, <2>1 DEF Sound
<1>5. r.mode = "append" /\ c.recs # {} => c.con = r.con /\ ~Backends!Conflicts(r, c)
  <2>1. c.recs # {} => c.made
    BY BasesAre
  <2>2. CASE b = "faiss"
    BY <2>1, <2>2 DEF Backends!Raises, Backends!FaissRaises
  <2>3. CASE b = "lancedb"
    BY <2>3 DEF Backends!Raises, Backends!LanceDbRaises
  <2>. QED
    BY <2>2, <2>3
<1>6. r.policy = "reject" /\ ~Backends!Conflicts(r, c) => Backends!IdsOf(c.recs) \cap Backends!IdsOf(R) = {}
    BY DEF Backends!Conflicts
<1>7. r.mode \in {"overwrite", "append"}
    BY DEF Writing
<1> HIDE DEF R, D, d
<1>8. Ended(b, r, c, d)
    BY <1>2, <1>3, <1>5, <1>6, <1>7 DEF Ended, R
<1>. QED
    BY <1>4, <1>8 DEF d

\* The records of a write are added to a collection of its own.
LEMMA AddedAre ==
    ASSUME NEW a, Sound(a), a.made, NEW S \in SUBSET PointsRecord, NEW d, d = [a EXCEPT !.recs = S]
    PROVE  Sound(d) /\ d.made /\ d.con = a.con /\ d.metric = a.metric /\ d.recs = S
<1>1. a \in CollRecord
    BY DEF Sound
<1>2. d \in CollRecord /\ d.made = a.made /\ d.con = a.con /\ d.metric = a.metric /\ d.recs = S
    BY <1>1 DEF CollRecord
<1>. QED
    BY <1>2 DEF Sound

LEMMA UpsertEnds ==
    ASSUME NEW b \in {"chroma", "qdrant", "pinecone"}, NEW r, Writing(r), NEW c, Sound(c),
           NEW a, a = (IF b = "pinecone" THEN PineconeBase(r, c) ELSE Base(r, c)),
           b = "chroma" => ~Backends!ChromaDisagrees(r, a) /\ ~Backends!ChromaRefuses(r, a)
    PROVE  Sound(Backends!Upsert(r, a)) /\ Ended(b, r, c, Backends!Upsert(r, a))
<1> DEFINE R == Backends!Range(r.recs)
           D == Backends!Merged(a.recs, r.recs)
           d == Backends!Upsert(r, a)
<1>1. Sound(a) /\ a.made
    BY BasesAre
<1>2. a.recs \in SUBSET PointsRecord /\ r.recs \in Seq(PointsRecord)
    BY <1>1 DEF Sound, CollRecord, Writing
<1>3. /\ D \subseteq PointsRecord /\ R \subseteq D
      /\ \A x \in D : x.id \in Backends!IdsOf(R) => x \in R
      /\ Backends!IdsOf(a.recs) \cap Backends!IdsOf(R) = {} => a.recs \subseteq D
      /\ a.recs = {} => D = R
    BY <1>2, MergedAre
<1>4. Sound(d) /\ d.con = a.con /\ d.recs = D
  <2>1. d = [a EXCEPT !.recs = D]
    BY DEF Backends!Upsert
  <2>2. D \in SUBSET PointsRecord
    BY <1>3
  <2> HIDE DEF d, D
  <2>. QED
    BY <1>1, <2>1, <2>2, AddedAre
<1>5. /\ r.mode = "overwrite" => a.recs = {} /\ (b # "pinecone" => a.con = r.con)
      /\ b = "chroma" /\ r.mode = "append" => c.recs = a.recs /\ (c.recs # {} => a = c)
    BY BasesAre
<1>6. b = "chroma" =>
          /\ r.mode = "append" => a.con = r.con
          /\ r.policy = "reject" => Backends!IdsOf(a.recs) \cap Backends!IdsOf(R) = {}
    BY DEF Backends!ChromaDisagrees, Backends!ChromaRefuses, Backends!Conflicts
<1>7. b \in Backends!Local => b = "chroma"
    BY DEF Backends!Local
<1> HIDE DEF R, D, d
<1>8. Ended(b, r, c, d)
    BY <1>3, <1>4, <1>5, <1>6, <1>7 DEF Ended, R
<1>. QED
    BY <1>4, <1>8 DEF d

LEMMA InsertEnds ==
    ASSUME NEW r, Writing(r), NEW c, Sound(c), NEW d, d = Backends!AppendAll(r, Base(r, c))
    PROVE  Sound(d) /\ Ended("milvus", r, c, d)
<1> DEFINE R == Backends!Range(r.recs)
           a == Base(r, c)
<1>1. /\ Sound(a) /\ a.made
      /\ r.mode = "overwrite" => a.recs = {} /\ a.con = r.con
    BY BasesAre
<1>2. a.recs \cup R \in SUBSET PointsRecord
  <2>1. a.recs \in SUBSET PointsRecord /\ r.recs \in Seq(PointsRecord)
    BY <1>1 DEF Sound, CollRecord, Writing
  <2>2. R \subseteq PointsRecord
    BY <2>1, MergedAre
  <2>. QED
    BY <2>1, <2>2
<1>3. d = [a EXCEPT !.recs = a.recs \cup R]
    BY DEF Backends!AppendAll
<1> HIDE DEF R, a
<1>4. Sound(d) /\ d.con = a.con /\ d.recs = a.recs \cup R
    BY <1>1, <1>2, <1>3, AddedAre
<1>5. "milvus" \notin Backends!Local
    BY DEF Backends!Local
<1>. QED
    BY <1>1, <1>4, <1>5 DEF Ended, R

\* An insertion of Weaviate adds the next record, whose id it has not.
LEMMA InsertedNext ==
    ASSUME NEW r, Writing(r), NEW a, NEW d, Sound(d), NEW m \in Nat, m < Len(r.recs),
           Inserted(r, a, d, m), r.recs[m + 1].id \notin Backends!IdsOf(d.recs),
           NEW e, e = Backends!Append1(r.recs[m + 1], d)
    PROVE  Sound(e) /\ Inserted(r, a, e, m + 1)
<1> DEFINE x == r.recs[m + 1]
           S == d.recs \cup {x}
<1>1. Len(r.recs) \in Nat /\ DOMAIN r.recs = 1..Len(r.recs) /\ r.recs \in Seq(PointsRecord)
    BY DEF Writing
<1>2. x \in PointsRecord
    BY <1>1
<1>3. d.made /\ S \in SUBSET PointsRecord
    BY <1>2 DEF Inserted, Sound, CollRecord
<1>4. e = [d EXCEPT !.recs = S]
    BY DEF Backends!Append1
<1>5. Sound(e) /\ e.made /\ e.con = d.con /\ e.metric = d.metric /\ e.recs = S
  <2>1. Sound(d)
    OBVIOUS
  <2> HIDE DEF S, x
  <2>. QED
    BY ONLY <1>3, <1>4, <2>1, AddedAre
<1>6. S = a.recs \cup {r.recs[i] : i \in 1..(m + 1)}
  <2>1. 1..(m + 1) = (1..m) \cup {m + 1}
    OBVIOUS
  <2>2. d.recs = a.recs \cup {r.recs[i] : i \in 1..m}
    BY DEF Inserted
  <2>. QED
    BY <2>1, <2>2
<1>7. ASSUME NEW y \in S, NEW i \in 1..(m + 1), y.id = r.recs[i].id PROVE y = r.recs[i]
  <2>1. \A z \in d.recs : z.id # x.id
    BY DEF Backends!IdsOf
  <2>2. \A z \in d.recs : \A j \in 1..m : z.id = r.recs[j].id => z = r.recs[j]
    BY DEF Inserted
  <2>3. \A j \in 1..m : r.recs[j] \in d.recs
    BY DEF Inserted
  <2>4. i \in 1..m \/ i = m + 1
    OBVIOUS
  <2>. QED
    BY <1>7, <2>1, <2>2, <2>3, <2>4
<1>. QED
    BY <1>5, <1>6, <1>7 DEF Inserted

LEMMA InsertedEnds ==
    ASSUME NEW r, Writing(r), NEW c, Sound(c), NEW d, Inserted(r, Base(r, c), d, Len(r.recs))
    PROVE  Ended("weaviate", r, c, d)
<1> DEFINE R == Backends!Range(r.recs)
<1>1. R = {r.recs[i] : i \in 1..Len(r.recs)}
    BY DEF Backends!Range, Writing
<1>2. r.mode = "overwrite" => Base(r, c).recs = {} /\ Base(r, c).con = r.con
    BY BasesAre
<1>3. d.recs = Base(r, c).recs \cup R /\ d.con = Base(r, c).con
    BY <1>1 DEF Inserted
<1>4. \A x \in d.recs : x.id \in Backends!IdsOf(R) => x \in R
    BY <1>1 DEF Inserted, Backends!IdsOf
<1>5. "weaviate" \notin Backends!Local
    BY DEF Backends!Local
<1> HIDE DEF R
<1>. QED
    BY <1>2, <1>3, <1>4, <1>5 DEF Ended, R

LEMMA EndedIsPromised ==
    ASSUME result' = "written", Ended(backend', req', before', coll')
    PROVE  Backends!PoliciesHold'
BY DEF Ended, Backends!PoliciesHold, Backends!RefusedIsHarmless, Backends!RejectKeepsRecords,
       Backends!UpsertReplaces, Backends!OverwriteRepairs, Backends!OneContract

\* What the next call makes of the collection, adapter by adapter.
Answered ==
    LET d == Backends!Effect(Head(todo), req, coll) IN
    /\ Sound(d)
    /\ Len(todo) # 1 => Reached(backend, req, before, d, Len(todo) - 1)
    /\ Len(todo) = 1 => Ended(backend, req, before, d)

LEMMA FaissAnswered ==
    ASSUME WritesInv, todo # <<>>, backend = "faiss",
           ~Backends!Raises(backend, Head(todo), req, coll)
    PROVE  Answered
<1> DEFINE w == AllCalls(backend, req, before)
<1>1. /\ Writing(req) /\ Sound(before) /\ coll = before /\ LastOf(todo, w)
      /\ backend \in Backends!Backend /\ req.recs \in Seq(PointsRecord)
    BY DEF WritesInv, Reached
<1>2. w \in Seq(CallName) /\ Len(w) = 1 /\ w[1] = "replace"
  <2>1. CallsInOrder(backend, req, before, w)
    BY <1>1, AllCallsAre
  <2> HIDE DEF w
  <2>. QED
    BY <1>1, <2>1 DEF CallsInOrder
<1> HIDE DEF w
<1>3. Len(todo) = 1 /\ Head(todo) = "replace"
    BY <1>1, <1>2, CallsLeft
<1>4. Backends!Effect(Head(todo), req, coll) = Backends!Replace(req, before)
    BY <1>1, <1>3 DEF Backends!Effect
<1>5. /\ Sound(Backends!Replace(req, before))
      /\ Ended(backend, req, before, Backends!Replace(req, before))
    BY <1>1, <1>3, ReplaceEnds
<1>. QED
    BY <1>3, <1>4, <1>5 DEF Answered

LEMMA LanceDbAnswered ==
    ASSUME WritesInv, todo # <<>>, backend = "lancedb",
           ~Backends!Raises(backend, Head(todo), req, coll)
    PROVE  Answered
<1> DEFINE w == AllCalls(backend, req, before)
           k == Len(todo)
           d == Backends!Effect(Head(todo), req, coll)
<1>1. /\ Writing(req) /\ Sound(before) /\ Sound(coll) /\ LastOf(todo, w)
      /\ backend \in Backends!Backend /\ req.recs \in Seq(PointsRecord)
      /\ Reached(backend, req, before, coll, k)
    BY DEF WritesInv
<1>2. w \in Seq(CallName) /\ Len(w) = 2 /\ w[1] = "replace" /\ w[2] = "index"
  <2>1. CallsInOrder(backend, req, before, w)
    BY <1>1, AllCallsAre
  <2> HIDE DEF w
  <2>. QED
    BY <1>1, <2>1 DEF CallsInOrder
<1> HIDE DEF w
<1>3. k \in 1..2 /\ Head(todo) = w[1 + (2 - k)]
    BY <1>1, <1>2, CallsLeft
<1> HIDE DEF k
<1>4. CASE k = 2
  <2>1. Head(todo) = "replace" /\ coll = before
    BY <1>1, <1>2, <1>3, <1>4 DEF Reached
  <2>2. d = Backends!Replace(req, before)
    BY <2>1 DEF Backends!Effect
  <2> HIDE DEF d
  <2>3. Sound(d) /\ Ended(backend, req, before, d)
    BY <1>1, <2>1, <2>2, ReplaceEnds
  <2>4. Reached(backend, req, before, d, k - 1)
    BY <1>4, <2>3 DEF Reached
  <2>. QED
    BY <1>4, <2>3, <2>4 DEF Answered, k, d
<1>5. CASE k = 1
  <2>1. Head(todo) = "index" /\ Ended(backend, req, before, coll)
    BY <1>1, <1>2, <1>3, <1>5 DEF Reached
  <2>2. d = coll
    BY <2>1 DEF Backends!Effect
  <2> HIDE DEF d
  <2>. QED
    BY <1>1, <1>5, <2>1, <2>2 DEF Answered, k, d
<1>. QED
    BY <1>3, <1>4, <1>5

LEMMA ChromaAnswered ==
    ASSUME WritesInv, todo # <<>>, backend = "chroma",
           ~Backends!Raises(backend, Head(todo), req, coll)
    PROVE  Answered
<1> DEFINE w == AllCalls(backend, req, before)
           k == Len(todo)
           d == Backends!Effect(Head(todo), req, coll)
<1>1. /\ Writing(req) /\ Sound(before) /\ Sound(coll) /\ LastOf(todo, w)
      /\ backend \in Backends!Backend /\ req.recs \in Seq(PointsRecord)
      /\ Reached(backend, req, before, coll, k)
    BY DEF WritesInv
<1>2. w \in Seq(CallName) /\ Len(w) = 5 /\ w[1] = "drop" /\ w[2] = "create" /\ w[3] = "agree"
      /\ w[4] = "unique" /\ w[5] = "store"
  <2>1. CallsInOrder(backend, req, before, w)
    BY <1>1, AllCallsAre
  <2> HIDE DEF w
  <2>. QED
    BY <1>1, <2>1 DEF CallsInOrder
<1>3. Sound(Kept(req, before)) /\ Sound(Base(req, before))
    BY <1>1, BasesAre
<1> HIDE DEF w
<1>4. k \in 1..5 /\ Head(todo) = w[1 + (5 - k)]
    BY <1>1, <1>2, CallsLeft
<1> HIDE DEF k
<1>5. CASE k = 5
  <2>1. Head(todo) = "drop" /\ req.mode = "overwrite"
    BY <1>1, <1>2, <1>4, <1>5 DEF Reached
  <2>2. d = Kept(req, before)
    BY <2>1 DEF Backends!Effect, Backends!Drop, Kept
  <2> HIDE DEF d
  <2>3. Reached(backend, req, before, d, k - 1)
    BY <1>5, <2>2 DEF Reached
  <2>. QED
    BY <1>3, <1>5, <2>2, <2>3 DEF Answered, k, d
<1>6. CASE k = 4
  <2>1. Head(todo) = "create" /\ coll = Kept(req, before)
    BY <1>1, <1>2, <1>4, <1>6 DEF Reached
  <2>2. d = Base(req, before)
    BY <2>1 DEF Backends!Effect, Base
  <2> HIDE DEF d
  <2>3. Reached(backend, req, before, d, k - 1)
    BY <1>6, <2>2 DEF Reached
  <2>. QED
    BY <1>3, <1>6, <2>2, <2>3 DEF Answered, k, d
<1>7. CASE k = 3
  <2>1. Head(todo) = "agree" /\ coll = Base(req, before)
    BY <1>1, <1>2, <1>4, <1>7 DEF Reached
  <2>2. d = Base(req, before)
    BY <2>1 DEF Backends!Effect
  <2>3. ~Backends!ChromaDisagrees(req, Base(req, before))
    BY <2>1 DEF Backends!Raises
  <2> HIDE DEF d
  <2>4. Reached(backend, req, before, d, k - 1)
    BY <1>7, <2>2, <2>3 DEF Reached
  <2>. QED
    BY <1>3, <1>7, <2>2, <2>4 DEF Answered, k, d
<1>8. CASE k = 2
  <2>1. Head(todo) = "unique" /\ coll = Base(req, before)
        /\ ~Backends!ChromaDisagrees(req, Base(req, before))
    BY <1>1, <1>2, <1>4, <1>8 DEF Reached
  <2>2. d = Base(req, before)
    BY <2>1 DEF Backends!Effect
  <2>3. ~Backends!ChromaRefuses(req, Base(req, before))
    BY <2>1 DEF Backends!Raises
  <2> HIDE DEF d
  <2>4. Reached(backend, req, before, d, k - 1)
    BY <1>8, <2>1, <2>2, <2>3 DEF Reached
  <2>. QED
    BY <1>3, <1>8, <2>2, <2>4 DEF Answered, k, d
<1>9. CASE k = 1
  <2>1. Head(todo) = "store" /\ coll = Base(req, before)
        /\ ~Backends!ChromaDisagrees(req, Base(req, before))
        /\ ~Backends!ChromaRefuses(req, Base(req, before))
    BY <1>1, <1>2, <1>4, <1>9 DEF Reached
  <2>2. d = Backends!Upsert(req, Base(req, before))
    BY <2>1 DEF Backends!Effect
  <2> HIDE DEF d
  <2>3. Sound(d) /\ Ended(backend, req, before, d)
    BY <1>1, <2>1, <2>2, UpsertEnds
  <2>. QED
    BY <1>9, <2>3 DEF Answered, k, d
<1>. QED
    BY <1>4, <1>5, <1>6, <1>7, <1>8, <1>9

LEMMA PineconeAnswered ==
    ASSUME WritesInv, todo # <<>>, backend = "pinecone"
    PROVE  Answered
<1> DEFINE w == AllCalls(backend, req, before)
           k == Len(todo)
           d == Backends!Effect(Head(todo), req, coll)
<1>1. /\ Writing(req) /\ Sound(before) /\ LastOf(todo, w)
      /\ backend \in Backends!Backend /\ req.recs \in Seq(PointsRecord)
      /\ Reached(backend, req, before, coll, k)
    BY DEF WritesInv
<1>2. w \in Seq(CallName) /\ Len(w) = 2 /\ w[1] = (IF before.made THEN "clear" ELSE "create")
      /\ w[2] = "upsert"
  <2>1. CallsInOrder(backend, req, before, w)
    BY <1>1, AllCallsAre
  <2> HIDE DEF w
  <2>. QED
    BY <1>1, <2>1 DEF CallsInOrder
<1>3. Sound(PineconeBase(req, before))
    BY <1>1, BasesAre
<1> HIDE DEF w
<1>4. k \in 1..2 /\ Head(todo) = w[1 + (2 - k)]
    BY <1>1, <1>2, CallsLeft
<1> HIDE DEF k
<1>5. CASE k = 2
  <2>1. /\ Head(todo) = (IF before.made THEN "clear" ELSE "create")
        /\ coll = before /\ (before.made => req.mode = "overwrite")
    BY <1>1, <1>2, <1>4, <1>5 DEF Reached
  <2>2. d = PineconeBase(req, before)
    BY <2>1 DEF Backends!Effect, PineconeBase
  <2> HIDE DEF d
  <2>3. Reached(backend, req, before, d, k - 1)
    BY <1>5, <2>2 DEF Reached
  <2>. QED
    BY <1>3, <1>5, <2>2, <2>3 DEF Answered, k, d
<1>6. CASE k = 1
  <2>1. Head(todo) = "upsert" /\ coll = PineconeBase(req, before)
    BY <1>1, <1>2, <1>4, <1>6 DEF Reached
  <2>2. d = Backends!Upsert(req, PineconeBase(req, before))
    BY <2>1 DEF Backends!Effect
  <2> HIDE DEF d
  <2>3. Sound(d) /\ Ended(backend, req, before, d)
    BY <1>1, <2>2, UpsertEnds
  <2>. QED
    BY <1>6, <2>3 DEF Answered, k, d
<1>. QED
    BY <1>4, <1>5, <1>6

LEMMA QdrantAnswered ==
    ASSUME WritesInv, todo # <<>>, backend \in {"qdrant", "milvus"}
    PROVE  Answered
<1> DEFINE w == AllCalls(backend, req, before)
           k == Len(todo)
           d == Backends!Effect(Head(todo), req, coll)
<1>1. /\ Writing(req) /\ Sound(before) /\ LastOf(todo, w)
      /\ backend \in Backends!Backend /\ req.recs \in Seq(PointsRecord)
      /\ Reached(backend, req, before, coll, k)
    BY DEF WritesInv
<1>2. w \in Seq(CallName) /\ Len(w) = 3 /\ w[1] = "drop" /\ w[2] = "create"
      /\ w[3] = (IF backend = "qdrant" THEN "upsert" ELSE "insert")
  <2>1. CallsInOrder(backend, req, before, w)
    BY <1>1, AllCallsAre
  <2> HIDE DEF w
  <2>. QED
    BY <1>1, <2>1 DEF CallsInOrder
<1>3. Sound(Backends!NoCollection) /\ Sound(Base(req, before))
    BY <1>1, BasesAre, NoneIs
<1> HIDE DEF w
<1>4. k \in 1..3 /\ Head(todo) = w[1 + (3 - k)]
    BY <1>1, <1>2, CallsLeft
<1> HIDE DEF k
<1>5. CASE k = 3
  <2>1. Head(todo) = "drop" /\ req.mode = "overwrite"
    BY <1>1, <1>2, <1>4, <1>5 DEF Reached
  <2>2. d = Backends!NoCollection
    BY <2>1 DEF Backends!Effect, Backends!Drop
  <2> HIDE DEF d
  <2>3. Reached(backend, req, before, d, k - 1)
    BY <1>5, <2>1, <2>2 DEF Reached, Kept
  <2>. QED
    BY <1>3, <1>5, <2>2, <2>3 DEF Answered, k, d
<1>6. CASE k = 2
  <2>1. Head(todo) = "create" /\ coll = Kept(req, before)
    BY <1>1, <1>2, <1>4, <1>6 DEF Reached
  <2>2. d = Base(req, before)
    BY <2>1 DEF Backends!Effect, Base
  <2> HIDE DEF d
  <2>3. Reached(backend, req, before, d, k - 1)
    BY <1>6, <2>2 DEF Reached
  <2>. QED
    BY <1>3, <1>6, <2>2, <2>3 DEF Answered, k, d
<1>7. CASE k = 1
  <2>1. Head(todo) = w[3] /\ coll = Base(req, before)
    BY <1>1, <1>4, <1>7 DEF Reached
  <2>2. d = IF backend = "qdrant" THEN Backends!Upsert(req, Base(req, before))
            ELSE Backends!AppendAll(req, Base(req, before))
    BY <1>2, <2>1 DEF Backends!Effect
  <2> HIDE DEF d
  <2>3. Sound(d) /\ Ended(backend, req, before, d)
    BY <1>1, <2>2, UpsertEnds, InsertEnds
  <2>. QED
    BY <1>7, <2>3 DEF Answered, k, d
<1>. QED
    BY <1>4, <1>5, <1>6, <1>7

LEMMA WeaviateAnswered ==
    ASSUME WritesInv, todo # <<>>, backend = "weaviate",
           ~Backends!Raises(backend, Head(todo), req, coll)
    PROVE  Answered
<1> DEFINE w == AllCalls(backend, req, before)
           k == Len(todo)
           n == Len(req.recs)
           a == Base(req, before)
           d == Backends!Effect(Head(todo), req, coll)
<1>1. /\ Writing(req) /\ Sound(before) /\ Sound(coll) /\ LastOf(todo, w)
      /\ backend \in Backends!Backend /\ req.recs \in Seq(PointsRecord) /\ n \in Nat
      /\ Reached(backend, req, before, coll, k)
    BY DEF WritesInv
<1>2. /\ w \in Seq(CallName) /\ Len(w) = n + 2 /\ w[1] = "drop" /\ w[2] = "create"
      /\ \A i \in 3..Len(w) : w[i] = "insertOne"
  <2>1. CallsInOrder(backend, req, before, w)
    BY <1>1, AllCallsAre
  <2> HIDE DEF w
  <2>. QED
    BY <1>1, <2>1 DEF CallsInOrder
<1>3. Sound(Backends!NoCollection) /\ Sound(a) /\ a.made
    BY <1>1, BasesAre, NoneIs
<1> HIDE DEF w
<1>4. k \in 1..(n + 2) /\ Head(todo) = w[1 + ((n + 2) - k)]
    BY <1>1, <1>2, CallsLeft
<1> HIDE DEF k
<1>5. CASE k = n + 2
  <2>1. Head(todo) = "drop" /\ req.mode = "overwrite"
    BY <1>1, <1>2, <1>4, <1>5 DEF Reached
  <2>2. d = Backends!NoCollection /\ Kept(req, before) = Backends!NoCollection
    BY <2>1 DEF Backends!Effect, Backends!Drop, Kept
  <2> HIDE DEF d
  <2>3. Reached(backend, req, before, d, k - 1)
    BY <1>1, <1>5, <2>2 DEF Reached
  <2>4. k # 1
    BY <1>1, <1>5
  <2>. QED
    BY <1>3, <2>2, <2>3, <2>4 DEF Answered, k, d
<1>6. CASE k = n + 1
  <2>1. Head(todo) = "create" /\ coll = Kept(req, before)
    <3>1. 1 + ((n + 2) - k) = 2
      BY <1>1, <1>6
    <3>. QED
      BY <1>1, <1>2, <1>4, <1>6, <3>1 DEF Reached
  <2>2. d = a
    BY <2>1 DEF Backends!Effect, Base
  <2>3. Inserted(req, a, a, 0)
    <3>1. 1..0 = {}
      OBVIOUS
    <3> HIDE DEF a
    <3>. QED
      BY <1>3, <3>1 DEF Inserted
  <2> HIDE DEF d
  <2>4. k # 1 => Reached(backend, req, before, d, k - 1)
    <3>1. k - 1 = n /\ n - (k - 1) = 0
      BY <1>1, <1>6
    <3>2. Inserted(req, Base(req, before), d, n - (k - 1))
      BY <2>2, <2>3, <3>1
    <3>3. k - 1 # n + 1 /\ k - 1 # n + 2
      BY <1>1, <1>6
    <3>. QED
      BY <1>1, <3>2, <3>3 DEF Reached
  <2>5. k = 1 => Ended(backend, req, before, d)
    <3>1. k = 1 => n = 0
      BY <1>1, <1>6
    <3>. QED
      BY <1>1, <2>2, <2>3, <3>1, InsertedEnds
  <2>. QED
    BY <1>3, <2>2, <2>4, <2>5 DEF Answered, k, d
<1>7. CASE k \in 1..n
  <2> DEFINE m == n - k
  <2>1. /\ m \in Nat /\ m < n /\ m + 1 = (n + 1) - k /\ 1 + ((n + 2) - k) \in 3..Len(w)
        /\ m + 1 = n - (k - 1) /\ (k = 1 => m + 1 = n)
    BY <1>1, <1>2, <1>7
  <2>2. Head(todo) = "insertOne"
    BY <1>2, <1>4, <2>1
  <2>3. Inserted(req, a, coll, m)
    BY <1>1, <1>7 DEF Reached
  <2>4. req.recs[m + 1].id \notin Backends!IdsOf(coll.recs)
    BY <2>1, <2>2 DEF Backends!Raises, k
  <2>5. d = Backends!Append1(req.recs[m + 1], coll)
    BY <2>1, <2>2 DEF Backends!Effect, k
  <2> HIDE DEF d, m
  <2>6. Sound(d) /\ Inserted(req, a, d, m + 1)
    BY <1>1, <2>1, <2>3, <2>4, <2>5, InsertedNext
  <2>7. k # 1 => Reached(backend, req, before, d, k - 1)
    <3>1. k - 1 # n + 1 /\ k - 1 # n + 2
      BY <1>1, <1>7
    <3>. QED
      BY <1>1, <2>1, <2>6, <3>1 DEF Reached
  <2>8. k = 1 => Ended(backend, req, before, d)
    BY <1>1, <2>1, <2>6, InsertedEnds
  <2>. QED
    BY <2>6, <2>7, <2>8 DEF Answered, k, d
<1>8. k \in 1..n \/ k = n + 1 \/ k = n + 2
    BY <1>1, <1>4
<1>. QED
    BY <1>5, <1>6, <1>7, <1>8

\* A refusal comes before anything was written, but for what RefusedIsHarmless names.
LEMMA RefusalIsHarmless ==
    ASSUME WritesInv, todo # <<>>, Backends!Raises(backend, Head(todo), req, coll)
    PROVE  \/ coll = before
           \/ backend = "chroma" /\ req.mode = "overwrite"
           \/ backend = "chroma" /\ ~before.made /\ coll.recs = {}
           \/ backend = "weaviate"
<1> DEFINE w == AllCalls(backend, req, before)
           k == Len(todo)
<1>1. /\ Writing(req) /\ Sound(before) /\ LastOf(todo, w)
      /\ backend \in Backends!Backend /\ req.recs \in Seq(PointsRecord)
      /\ Reached(backend, req, before, coll, k)
    BY DEF WritesInv
<1>2. /\ w \in Seq(CallName)
      /\ backend = "lancedb" => Len(w) = 2 /\ w[1] = "replace" /\ w[2] = "index"
      /\ backend = "chroma" => /\ Len(w) = 5 /\ w[1] = "drop" /\ w[2] = "create" /\ w[3] = "agree"
                               /\ w[4] = "unique" /\ w[5] = "store"
      /\ backend = "pinecone" => /\ Len(w) = 2 /\ w[2] = "upsert"
                                 /\ w[1] = (IF before.made THEN "clear" ELSE "create")
      /\ backend \in {"qdrant", "milvus"} =>
           /\ Len(w) = 3 /\ w[1] = "drop" /\ w[2] = "create"
           /\ w[3] = (IF backend = "qdrant" THEN "upsert" ELSE "insert")
  <2>1. CallsInOrder(backend, req, before, w)
    BY <1>1, AllCallsAre
  <2> HIDE DEF w
  <2>. QED
    BY <1>1, <2>1 DEF CallsInOrder
<1> HIDE DEF w
<1>3. k \in 1..Len(w) /\ Head(todo) = w[1 + (Len(w) - k)] /\ Len(w) \in Nat
    BY <1>1, <1>2, CallsLeft
<1> HIDE DEF k
<1>4. Head(todo) \in {"replace", "agree", "unique", "insertOne"}
    BY DEF Backends!Raises
<1>5. CASE backend = "faiss"
    BY <1>1, <1>5 DEF Reached
<1>10. CASE backend = "lancedb"
  <2>1. Len(w) = 2 /\ w[1] = "replace" /\ w[2] = "index"
    BY <1>2, <1>10
  <2>2. k \in 1..2 /\ Head(todo) = w[1 + (2 - k)]
    BY <1>3, <2>1
  <2>3. k = 2
    BY <1>4, <2>1, <2>2
  <2>. QED
    BY <1>1, <1>10, <2>3 DEF Reached
<1>6. CASE backend = "chroma"
  <2>1. Len(w) = 5 /\ w[1] = "drop" /\ w[2] = "create" /\ w[5] = "store"
    BY <1>2, <1>6
  <2>2. k \in 1..3
    <3>1. k \in 1..5 /\ Head(todo) = w[1 + (5 - k)]
      BY <1>3, <2>1
    <3>2. k # 5 /\ k # 4
      BY <1>4, <2>1, <3>1
    <3>. QED
      BY <3>1, <3>2
  <2>3. coll = Base(req, before)
    BY <1>1, <1>6, <2>2 DEF Reached
  <2>4. req.mode \in {"overwrite", "append"}
    BY <1>1 DEF Writing
  <2>. QED
    BY <1>1, <1>6, <2>3, <2>4, BasesAre
<1>7. CASE backend = "pinecone"
  <2>1. Len(w) = 2 /\ w[1] \in {"clear", "create"} /\ w[2] = "upsert"
    BY <1>2, <1>7
  <2>2. k \in 1..2 /\ Head(todo) = w[1 + (2 - k)]
    BY <1>3, <2>1
  <2>3. k = 1 \/ k = 2
    BY <2>2
  <2>. QED
    BY <1>4, <2>1, <2>2, <2>3
<1>8. CASE backend \in {"qdrant", "milvus"}
  <2>1. Len(w) = 3 /\ w[1] = "drop" /\ w[2] = "create" /\ w[3] \in {"upsert", "insert"}
    BY <1>2, <1>8
  <2>2. k \in 1..3 /\ Head(todo) = w[1 + (3 - k)]
    BY <1>3, <2>1
  <2>3. k = 1 \/ k = 2 \/ k = 3
    BY <2>2
  <2>. QED
    BY <1>4, <2>1, <2>2, <2>3
<1>. QED
    BY <1>1, <1>5, <1>6, <1>7, <1>8, <1>10 DEF Backends!Backend

LEMMA NextCallKeeps == WritesInv /\ Backends!NextCall => WritesInv'
<1> SUFFICES ASSUME WritesInv, Backends!NextCall PROVE WritesInv'
    OBVIOUS
<1> DEFINE w == AllCalls(backend, req, before)
<1>1. todo # <<>> /\ UNCHANGED <<backend, req, before, writes>>
    BY DEF Backends!NextCall, Backends!Idle
<1>2. /\ backend \in Backends!Backend /\ writes \in 0..MaxWrites
      /\ Sound(coll) /\ Sound(before) /\ req.recs \in Seq(PointsRecord)
      /\ Writing(req) /\ LastOf(todo, w)
    BY <1>1 DEF WritesInv
<1>3. w \in Seq(CallName)
    BY <1>2, AllCallsAre DEF CallsInOrder
<1>4. CASE Backends!Raises(backend, Head(todo), req, coll)
  <2>1. todo' = <<>> /\ result' = "refused" /\ coll' = coll
    BY <1>4 DEF Backends!NextCall
  <2>2. Backends!RefusedIsHarmless'
    BY <1>1, <1>4, <2>1, RefusalIsHarmless DEF Backends!RefusedIsHarmless
  <2>3. Backends!PoliciesHold'
    BY <2>1, <2>2 DEF Backends!PoliciesHold, Backends!RejectKeepsRecords, Backends!UpsertReplaces,
           Backends!OverwriteRepairs, Backends!OneContract
  <2>. QED
    BY <1>1, <1>2, <2>1, <2>3 DEF WritesInv, WriteResult
<1>5. CASE ~Backends!Raises(backend, Head(todo), req, coll)
  <2> DEFINE d == Backends!Effect(Head(todo), req, coll)
  <2>1. coll' = d /\ todo' = Tail(todo) /\ result' = IF Len(todo) = 1 THEN "written" ELSE "none"
    BY <1>5 DEF Backends!NextCall
  <2>2. Answered
    BY <1>1, <1>2, <1>5, FaissAnswered, LanceDbAnswered, ChromaAnswered, PineconeAnswered, QdrantAnswered,
       WeaviateAnswered DEF Backends!Backend
  <2>3. /\ Sound(d)
        /\ Len(todo) # 1 => Reached(backend, req, before, d, Len(todo) - 1)
        /\ Len(todo) = 1 => Ended(backend, req, before, d)
    BY <2>2 DEF Answered
  <2> HIDE DEF d, w
  <2>4. /\ LastOf(todo', w) /\ Len(todo') = Len(todo) - 1
        /\ todo' # <<>> <=> Len(todo) # 1
    BY <1>1, <1>2, <1>3, <2>1, CallsLeft
  <2>5. todo' # <<>> =>
          /\ result' = "none" /\ Writing(req')
          /\ LastOf(todo', AllCalls(backend', req', before'))
          /\ Reached(backend', req', before', coll', Len(todo'))
    BY <1>1, <1>2, <2>1, <2>3, <2>4 DEF w
  <2>6. Backends!PoliciesHold'
    <3>1. CASE Len(todo) = 1
      BY <1>1, <2>1, <2>3, <3>1, EndedIsPromised
    <3>2. CASE Len(todo) # 1
      BY <2>1, <3>2, NothingPromised
    <3>. QED
      BY <3>1, <3>2
  <2>7. result' \in WriteResult
    BY <2>1 DEF WriteResult
  <2>. QED
    BY <1>1, <1>2, <2>1, <2>3, <2>5, <2>6, <2>7 DEF WritesInv
<1>. QED
    BY <1>4, <1>5

LEMMA RecordsAre ==
    ASSUME NEW n \in 1..MaxWrites, NEW list \in Backends!Records(n)
    PROVE  list \in Seq(PointsRecord)
<1>1. Backends!Record(n) \subseteq PointsRecord
    BY DEF Backends!Record, PointsRecord
<1>2. CASE \E x \in Backends!Record(n) : list = <<x>>
    BY <1>1, <1>2
<1>3. CASE \E x, y \in Backends!Record(n) : list = <<x, y>>
    BY <1>1, <1>3
<1>. QED
    BY <1>2, <1>3 DEF Backends!Records

\* A write or an update begins: with a refusal, or with the calls of its adapter.
LEMMA WriteBegins ==
    ASSUME WritesInv, writes < MaxWrites, writes' = writes + 1, NEW r, req' = r,
           r.recs \in Seq(PointsRecord),
           \/ result' \in {"refused", "unsupported"} /\ todo' = <<>>
           \/ Writing(r) /\ result' = "none" /\ todo' = Backends!Calls(backend, r, coll),
           before' = coll, UNCHANGED <<backend, coll>>
    PROVE  WritesInv'
<1>1. /\ backend \in Backends!Backend /\ writes \in 0..MaxWrites /\ Sound(coll)
    BY DEF WritesInv
<1>2. writes' \in 0..MaxWrites
    BY <1>1, BoundsAssumption
<1>3. CASE result' \in {"refused", "unsupported"} /\ todo' = <<>>
  <2>1. Backends!PoliciesHold'
    BY <1>3 DEF Backends!PoliciesHold, Backends!RefusedIsHarmless, Backends!RejectKeepsRecords,
           Backends!UpsertReplaces, Backends!OverwriteRepairs, Backends!OneContract
  <2>. QED
    BY <1>1, <1>2, <1>3, <2>1 DEF WritesInv, WriteResult
<1>4. CASE Writing(r) /\ result' = "none" /\ todo' = Backends!Calls(backend, r, coll)
  <2>1. LastOf(todo', AllCalls(backend, r, coll)) /\ Reached(backend, r, coll, coll, Len(todo'))
    BY <1>1, <1>4, CallsStart
  <2>2. Backends!PoliciesHold'
    BY <1>4, NothingPromised
  <2>3. /\ Writing(req') /\ LastOf(todo', AllCalls(backend', req', before'))
        /\ Reached(backend', req', before', coll', Len(todo'))
    BY <1>4, <2>1
  <2>4. result' \in WriteResult
    BY <1>4 DEF WriteResult
  <2>. QED
    BY <1>1, <1>2, <1>4, <2>2, <2>3, <2>4 DEF WritesInv
<1>. QED
    BY <1>3, <1>4

LEMMA WriteKeeps == WritesInv /\ Backends!Write => WritesInv'
<1> SUFFICES ASSUME WritesInv, Backends!Write PROVE WritesInv'
    OBVIOUS
<1>1. /\ writes < MaxWrites /\ writes' = writes + 1 /\ before' = coll
      /\ UNCHANGED <<backend, coll>>
    BY DEF Backends!Write
<1>2. PICK r \in Backends!WriteRequest(writes + 1) :
          /\ req' = r
          /\ IF Backends!Refused(backend, r)
             THEN result' = "refused" /\ todo' = <<>>
             ELSE result' = "none" /\ todo' = Backends!Calls(backend, r, coll)
    BY DEF Backends!Write
<1>3. writes + 1 \in 1..MaxWrites
    BY <1>1, BoundsAssumption DEF WritesInv
<1>4. /\ r.mode \in {"overwrite", "append"} /\ r.con \in Contract /\ r.metric \in Backends!Metric
      /\ r.recs \in Backends!Records(writes + 1)
    BY DEF Backends!WriteRequest
<1>5. r.recs \in Seq(PointsRecord) /\ Writing(r)
    BY <1>3, <1>4, RecordsAre DEF Writing
<1>. QED
    BY <1>1, <1>2, <1>5, WriteBegins

LEMMA UpdateKeeps == WritesInv /\ Backends!Update => WritesInv'
<1> SUFFICES ASSUME WritesInv, Backends!Update PROVE WritesInv'
    OBVIOUS
<1>1. /\ writes < MaxWrites /\ writes' = writes + 1 /\ before' = coll
      /\ UNCHANGED <<backend, coll>>
    BY DEF Backends!Update
<1>2. \E list \in Backends!Records(writes + 1), con \in Contract :
          LET r == [op |-> "update", mode |-> "append", policy |-> "upsert",
                    metric |-> coll.metric, con |-> con, recs |-> list] IN
          /\ req' = r
          /\ \/ result' \in {"refused", "unsupported"} /\ todo' = <<>>
             \/ result' = "none" /\ todo' = Backends!Calls(backend, r, coll)
    BY DEF Backends!Update
<1>3. PICK list \in Backends!Records(writes + 1) : \E con \in Contract :
          LET r == [op |-> "update", mode |-> "append", policy |-> "upsert",
                    metric |-> coll.metric, con |-> con, recs |-> list] IN
          /\ req' = r
          /\ \/ result' \in {"refused", "unsupported"} /\ todo' = <<>>
             \/ result' = "none" /\ todo' = Backends!Calls(backend, r, coll)
    BY <1>2
<1>4. PICK con \in Contract :
          LET r == [op |-> "update", mode |-> "append", policy |-> "upsert",
                    metric |-> coll.metric, con |-> con, recs |-> list] IN
          /\ req' = r
          /\ \/ result' \in {"refused", "unsupported"} /\ todo' = <<>>
             \/ result' = "none" /\ todo' = Backends!Calls(backend, r, coll)
    BY <1>3
<1> DEFINE r == [op |-> "update", mode |-> "append", policy |-> "upsert",
                 metric |-> coll.metric, con |-> con, recs |-> list]
<1>5. writes + 1 \in 1..MaxWrites /\ coll.metric \in Backends!Metric \cup {NoName}
    BY <1>1, BoundsAssumption DEF WritesInv, Sound, CollRecord
<1>6. r.mode = "append" /\ r.con = con /\ r.metric = coll.metric /\ r.recs = list
    OBVIOUS
<1>7. /\ req' = r
      /\ \/ result' \in {"refused", "unsupported"} /\ todo' = <<>>
         \/ result' = "none" /\ todo' = Backends!Calls(backend, r, coll)
    BY <1>4
<1> HIDE DEF r
<1>8. r.recs \in Seq(PointsRecord) /\ Writing(r)
    BY <1>5, <1>6, RecordsAre DEF Writing
<1>. QED
    BY <1>1, <1>7, <1>8, WriteBegins

LEMMA DeleteKeeps == WritesInv /\ Backends!Delete => WritesInv'
<1> SUFFICES ASSUME WritesInv, Backends!Delete PROVE WritesInv'
    OBVIOUS
<1>1. /\ todo = <<>> /\ coll.made /\ before' = coll
      /\ UNCHANGED <<backend, todo, writes>>
    BY DEF Backends!Delete, Backends!Idle
<1>2. /\ backend \in Backends!Backend /\ writes \in 0..MaxWrites /\ Sound(coll)
    BY DEF WritesInv
<1>3. /\ result' \in {"unsupported", "deleted"}
      /\ \E op \in {"delete_ids", "delete_document", "delete_filter", "delete_collection"} :
             req' = [Backends!NoReq EXCEPT !.op = op]
      /\ \/ coll' = coll \/ coll' = Backends!NoCollection
         \/ \E ids \in SUBSET Id : coll' = [coll EXCEPT !.recs = Backends!Without(coll.recs, ids)]
         \/ coll' = [coll EXCEPT !.recs = {}]
    BY DEF Backends!Delete
<1>4. req'.recs \in Seq(PointsRecord)
  <2>1. req'.recs = <<>>
    BY <1>3, NoneIs
  <2>. QED
    BY <2>1, NoneIs
<1>5. Sound(coll')
  <2>1. Sound(Backends!NoCollection)
    BY NoneIs
  <2>2. coll.recs \in SUBSET PointsRecord
    BY <1>2 DEF Sound, CollRecord
  <2>3. \A ids \in SUBSET Id : Backends!Without(coll.recs, ids) \in SUBSET PointsRecord
    BY <2>2 DEF Backends!Without
  <2>4. ASSUME NEW S \in SUBSET PointsRecord, coll' = [coll EXCEPT !.recs = S] PROVE Sound(coll')
    BY <1>1, <1>2, <2>4, AddedAre
  <2>. QED
    BY <1>2, <1>3, <2>1, <2>3, <2>4
<1>6. Backends!PoliciesHold'
    BY <1>3, NothingPromised
<1>. QED
    BY <1>1, <1>2, <1>3, <1>4, <1>5, <1>6 DEF WritesInv, WriteResult

LEMMA WritesSteps == WritesInv /\ [Backends!Next]_(Backends!vars) => WritesInv'
<1> SUFFICES ASSUME WritesInv, [Backends!Next]_(Backends!vars) PROVE WritesInv'
    OBVIOUS
<1>1. CASE UNCHANGED Backends!vars
    BY <1>1 DEF Backends!vars, WritesInv, Backends!PoliciesHold, Backends!RefusedIsHarmless,
           Backends!RejectKeepsRecords, Backends!UpsertReplaces, Backends!OverwriteRepairs,
           Backends!OneContract
<1>2. CASE Backends!CallFails
  <2>1. /\ todo' = <<>> /\ result' = "failed"
        /\ UNCHANGED <<backend, coll, req, before, writes>>
    BY <1>2 DEF Backends!CallFails
  <2>2. Backends!PoliciesHold'
    BY <2>1, NothingPromised
  <2>. QED
    BY <2>1, <2>2 DEF WritesInv, WriteResult
<1>3. CASE Backends!Rest
    BY <1>1, <1>3 DEF Backends!Rest
<1>. QED
    BY <1>1, <1>2, <1>3, WriteKeeps, NextCallKeeps, DeleteKeeps, UpdateKeeps DEF Backends!Next

LEMMA WritesAreTyped == WritesInv => Backends!TypeOK
<1> SUFFICES ASSUME WritesInv PROVE Backends!TypeOK
    OBVIOUS
<1>1. ASSUME NEW c \in {coll, before}
      PROVE  /\ c.made \in BOOLEAN /\ c.con \in Contract \cup {""}
             /\ c.metric \in Backends!Metric \cup {""} /\ c.recs \subseteq [id : Id, n : 1..MaxWrites]
  <2>1. /\ c.made \in BOOLEAN /\ c.con \in Contract \cup {NoName}
        /\ c.metric \in Backends!Metric \cup {NoName} /\ c.recs \subseteq PointsRecord
    BY DEF WritesInv, Sound, CollRecord
  <2>. QED
    BY <2>1, Zenon DEF NoName, PointsRecord
<1>. QED
    BY <1>1, Zenon DEF WritesInv, Backends!TypeOK, WriteResult, PointsRecord

------------------------------------------------------------------------------
(* The three together *)

RetrievalInv ==
    /\ which = "files" => FilesInv
    /\ which = "writes" => WritesInv
    /\ which = "search" => SearchInv

LEMMA RetrievalStarts == RetrievalInit => RetrievalInv
BY FilesStart, WritesStart, SearchStarts
   DEF RetrievalInit, FilesInit, BackendsInit, SearchInit, RetrievalInv

LEMMA RetrievalSteps == RetrievalInv /\ [RetrievalNext]_all => RetrievalInv'
<1> SUFFICES ASSUME RetrievalInv, [RetrievalNext]_all PROVE RetrievalInv'
    OBVIOUS
<1>1. ASSUME which' = "files" PROVE FilesInv'
    BY <1>1, FilesAreKept, FilesSteps DEF RetrievalInv
<1>2. ASSUME which' = "writes" PROVE WritesInv'
  <2>1. which = "writes" /\ (BackendsNext \/ UNCHANGED all)
    BY <1>2 DEF RetrievalNext, FilesNext, BackendsNext, SearchNext, Stopped, all
  <2>2. [Backends!Next]_(Backends!vars)
    BY <2>1 DEF BackendsNext, all, Backends!vars
  <2>. QED
    BY <2>1, <2>2, WritesSteps DEF RetrievalInv
<1>3. ASSUME which' = "search" PROVE SearchInv'
  <2>1. which = "search" /\ (SearchNext \/ UNCHANGED all)
    BY <1>3 DEF RetrievalNext, FilesNext, BackendsNext, SearchNext, Stopped, all
  <2>2. [Search!Next]_(Search!vars)
    BY <2>1 DEF SearchNext, all, Search!vars
  <2>. QED
    BY <2>1, <2>2, SearchSteps DEF RetrievalInv
<1>. QED
    BY <1>1, <1>2, <1>3 DEF RetrievalInv

\* write_points and search of every adapter: whatever calls of a write fail half way, a
\* refusal has changed nothing but what RefusedIsHarmless names, an overwrite repairs what a
\* failed one left, and FAISS, LanceDB and Chroma keep to the conflict policy and mix no
\* contracts.  The hits of a search match its filter and keep to its limit, within what
\* HitsMatch, NearestMatches and WithinLimit except, and are the nearest that match where
\* the search ranks by the metric of the store, which LanceDB without an index does not.
THEOREM BackendsAlwaysHold == RetrievalSpec => []BackendsHold
<1>1. RetrievalInv => BackendsHold
    BY SearchesAreExact DEF RetrievalInv, BackendsHold, WritesInv
<1>. QED
    BY <1>1, RetrievalStarts, RetrievalSteps, PTL DEF RetrievalSpec

\* Every variable of the FAISS store, of the adapters and of the searches has its type.
THEOREM RetrievalIsTyped == RetrievalSpec => []TypesOK
<1>1. RetrievalInv => TypesOK
    BY SearchesAreExact, WritesAreTyped DEF RetrievalInv, TypesOK, FilesInv
<1>. QED
    BY <1>1, RetrievalStarts, RetrievalSteps, PTL DEF RetrievalSpec
==============================================================================
