--------------------------- MODULE VectorBackends ---------------------------
(***************************************************************************)
(* The adapters of services/workflow/vector_stores behind the VECTOR_STORE *)
(* and VECTOR_STORE_LIFECYCLE nodes: what every backend does to one        *)
(* collection, call by call, when a call of the service may fail.          *)
(*                                                                         *)
(* A contract stands for dimension, embedding provider and model.  What a  *)
(* service does with a call is external: an upsert replaces by id, an      *)
(* insert of Weaviate refuses an id it has, one of Milvus keeps both.      *)
(* One write is under way at a time.                                       *)
(* A collection is the set of its records; a write lists them.             *)
(***************************************************************************)
EXTENDS Naturals, Sequences, FiniteSets, Functions

CONSTANTS
    Id,         \* record ids
    Contract,   \* embedding contracts
    MaxWrites   \* bound

Backend == {"faiss", "lancedb", "chroma", "qdrant", "pinecone", "milvus", "weaviate"}
Metric  == {"cosine", "l2", "dot"}
Local   == {"faiss", "lancedb", "chroma"}

VARIABLES
    backend,    \* the backend of the run
    coll,       \* the collection: made, contract, metric, records
    req, todo,  \* the write under way and the calls it has left
    result,     \* how the last operation ended
    before,     \* history: the collection when the last operation began
    writes

vars == <<backend, coll, req, todo, result, before, writes>>

NoCollection == [made |-> FALSE, con |-> "", metric |-> "", recs |-> {}]
NoReq == [op |-> "none", mode |-> "", policy |-> "", metric |-> "", con |-> "", recs |-> <<>>]

IdsOf(recs) == {x.id : x \in recs}
HasDuplicates(list) == \E i, j \in DOMAIN list : i # j /\ list[i].id = list[j].id
Without(recs, ids) == {x \in recs : x.id \notin ids}

\* The records of a write take the places of those with their ids.
Merged(recs, list) == Without(recs, IdsOf(Range(list))) \cup Range(list)

-----------------------------------------------------------------------------
(* Capabilities *)

SupportedMetrics(b) == IF b = "weaviate" THEN {"cosine"} ELSE Metric

\* A lifecycle operation that the base class keeps for FAISS raises elsewhere.
Supports(b, op) ==
    \/ b \in {"faiss", "lancedb"}
    \/ b = "chroma" /\ op # "delete_filter"

-----------------------------------------------------------------------------
(* Writing *)

\* One of the calls of a write, as a function of the request and the collection.
Drop(c)      == NoCollection
Create(r, c) == IF c.made THEN c
                ELSE [made |-> TRUE, con |-> r.con, metric |-> r.metric, recs |-> {}]
Clear(c)     == [c EXCEPT !.recs = {}]
Upsert(r, c) == [c EXCEPT !.recs = Merged(@, r.recs)]
Append1(x, c) == [c EXCEPT !.recs = @ \cup {x}]
AppendAll(r, c) == [c EXCEPT !.recs = @ \cup Range(r.recs)]

\* The calls of a write, adapter by adapter.  FAISS and LanceDB replace the whole
\* directory or table at once; LanceDB then builds its vector index, if it is asked to
\* and the table has more than one row.
FaissCalls   == <<"replace">>
LanceDbCalls == <<"replace", "index">>

\* Drops before it compares and looks for conflicts.
ChromaCalls(r) ==
    (IF r.mode = "overwrite" THEN <<"drop">> ELSE <<>>) \o <<"create", "agree", "unique", "store">>

\* Clears the namespace of an index that is there.
PineconeCalls(r, c) ==
    (IF ~c.made THEN <<"create">> ELSE IF r.mode = "overwrite" THEN <<"clear">> ELSE <<>>)
    \o <<"upsert">>

\* Drops a collection that is there, unless it appends to it.
DropFirst(r, c) == IF r.mode = "overwrite" /\ c.made THEN <<"drop">> ELSE <<>>

QdrantCalls(r, c)   == DropFirst(r, c) \o <<"create", "upsert">>
MilvusCalls(r, c)   == DropFirst(r, c) \o <<"create", "insert">>
WeaviateCalls(r, c) == DropFirst(r, c) \o <<"create">> \o [i \in DOMAIN r.recs |-> "insertOne"]

Calls(b, r, c) ==
    CASE b = "faiss"    -> FaissCalls
      [] b = "lancedb"  -> LanceDbCalls
      [] b = "chroma"   -> ChromaCalls(r)
      [] b = "pinecone" -> PineconeCalls(r, c)
      [] b = "qdrant"   -> QdrantCalls(r, c)
      [] b = "milvus"   -> MilvusCalls(r, c)
      [] b = "weaviate" -> WeaviateCalls(r, c)

\* The request is refused before any call: a metric that the adapter does not
\* support; FAISS also looks for duplicates first.
Refused(b, r) ==
    \/ r.metric \notin SupportedMetrics(b)
    \/ b = "faiss" /\ HasDuplicates(r.recs)

\* _build_index knows cosine, l2 and "ip".
CannotBuild(b, r) == b = "faiss" /\ r.metric = "dot"

Conflicts(r, c) == r.policy = "reject" /\ IdsOf(c.recs) \cap IdsOf(Range(r.recs)) # {}

\* FAISS, under the lock: an append must agree with what is there and its policy
\* decides on conflicts.
FaissRaises(r, c) ==
    \/ CannotBuild("faiss", r)
    \/ /\ r.mode = "append" /\ c.made
       /\ c.con # r.con \/ c.metric # r.metric \/ Conflicts(r, c)

\* LanceDB does not compare the metric, and looks for duplicates in an append only.
LanceDbRaises(r, c) ==
    /\ r.mode = "append" /\ c.recs # {}
    /\ c.con # r.con \/ HasDuplicates(r.recs) \/ Conflicts(r, c)

ChromaDisagrees(r, c) == r.mode = "append" /\ (c.con # r.con \/ c.metric # r.metric)
ChromaRefuses(r, c)   == HasDuplicates(r.recs) \/ Conflicts(r, c)

Replace(r, c) ==
    [made |-> TRUE, con |-> r.con, metric |-> r.metric,
     recs |-> IF r.mode = "append" THEN Merged(c.recs, r.recs) ELSE Range(r.recs)]

\* Mutant: the conflict policy is not looked at.
RaisesOnDuplicatesOnly(b, call, r, c) == call = "unique" /\ HasDuplicates(r.recs)

\* The calls that raise by what they find in the collection.
Raises(b, call, r, c) ==
    \/ call = "replace" /\ (IF b = "faiss" THEN FaissRaises(r, c) ELSE LanceDbRaises(r, c))
    \/ call = "agree" /\ ChromaDisagrees(r, c)
    \/ call = "unique" /\ ChromaRefuses(r, c)
    \/ call = "insertOne" /\ r.recs[Len(r.recs) + 1 - Len(todo)].id \in IdsOf(c.recs)

Effect(call, r, c) ==
    CASE call = "replace" -> Replace(r, c)
      [] call = "drop"    -> Drop(c)
      [] call = "create"  -> Create(r, c)
      [] call = "clear"   -> Clear(c)
      [] call \in {"upsert", "store"} -> Upsert(r, c)
      [] call = "insert"  -> AppendAll(r, c)
      [] call = "insertOne" -> Append1(r.recs[Len(r.recs) + 1 - Len(todo)], c)
      [] OTHER -> c

-----------------------------------------------------------------------------

\* Records carry the number of the write that made them.
Record(n) == [id : Id, n : {n}]
Records(n) == {<<x>> : x \in Record(n)} \cup {<<x, y>> : x \in Record(n), y \in Record(n)}

WriteRequest(n) ==
    [op : {"write"}, mode : {"overwrite", "append"}, policy : {"reject", "upsert"},
     metric : Metric, con : Contract, recs : Records(n)]

Init ==
    /\ backend \in Backend /\ coll = NoCollection
    /\ req = NoReq /\ todo = <<>> /\ result = "none"
    /\ before = NoCollection /\ writes = 0

Idle == todo = <<>>

\* The VECTOR_STORE node; its checks come before the first call.
Write ==
    /\ Idle /\ writes < MaxWrites
    /\ writes' = writes + 1
    /\ \E r \in WriteRequest(writes + 1) :
         /\ req' = r
         /\ IF Refused(backend, r)
            THEN result' = "refused" /\ todo' = <<>>
            ELSE result' = "none" /\ todo' = Calls(backend, r, coll)
    /\ before' = coll
    /\ UNCHANGED <<backend, coll>>

\* The next call of the write, answered.
NextCall ==
    LET call == Head(todo) IN
    /\ ~Idle
    /\ IF Raises(backend, call, req, coll)
       THEN todo' = <<>> /\ result' = "refused" /\ UNCHANGED coll
       ELSE /\ coll' = Effect(call, req, coll)
            /\ todo' = Tail(todo)
            /\ result' = IF Len(todo) = 1 THEN "written" ELSE "none"
    /\ UNCHANGED <<backend, req, before, writes>>

\* A call fails: the write raises and does not undo the calls before it, so that
\* LanceDB keeps the rows of a write whose index could not be built.
CallFails ==
    /\ ~Idle
    /\ Head(todo) = "index" => Len(req.recs) > 1 \/ Cardinality(coll.recs) > 1
    /\ todo' = <<>> /\ result' = "failed"
    /\ UNCHANGED <<backend, coll, req, before, writes>>

\* The VECTOR_STORE_LIFECYCLE node: deletions and updates, where they are supported.
\* FAISS has no store and LanceDB drops the table when nothing is retained.
Delete ==
    /\ Idle /\ coll.made
    /\ \E op \in {"delete_ids", "delete_document", "delete_filter", "delete_collection"},
         ids \in SUBSET Id :
         LET kept == IF op = "delete_collection" THEN {} ELSE Without(coll.recs, ids) IN
         /\ req' = [NoReq EXCEPT !.op = op]
         /\ IF ~Supports(backend, op)
            THEN result' = "unsupported" /\ UNCHANGED coll
            ELSE /\ result' = "deleted"
                 /\ coll' = IF op = "delete_collection" \/ (kept = {} /\ backend # "chroma")
                            THEN NoCollection ELSE [coll EXCEPT !.recs = kept]
    /\ before' = coll
    /\ UNCHANGED <<backend, todo, writes>>

\* An update is an append of its points with the upsert policy, once every id of it
\* is known to be there.
Update ==
    /\ Idle /\ coll.made /\ writes < MaxWrites
    /\ writes' = writes + 1
    /\ \E recs \in Records(writes + 1), con \in Contract :
         LET r == [op |-> "update", mode |-> "append", policy |-> "upsert",
                   metric |-> coll.metric, con |-> con, recs |-> recs] IN
         /\ req' = r
         /\ IF ~Supports(backend, "update")
            THEN result' = "unsupported" /\ todo' = <<>>
            ELSE IF ~(IdsOf(Range(recs)) \subseteq IdsOf(coll.recs)) \/ Refused(backend, r)
            THEN result' = "refused" /\ todo' = <<>>
            ELSE result' = "none" /\ todo' = Calls(backend, r, coll)
    /\ before' = coll
    /\ UNCHANGED <<backend, coll>>

Rest == Idle /\ writes = MaxWrites /\ UNCHANGED vars

Next == Write \/ NextCall \/ CallFails \/ Delete \/ Update \/ Rest

Spec == Init /\ [][Next]_vars

-----------------------------------------------------------------------------
(* Properties *)

\* Every variable has its type.
TypeOK ==
    /\ backend \in Backend /\ writes \in 0..MaxWrites
    /\ \A c \in {coll, before} :
         /\ c.made \in BOOLEAN /\ c.con \in Contract \cup {""} /\ c.metric \in Metric \cup {""}
         /\ c.recs \subseteq [id : Id, n : 1..MaxWrites]
    /\ req.recs \in Seq([id : Id, n : 1..MaxWrites])
    /\ result \in {"none", "refused", "failed", "written", "deleted", "unsupported"}

\* A write that the program itself refuses has changed nothing; Chroma drops the
\* collection of an overwrite before it looks at the points, and Weaviate meets a
\* conflict half way.
RefusedIsHarmless ==
    result = "refused" =>
        \/ coll = before
        \/ backend = "chroma" /\ req.mode = "overwrite"
        \/ backend = "chroma" /\ ~before.made /\ coll.recs = {}
        \/ backend = "weaviate"

\* "Insert-style writes reject conflicts": FAISS, LanceDB and Chroma look at the
\* policy, and there a record is replaced only by a write that may replace it.
RejectKeepsRecords ==
    backend \in Local /\ req.policy = "reject" /\ req.mode = "append" /\ result = "written"
    => before.recs \subseteq coll.recs

\* An id is stored once after an upsert, whatever was there, except in Milvus, which
\* inserts, and for points of one LanceDB write that share an id.
UpsertReplaces ==
    /\ result = "written" /\ req.policy = "upsert" /\ ~HasDuplicates(req.recs)
    /\ backend # "milvus"
    => /\ Range(req.recs) \subseteq coll.recs
       /\ \A x \in coll.recs : x.id \in IdsOf(Range(req.recs)) => x \in Range(req.recs)

\* After calls that failed half way, an overwrite that succeeds leaves exactly its
\* own points: a retry repairs what the failure left.
OverwriteRepairs ==
    /\ result = "written" /\ req.mode = "overwrite"
    => coll.recs = Range(req.recs) /\ (backend # "pinecone" => coll.con = req.con)

\* Records of different embedding contracts never share a collection of FAISS,
\* LanceDB or Chroma; the remote backends compare no contracts.
OneContract ==
    backend \in Local /\ result = "written" /\ req.mode = "append" /\ before.recs # {}
    => before.con = req.con

PoliciesHold ==
    RefusedIsHarmless /\ RejectKeepsRecords /\ UpsertReplaces /\ OverwriteRepairs /\ OneContract

-----------------------------------------------------------------------------
(* What the documentation says and the code does not do *)

\* "Insert-style writes reject conflicts", said of every backend.
RejectKeepsAll ==
    req.policy = "reject" /\ req.mode = "append" /\ result = "written"
    => before.recs \subseteq coll.recs

\* "FAISS ... cosine, l2, dot": a write of a metric that a backend supports is not
\* refused for its metric.
SupportedMetricBuilds ==
    result = "refused" /\ req.mode = "overwrite" /\ req.metric \in SupportedMetrics(backend)
    => HasDuplicates(req.recs)
=============================================================================
