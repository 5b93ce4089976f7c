---------------------------- MODULE VectorSearch ----------------------------
(***************************************************************************)
(* A search of the SIMILARITY_SEARCH node over every backend: the request  *)
(* is held against the capabilities of the backend, the service is asked   *)
(* for candidates with what its dialect can say of the shared filter, and  *)
(* the program filters, scores and cuts what comes back.                   *)
(*                                                                         *)
(* Records are listed nearest first and carry one field; 0 stands for a    *)
(* field that is null.  A score is a monotone function of nearness, so a   *)
(* score threshold keeps the records up to a position, and an answer,      *)
(* which lists the nearest first, is the set of the positions it lists.    *)
(* Nearest is by the metric of the store; `place` is the rank a record has *)
(* for LanceDB, whose search names no metric.  What a service computes is   *)
(* external, and an approximate index counts as exact.                     *)
(***************************************************************************)
EXTENDS Integers, Sequences, FiniteSets, Functions

CONSTANTS
    Field,      \* the values of the field; 0 is null
    MaxRecords, \* bound
    TopK,       \* the limit of a search
    Overfetch   \* bound: stands for the factor 5 of client-side filtering

Backend  == {"faiss", "lancedb", "chroma", "qdrant", "pinecone", "milvus", "weaviate"}
Filtering == {"faiss", "lancedb", "chroma", "weaviate"}  \* filter what they fetched

VARIABLES backend, store, recs, place, req, phase, hits

vars == <<backend, store, recs, place, req, phase, hits>>

-----------------------------------------------------------------------------
(* Filters *)

\* A filter on the field: groups of clauses and a number of "should" matches;
\* -1 when the key is absent.
Clause == {[op |-> "exists", val |-> 0], [op |-> "eq", val |-> 1],
           [op |-> "gt", val |-> 1], [op |-> "lte", val |-> 1]}
AtMost(n) == {g \in SUBSET Clause : Cardinality(g) <= n}
Filter == {f \in [must : AtMost(1), should : AtMost(2), mustNot : AtMost(1), minimum : -1..2] :
             f.minimum <= Cardinality(f.should)}   \* _validate_filter_shape

\* A null value satisfies an equality only with null, and no comparison.
MatchesClause(x, cl) ==
    CASE cl.op = "exists" -> x # 0
      [] cl.op = "eq"  -> x = cl.val
      [] cl.op = "gt"  -> x # 0 /\ x > cl.val
      [] cl.op = "lte" -> x # 0 /\ x <= cl.val

Minimum(f) == IF f.minimum # -1 THEN f.minimum ELSE IF f.should = {} THEN 0 ELSE 1

Matches(x, f) ==
    /\ \A cl \in f.must : MatchesClause(x, cl)
    /\ \A cl \in f.mustNot : ~MatchesClause(x, cl)
    /\ Cardinality({cl \in f.should : MatchesClause(x, cl)}) >= Minimum(f)

\* What the query language of a service makes of the filter: its operators never hold
\* of a null, and one "should" clause is enough.
Translated(f, x) ==
    LET Holds(cl) == x # 0 /\ MatchesClause(x, cl) IN
    /\ \A cl \in f.must : Holds(cl)
    /\ \A cl \in f.mustNot : ~Holds(cl)
    /\ f.should = {} \/ \E cl \in f.should : Holds(cl)

QdrantFilter(f, x) == Translated(f, x)
MilvusFilter(f, x) == Translated(f, x)

\* Pinecone keeps metadata one level deeper than the key of its clauses, so that only a
\* field beside the metadata is found.
PineconeFilter(f, x) == Translated(f, IF store.flat THEN x ELSE 0)

-----------------------------------------------------------------------------
(* Capabilities *)

SupportedMetrics(b) == IF b = "weaviate" THEN {"cosine"} ELSE {"cosine", "l2", "dot"}
SupportedEngines(b) == {"native"} \cup IF b = "faiss" THEN {"faiss_augmented"} ELSE {}
SupportedOperators(b) ==
    {"eq", "gt", "lte"} \cup IF b \in Filtering THEN {"exists"} ELSE {}

\* _similarity_search_executor and validate_vector_request_capabilities: only vector
\* mode is supported by any backend, and a keyword query needs another mode.
Accepts(b, r, s) ==
    /\ r.strategy = s.metric
    /\ s.metric \in SupportedMetrics(b)
    /\ s.namespace => b = "pinecone"
    /\ r.mode = "vector" /\ ~r.keyword
    /\ r.engine \in SupportedEngines(b)
    /\ \A cl \in r.filter.must \cup r.filter.should \cup r.filter.mustNot :
            cl.op \in SupportedOperators(b)
    /\ r.filter.minimum # -1 => b \in Filtering

-----------------------------------------------------------------------------

\* The n nearest of some positions.
Take(n, S) == {i \in S : Cardinality({j \in S : j <= i}) <= n}

Positions    == DOMAIN recs
Passing(S, f) == {i \in S : Matches(recs[i], f)}
Matching(f)  == Passing(Positions, f)
Nearer(S, r) == {i \in S : i <= r.threshold}

\* The hits of every adapter.  FAISS ranks every record that matches.
FaissHits(r) == Take(TopK, Nearer(Matching(r.filter), r))

\* LanceDB, Chroma and Weaviate ask for more than the limit and filter that; Weaviate
\* does not cut it.
Overfetched(r) == Nearer(Passing(Take(TopK * Overfetch, Positions), r.filter), r)

ChromaHits(r)   == Take(TopK, Overfetched(r))
WeaviateHits(r) == Overfetched(r)

\* table.search(query_vector) ranks by the metric of the vector index.  Without one
\* (not asked for, a single row, a table written again by a deletion) it ranks by L2,
\* and the score is that of the distance it answers.
RanksByMetric == backend = "lancedb" => store.metric = "l2" \/ store.indexed

\* The n that come first for LanceDB.
First(n, S) == {i \in S : place[i] \in Take(n, {place[j] : j \in S})}

LanceDbHits(r) ==
    LET found == Passing(First(TopK * Overfetch, Positions), r.filter) IN
    First(TopK, {i \in found : place[i] <= r.threshold})

\* Qdrant, Milvus and Pinecone ask for the limit of what their filter lets through;
\* the first two filter the answer again.
Rechecked(found, r) == Nearer(Passing(found, r.filter), r)

QdrantHits(r) == Rechecked(Take(TopK, {i \in Positions : QdrantFilter(r.filter, recs[i])}), r)
MilvusHits(r) == Rechecked(Take(TopK, {i \in Positions : MilvusFilter(r.filter, recs[i])}), r)
PineconeHits(r) ==
    Nearer(Take(TopK, {i \in Positions : PineconeFilter(r.filter, recs[i])}), r)

Hits(b, r) ==
    CASE b = "faiss"    -> FaissHits(r)
      [] b = "lancedb"  -> LanceDbHits(r)
      [] b = "chroma"   -> ChromaHits(r)
      [] b = "weaviate" -> WeaviateHits(r)
      [] b = "qdrant"   -> QdrantHits(r)
      [] b = "milvus"   -> MilvusHits(r)
      [] b = "pinecone" -> PineconeHits(r)

NoFilter == [must |-> {}, should |-> {}, mustNot |-> {}, minimum |-> -1]
NoReq == [strategy |-> "cosine", mode |-> "vector", engine |-> "native", keyword |-> FALSE,
          filter |-> NoFilter, threshold |-> MaxRecords]

\* The ways a request departs from the plain one, each alone.
Odd(s) == {[NoReq EXCEPT !.strategy = m] : m \in {"cosine", "l2", "dot"}}
          \cup {[NoReq EXCEPT !.strategy = s.metric, !.mode = "hybrid", !.keyword = k] : k \in BOOLEAN}
          \cup {[NoReq EXCEPT !.strategy = s.metric, !.keyword = TRUE],
                [NoReq EXCEPT !.strategy = s.metric, !.engine = "faiss_augmented"]}
Request(s) == Odd(s) \cup [strategy : {s.metric}, mode : {"vector"}, engine : {"native"},
                           keyword : {FALSE}, filter : Filter, threshold : {1, MaxRecords}]

Init ==
    /\ backend \in Backend
    /\ store \in [metric : {"cosine", "l2"}, namespace : BOOLEAN, flat : BOOLEAN,
                  indexed : BOOLEAN]
    /\ backend # "pinecone" => ~store.namespace /\ store.flat
    /\ backend # "lancedb" => store.indexed
    /\ recs \in UNION {[1..n -> Field] : n \in 0..MaxRecords}
    /\ place \in Bijection(DOMAIN recs, DOMAIN recs)
    /\ RanksByMetric => place = [i \in DOMAIN recs |-> i]
    /\ req = NoReq /\ phase = "idle" /\ hits = {}

\* The executor holds the request against the store and the backend.
Ask ==
    /\ phase = "idle"
    /\ \E r \in Request(store) :
         /\ req' = r
         /\ phase' = IF Accepts(backend, r, store) THEN "asked" ELSE "refused"
    /\ UNCHANGED <<backend, store, recs, place, hits>>

\* The adapter's search; a service may fail, and nothing is kept of it.
Search ==
    /\ phase = "asked"
    /\ \/ phase' = "answered" /\ hits' = Hits(backend, req)
       \/ phase' = "failed" /\ UNCHANGED hits
    /\ UNCHANGED <<backend, store, recs, place, req>>

Next == Ask \/ Search

Spec == Init /\ [][Next]_vars

-----------------------------------------------------------------------------
(* Properties *)

\* Every variable has its type; hits are positions of the collection.
TypeOK ==
    /\ phase \in {"idle", "asked", "refused", "answered", "failed"}
    /\ hits \subseteq DOMAIN recs

\* A filter that a backend accepted is applied whole: every hit matches it, in spite
\* of what a service's own language makes of it.
HitsMatch ==
    phase = "answered" /\ backend # "pinecone"
    => \A i \in hits : Matches(recs[i], req.filter)

\* In a collection within the overfetch and without nulls, a backend returns the
\* nearest records that match, up to the limit: no match is lost to a nearer record
\* that does not match, nor to the difference between the two filter languages.  But
\* LanceDB ranks by another metric than the store's when no index names it.
NearestMatches ==
    /\ phase = "answered" /\ RanksByMetric
    /\ Len(recs) <= TopK * Overfetch /\ store.flat
    /\ \A i \in DOMAIN recs : recs[i] # 0
    => Take(TopK, hits) = Take(TopK, Nearer(Matching(req.filter), req))

\* A search keeps to the limit it was given, Weaviate apart.
WithinLimit == backend # "weaviate" => Cardinality(hits) <= TopK

SearchIsExact == HitsMatch /\ NearestMatches /\ WithinLimit

-----------------------------------------------------------------------------
(* What the documentation says and the code does not do *)

\* "fail closed instead of ... silently changing search semantics": the hits of a
\* search that was accepted are the nearest by the metric the request and the store
\* agreed on, whatever the backend.
SearchKeepsMetric ==
    phase = "answered" /\ Len(recs) <= TopK * Overfetch /\ req.filter = NoFilter
    => Take(TopK, hits) = Take(TopK, Nearer(Positions, req))
=============================================================================
