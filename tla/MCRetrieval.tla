----------------------------- MODULE MCRetrieval -----------------------------
(****************************************************************************)
(* The modules of services/workflow/vector_stores, each with behaviours of  *)
(* its own, for TLC: the files of a FAISS store under concurrent writers,   *)
(* the write policies of every backend, and the search of every backend.    *)
(****************************************************************************)
EXTENDS Naturals, Sequences, FiniteSets, TLC

CONSTANTS
    Client, Id, Contract, Nobody, MaxCalls, MaxCrashes, MaxWrites,
    Field, MaxRecords, TopK, Overfetch

ASSUME ClientsAssumption == Nobody \notin Client
ASSUME IdsAssumption == IsFiniteSet(Id)
ASSUME ContractsAssumption == "" \notin Contract
ASSUME BoundsAssumption == MaxCalls \in Nat /\ MaxCrashes \in Nat /\ MaxWrites \in Nat
                           /\ MaxRecords \in Nat /\ TopK \in Nat /\ Overfetch \in Nat

VARIABLES
    which,   \* the component of this behaviour
    dir, temp, backup, left, lock, pc, req, seen, keep, new, result, calls, crashes, last, stale,
    backend, coll, todo, before, writes, store, recs, place, phase, hits

Files == INSTANCE FaissStore
Backends == INSTANCE VectorBackends
Search == INSTANCE VectorSearch

all == <<which,
        dir, temp, backup, left, lock, pc, req, seen, keep, new, result, calls, crashes, last,
        stale, backend, coll, todo, before, writes, store, recs, place, phase, hits>>

\* The variables of the other components keep this value.
Off == "off"

FilesInit ==
    /\ which = "files" /\ Files!Init
    /\ backend = Off /\ coll = Off /\ todo = Off /\ before = Off /\ writes = Off
    /\ store = Off /\ recs = Off /\ place = Off /\ phase = Off /\ hits = Off
FilesNext ==
    /\ which = "files" /\ Files!Next
    /\ UNCHANGED <<which,
          backend, coll, todo, before, writes, store, recs, place, phase, hits>>

BackendsInit ==
    /\ which = "writes" /\ Backends!Init
    /\ dir = Off /\ temp = Off /\ backup = Off /\ left = Off /\ lock = Off /\ pc = Off /\ seen = Off
    /\ keep = Off /\ new = Off /\ calls = Off /\ crashes = Off /\ last = Off /\ stale = Off
    /\ store = Off /\ recs = Off /\ place = Off /\ phase = Off /\ hits = Off
BackendsNext ==
    /\ which = "writes" /\ Backends!Next
    /\ UNCHANGED <<which,
          dir, temp, backup, left, lock, pc, seen, keep, new, calls, crashes, last, stale, store,
          recs, place, phase, hits>>

SearchInit ==
    /\ which = "search" /\ Search!Init
    /\ dir = Off /\ temp = Off /\ backup = Off /\ left = Off /\ lock = Off /\ pc = Off /\ seen = Off
    /\ keep = Off /\ new = Off /\ result = Off /\ calls = Off /\ crashes = Off /\ last = Off
    /\ stale = Off /\ coll = Off /\ todo = Off /\ before = Off /\ writes = Off
SearchNext ==
    /\ which = "search" /\ Search!Next
    /\ UNCHANGED <<which,
          dir, temp, backup, left, lock, pc, seen, keep, new, result, calls, crashes, last, stale,
          coll, todo, before, writes>>

RetrievalInit == FilesInit \/ BackendsInit \/ SearchInit

\* These come to an end.
Stopped == which \in {"search"} /\ UNCHANGED all

RetrievalNext == FilesNext \/ BackendsNext \/ SearchNext \/ Stopped

RetrievalSpec == RetrievalInit /\ [][RetrievalNext]_all

------------------------------------------------------------------------------
(* Properties: those of the components *)

\* The clients of the store and the ids of records are interchangeable.
Symmetry == Permutations(Client) \cup Permutations(Id)

\* Every variable of a component has its type.
TypesOK ==
    /\ which = "files" => Files!TypeOK
    /\ which = "writes" => Backends!TypeOK
    /\ which = "search" => Search!TypeOK

\* base.py, _replace_local_points: the committed store is on the disk at every step of
\* a replacement, a failure restores it (but for a rename back and a removal that fail
\* themselves), and no id is stored twice.
StoreSurvives == which = "files" => Files!StoreSurvives

\* base.py, write_points and delete_ids: a committed append keeps what it was not asked
\* to replace, and a committed deletion removes exactly what it was asked to.
WritesAreExact == [][which = "files" => \A c \in Client : Files!WriteIsExact(c)]_all

\* write_points and search of every backend: refusals, upserts and retried overwrites do
\* what the backend's capabilities promise, and so do the conflict policies and embedding
\* contracts of the local ones; the hits match the filter, keep to the limit, and are
\* the nearest that match where the search is by the metric of the store.
BackendsHold ==
    /\ which = "writes" => Backends!PoliciesHold
    /\ which = "search" => Search!SearchIsExact
==============================================================================
