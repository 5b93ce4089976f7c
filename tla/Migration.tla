------------------------------ MODULE Migration ------------------------------
(***************************************************************************)
(* repositories/database/migration.py: processes that start on the same    *)
(* database file bring its schema to the head of their migrations, one at  *)
(* a time under a file lock and inside one transaction.  A process may     *)
(* wait too long for the lock or end anywhere.                             *)
(***************************************************************************)
EXTENDS Naturals, FiniteSets

CONSTANTS
    Process,   \* processes that start
    MaxHead    \* newest revision among their migrations

VARIABLES
    database,  \* committed: the revisions it names and the tables it has
    head,      \* the head of each process
    process,   \* how far each process is, with the schema of its transaction
    lock       \* who holds the file lock

vars == <<database, head, process, lock>>

Nobody   == "nobody"
Revision == 1..MaxHead
Foreign  == MaxHead + 1          \* a revision of other migrations
\* The tables of a revision are numbered as the revision that adds them.
Schema   == [revisions : SUBSET (Revision \cup {Foreign}), tables : SUBSET Revision]
Complete(schema, r) == schema.revisions = {r} /\ schema.tables = 1..r

TypeOK ==
    /\ database \in Schema /\ head \in [Process -> Revision]
    /\ process \in [Process -> [pc : {"start", "waiting", "check", "upgrade", "verify",
                                      "ready", "refused", "dead"}, schema : Schema]]
    /\ lock \in Process \cup {Nobody}
    /\ \A p \in Process : process[p].pc \in {"check", "upgrade", "verify"} => lock = p

\* The file is new, of a revision, of one that lost a table, of other software, of two
\* branches, or has tables and no revision.
Init ==
    /\ database \in {s \in Schema : s.revisions = {} \/ Foreign \in s.revisions
                                    \/ \E r \in Revision : s.revisions = {r} /\ s.tables \subseteq 1..r}
    /\ head \in [Process -> Revision]
    /\ process = [p \in Process |-> [pc |-> "start", schema |-> database]]
    /\ lock = Nobody

At(p, pc) == process[p].pc = pc
Go(p, pc) == process' = [process EXCEPT ![p].pc = pc]

Wait(p) == At(p, "start") /\ Go(p, "waiting") /\ UNCHANGED <<database, head, lock>>

Acquire(p) ==
    /\ At(p, "waiting") /\ lock = Nobody
    /\ lock' = p
    /\ process' = [process EXCEPT ![p] = [pc |-> "check", schema |-> database]]
    /\ UNCHANGED <<database, head>>

TimeOut(p) ==
    /\ At(p, "waiting") /\ lock # Nobody
    /\ Go(p, "refused") /\ UNCHANGED <<database, head, lock>>

\* _synchronize_locked and _validate_current_revision: what is not migrated.
Acceptable(schema, h) ==
    /\ Cardinality(schema.revisions) <= 1
    /\ \A r \in schema.revisions : r <= h
    /\ schema.revisions = {h} => 1..h \subseteq schema.tables
    /\ schema.revisions = {} => schema.tables = {}

\* The transaction is rolled back and the lock released.
Refuse(p) ==
    /\ process' = [process EXCEPT ![p] = [pc |-> "refused", schema |-> database]]
    /\ lock' = Nobody
    /\ UNCHANGED <<database, head>>

Check(p) ==
    /\ At(p, "check")
    /\ IF Acceptable(process[p].schema, head[p])
       THEN Go(p, "upgrade") /\ UNCHANGED <<database, head, lock>>
       ELSE Refuse(p)

Current(schema) == IF schema.revisions = {} THEN 0 ELSE CHOOSE r \in schema.revisions : TRUE

\* One migration script; it fails on a table that is already there, or on its own.
Upgrade(p) ==
    LET schema == process[p].schema
        next   == Current(schema) + 1 IN
    /\ At(p, "upgrade")
    /\ \/ /\ next <= head[p] /\ next \notin schema.tables
          /\ process' = [process EXCEPT ![p].schema =
                 [revisions |-> {next}, tables |-> schema.tables \cup {next}]]
          /\ UNCHANGED <<database, head, lock>>
       \/ next <= head[p] /\ Refuse(p)
       \/ next > head[p] /\ Go(p, "verify") /\ UNCHANGED <<database, head, lock>>

\* Mutant: the tables are not looked at before the commit.
CommitUnverified(p) ==
    /\ At(p, "verify")
    /\ database' = process[p].schema
    /\ lock' = Nobody
    /\ Go(p, "ready")
    /\ UNCHANGED head

\* _require_complete_application_schema, the commit and the release of the lock.
Commit(p) ==
    /\ At(p, "verify")
    /\ IF 1..head[p] \subseteq process[p].schema.tables
       THEN /\ database' = process[p].schema
            /\ lock' = Nobody
            /\ Go(p, "ready")
            /\ UNCHANGED head
       ELSE Refuse(p)

\* The process ends; the system releases its lock and the journal undoes its writes.
Crash(p) ==
    /\ process[p].pc \notin {"refused", "dead"}
    /\ process' = [process EXCEPT ![p] = [pc |-> "dead", schema |-> database]]
    /\ lock' = IF lock = p THEN Nobody ELSE lock
    /\ UNCHANGED <<database, head>>

Next == \E p \in Process : \/ Wait(p) \/ Acquire(p) \/ TimeOut(p) \/ Check(p)
                           \/ Upgrade(p) \/ Commit(p) \/ Crash(p)

Spec == Init /\ [][Next]_vars

-----------------------------------------------------------------------------
(* Properties *)

\* A process that reports the schema synchronized works on the whole schema of its own
\* head, or on one that a newer process migrated further; it was never taken back.
ReadyIsServed ==
    \A p \in Process : At(p, "ready") => \E r \in Revision : r >= head[p] /\ Complete(database, r)

\* A database that no migration may touch is left as it was, and one of a revision is
\* only ever replaced by a whole newer one.
OnlyWholeSchemas ==
    database' # database =>
        \E r \in Revision : /\ Complete(database', r) /\ r > Current(database)
                            /\ database.revisions \subseteq Revision
                            /\ Cardinality(database.revisions) <= 1
=============================================================================
