----------------------------- MODULE NodeRegistry -----------------------------
(***************************************************************************)
(* services/workflow/nodes/registry.py over its manifest files: concurrent *)
(* imports of node manifests.  An import looks the id up in memory, writes *)
(* the file, loads all files again and, if that fails, removes its file    *)
(* and loads them once more.  Every file access is a step of its own.      *)
(***************************************************************************)
EXTENDS FiniteSets

CONSTANTS
    Importer,   \* imports at the same time
    Manifest,   \* ids of manifests
    FileOf(_)   \* the file name of an id: two that differ in case share one

VARIABLES
    files,      \* what each file holds: nothing, a part, or a manifest
    registry,   \* the manifests in memory
    importer,   \* where each import is, its manifest, and what its reload has read
    overlap     \* history: two imports were under way together

vars == <<files, registry, importer, overlap>>

Nothing == "nothing"
Torn    == "torn"
File    == {FileOf(m) : m \in Manifest}
Steps   == {"save", "close", "read", "assign", "created", "delete", "reread", "reassign"}

TypeOK ==
    /\ files \in [File -> Manifest \cup {Nothing, Torn}]
    /\ registry \subseteq Manifest
    /\ importer \in [Importer -> [pc : {"idle", "done", "failed", "broken"} \cup Steps,
                                  manifest : Manifest \cup {Nothing},
                                  read : SUBSET Manifest, late : BOOLEAN]]
    /\ overlap \in BOOLEAN

Busy == {i \in Importer : importer[i].pc \in Steps}
OnDisk == {files[f] : f \in File} \cap Manifest

Init ==
    /\ \E there \in SUBSET Manifest :
         /\ \A m, n \in there : FileOf(m) = FileOf(n) => m = n
         /\ files = [f \in File |-> IF \E m \in there : FileOf(m) = f
                                    THEN CHOOSE m \in there : FileOf(m) = f ELSE Nothing]
         /\ registry = there
    /\ importer = [i \in Importer |-> [pc |-> "idle", manifest |-> Nothing, read |-> {},
                                       late |-> FALSE]]
    /\ overlap = FALSE

At(i, pc) == importer[i].pc = pc
Go(i, pc) == importer' = [importer EXCEPT ![i].pc = pc]

\* The id is new in memory; its handler is known.
Check(i, m) ==
    /\ At(i, "idle")
    /\ importer' = [importer EXCEPT ![i].manifest = m,
                        ![i].pc = IF m \in registry THEN "failed" ELSE "save",
                        ![i].late = m \in registry]
    /\ overlap' = (overlap \/ (m \notin registry /\ Busy # {}))
    /\ UNCHANGED <<files, registry>>

\* write_text empties the file before it writes.
Save(i) ==
    /\ At(i, "save") /\ Go(i, "close")
    /\ files' = [files EXCEPT ![FileOf(importer[i].manifest)] = Torn]
    /\ UNCHANGED <<registry, overlap>>

Close(i) ==
    /\ At(i, "close") /\ Go(i, "read")
    /\ files' = [files EXCEPT ![FileOf(importer[i].manifest)] = importer[i].manifest]
    /\ UNCHANGED <<registry, overlap>>

\* reload reads every file; one that does not parse ends it.
Read(i) ==
    /\ At(i, "read")
    /\ importer' = [importer EXCEPT ![i].pc = IF Torn \in {files[f] : f \in File} THEN "delete"
                                              ELSE "assign",
                                    ![i].read = OnDisk]
    /\ UNCHANGED <<files, registry, overlap>>

Assign(i) ==
    /\ At(i, "assign") /\ Go(i, "created")
    /\ registry' = importer[i].read
    /\ UNCHANGED <<files, overlap>>

Created(i) ==
    /\ At(i, "created")
    /\ Go(i, IF importer[i].manifest \in registry THEN "done" ELSE "delete")
    /\ UNCHANGED <<files, registry, overlap>>

Delete(i) ==
    /\ At(i, "delete") /\ Go(i, "reread")
    /\ files' = [files EXCEPT ![FileOf(importer[i].manifest)] = Nothing]
    /\ UNCHANGED <<registry, overlap>>

Reread(i) ==
    /\ At(i, "reread")
    /\ importer' = [importer EXCEPT ![i].pc = IF Torn \in {files[f] : f \in File} THEN "broken"
                                              ELSE "reassign",
                                    ![i].read = OnDisk]
    /\ UNCHANGED <<files, registry, overlap>>

Reassign(i) ==
    /\ At(i, "reassign") /\ Go(i, "failed")
    /\ registry' = importer[i].read
    /\ UNCHANGED <<files, overlap>>

Next ==
    \E i \in Importer :
        \/ \E m \in Manifest : Check(i, m)
        \/ Save(i) \/ Close(i) \/ Read(i) \/ Assign(i) \/ Created(i)
        \/ Delete(i) \/ Reread(i) \/ Reassign(i)

Spec == Init /\ [][Next]_vars

-----------------------------------------------------------------------------
(* Properties *)

Alone(m) == \A n \in Manifest \ {m} : FileOf(n) # FileOf(m)
Sole(i)  == \A j \in Importer \ {i} : importer[j].manifest # importer[i].manifest

\* An import that succeeded has its file, one that failed after it began left none,
\* whatever other imports did meanwhile, unless another id or import shares the file.
ImportIsAllOrNothing ==
    \A i \in Importer : LET m == importer[i].manifest IN
        m \in Manifest /\ Alone(m) /\ Sole(i) =>
            /\ At(i, "done") => files[FileOf(m)] = m
            /\ importer[i].pc \in {"failed", "broken"} /\ ~importer[i].late
                   => files[FileOf(m)] = Nothing

\* Imports one after the other leave in memory what is on disk.
MemoryIsDisk == Busy = {} /\ ~overlap => registry = OnDisk
=============================================================================
