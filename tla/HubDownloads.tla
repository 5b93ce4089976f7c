---------------------------- MODULE HubDownloads ----------------------------
(***************************************************************************)
(* services/workflow/provider/huggingface_downloads.py: downloads of one   *)
(* Hugging Face repository.  A request checks the directory of the model,  *)
(* asks the hub for the files of its revision, resets the directory and    *)
(* starts a job, whose thread writes one file after the other, validates   *)
(* their sizes and writes the metadata that makes the directory complete.  *)
(* Two requests share the directory; the process may end at any time.      *)
(*                                                                         *)
(* Files keep their sizes from one revision to the next, the case in which *)
(* the validation tells least.                                             *)
(***************************************************************************)
EXTENDS Naturals, FiniteSets

CONSTANTS
    NFiles,      \* files of the repository
    NRevisions,  \* bound: revisions of the repository
    NDownloads,  \* bound: calls of download_huggingface_model
    MaxCrashes   \* bound: ends of the process

File     == 1..NFiles
Revision == 1..NRevisions
Download == 1..NDownloads

VARIABLES
    hub,        \* the current revision of the repository
    dir,        \* the directory: whether it is there, its metadata, its files
    handles,    \* of each file, the downloads that hold it open
    download,   \* of each call: where it is, its manifest, its file, its stop request
    told,       \* the result of each job: nothing, the caller's, or the thread's
    crashes,
    overlap     \* history: two downloads were past the check at the same time

vars == <<hub, dir, handles, download, told, crashes, overlap>>

\* A file is absent, cut short, of one revision, or holds the bytes of two writers.
Absent  == 0
Part    == NRevisions + 1
Mixed   == NRevisions + 2
Content == 0..NRevisions + 2
NoDir   == [there |-> FALSE, meta |-> "none", revision |-> 0, files |-> [f \in File |-> Absent]]

Asking  == {"check", "manifest", "reset", "describe", "start"}
Working == {"file", "open", "write", "stop", "validate", "complete", "clear"}
Ended   == {"completed", "failed", "cancelled"}

TypeOK ==
    /\ hub \in Revision /\ crashes \in 0..MaxCrashes /\ overlap \in BOOLEAN
    /\ dir.there \in BOOLEAN /\ dir.meta \in {"none", "partial", "complete"}
    /\ dir.revision \in Revision \cup {0}
    /\ dir.files \in [File -> Content]
    /\ ~dir.there => dir = NoDir
    /\ handles \in [File -> SUBSET Download]
    /\ \A d \in Download : \A f \in File : d \in handles[f] =>
           download[d].pc = "write" /\ download[d].file = f
    /\ download \in [Download -> [pc : {"new", "answered", "refused", "dead"}
                                       \cup Asking \cup Working \cup Ended,
                                  revision : Revision \cup {0}, file : 0..NFiles + 1,
                                  stop : BOOLEAN, early : BOOLEAN, answered : BOOLEAN]]
    /\ told \in [Download -> {"none", "start", "progress", "message"}]

Init ==
    /\ hub = 1 /\ dir = NoDir /\ handles = [f \in File |-> {}]
    /\ download = [d \in Download |-> [pc |-> "new", revision |-> 0, file |-> 0,
                                      stop |-> FALSE, early |-> FALSE, answered |-> FALSE]]
    /\ told = [d \in Download |-> "none"]
    /\ crashes = 0 /\ overlap = FALSE

At(d, pc) == download[d].pc = pc
Go(d, pc) == download' = [download EXCEPT ![d].pc = pc]

Active == {d \in Download : download[d].pc \in (Asking \cup Working) \ {"check"}}

-----------------------------------------------------------------------------
(* The request *)

\* Every file of the manifest is there with its size.
Validated(files) == \A f \in File : files[f] \notin {Absent, Part}

IsComplete == dir.there /\ dir.meta = "complete" /\ Validated(dir.files)

Ask(d) ==
    /\ At(d, "new") /\ Go(d, "check")
    /\ UNCHANGED <<hub, dir, handles, told, crashes, overlap>>

\* Mutant: what is there is downloaded again.
CheckNothing(d) ==
    /\ At(d, "check") /\ Go(d, "manifest")
    /\ overlap' = (overlap \/ Active # {})
    /\ UNCHANGED <<hub, dir, handles, told, crashes>>

Check(d) ==
    /\ At(d, "check")
    /\ Go(d, IF IsComplete THEN "answered" ELSE "manifest")
    /\ overlap' = (overlap \/ (~IsComplete /\ Active # {}))
    /\ UNCHANGED <<hub, dir, handles, told, crashes>>

\* The hub is out of reach, refuses or has no files, or names its revision.
Manifest(d) ==
    /\ At(d, "manifest")
    /\ \/ Go(d, "refused")
       \/ download' = [download EXCEPT ![d].pc = "reset", ![d].revision = hub]
    /\ UNCHANGED <<hub, dir, handles, told, crashes, overlap>>

\* rmtree(ignore_errors): where open files cannot be removed they stay, and with
\* them the directory.
Removals ==
    LET left == {f \in File : handles[f] # {}} IN
    {NoDir} \cup {[NoDir EXCEPT !.there = TRUE,
                                !.files = [f \in File |-> IF f \in left THEN dir.files[f]
                                                          ELSE Absent]] : x \in left}

RemoveTo(new) ==
    handles' = [f \in File |-> IF new.files[f] = Absent THEN {} ELSE handles[f]]

Reset(d) ==
    /\ At(d, "reset")
    /\ \E new \in Removals : dir' = [new EXCEPT !.there = TRUE] /\ RemoveTo(new)
    /\ Go(d, "describe")
    /\ UNCHANGED <<hub, told, crashes, overlap>>

WriteMetadata(meta, revision) ==
    dir' = [dir EXCEPT !.there = TRUE, !.meta = meta, !.revision = revision]

Describe(d) ==
    /\ At(d, "describe")
    /\ WriteMetadata("partial", download[d].revision)
    /\ Go(d, "start")
    /\ UNCHANGED <<hub, handles, told, crashes, overlap>>

\* The job makes the directory first; its thread is on its own from here.
Start(d) ==
    /\ At(d, "start")
    /\ download' = [download EXCEPT ![d].pc = "file", ![d].file = 1]
    /\ dir' = [dir EXCEPT !.there = TRUE]
    /\ UNCHANGED <<hub, handles, told, crashes, overlap>>

\* The caller writes the first result of the job, whatever the job wrote by then.
Announce(d) ==
    /\ download[d].pc \in Working \cup Ended /\ ~download[d].answered
    /\ download' = [download EXCEPT ![d].answered = TRUE]
    /\ told' = [told EXCEPT ![d] = "start"]
    /\ UNCHANGED <<hub, dir, handles, crashes, overlap>>

-----------------------------------------------------------------------------
(* The job *)

Close(d) == [f \in File |-> handles[f] \ {d}]

\* cancel_huggingface_download: refused until the job has a result to show.
Cancel(d) ==
    /\ download[d].pc \in Working /\ told[d] # "none"
    /\ download' = [download EXCEPT ![d].stop = TRUE,
            ![d].early = @ \/ download[d].pc \in {"file", "open", "write", "stop"}]
    /\ UNCHANGED <<hub, dir, handles, told, crashes, overlap>>

\* Mutant: the file stays open when the download stops.
StopOpen(d) ==
    /\ download[d].pc \in {"file", "write", "stop"} /\ download[d].stop
    /\ dir' \in Removals
    /\ Go(d, "cancelled")
    /\ told' = [told EXCEPT ![d] = "message"]
    /\ UNCHANGED <<hub, handles, crashes, overlap>>

\* should_stop is asked before each file, at each chunk and after the last file; the
\* directory is removed while the file is still open.
Stop(d) ==
    /\ download[d].pc \in {"file", "write", "stop"} /\ download[d].stop
    /\ \E new \in Removals :
         /\ dir' = new
         /\ handles' = [f \in File |-> IF new.files[f] = Absent THEN {} ELSE Close(d)[f]]
    /\ Go(d, "cancelled")
    /\ told' = [told EXCEPT ![d] = "message"]
    /\ UNCHANGED <<hub, crashes, overlap>>

BeginFile(d) ==
    /\ At(d, "file") /\ ~download[d].stop
    /\ Go(d, "open")
    /\ dir' = [dir EXCEPT !.there = TRUE]
    /\ UNCHANGED <<hub, handles, told, crashes, overlap>>

\* An error of the hub or of the disk ends the job; what was written stays.
Fail(d) ==
    /\ download[d].pc \in {"open", "write"}
    /\ Go(d, IF download[d].stop THEN "cancelled" ELSE "failed")
    /\ handles' = Close(d)
    /\ UNCHANGED <<hub, dir, told, crashes, overlap>>

Open(d) ==
    LET f == download[d].file IN
    /\ At(d, "open") /\ dir.there
    /\ dir' = [dir EXCEPT !.files[f] = Part]
    /\ handles' = [handles EXCEPT ![f] = @ \cup {d}]
    /\ Go(d, "write")
    /\ UNCHANGED <<hub, told, crashes, overlap>>

\* Mutant: the file is the one of the hub's current revision.
EndFileUnpinned(d) ==
    LET f == download[d].file IN
    /\ At(d, "write")
    /\ dir' = IF d \notin handles[f] THEN dir ELSE [dir EXCEPT !.files[f] = hub]
    /\ handles' = Close(d)
    /\ download' = [download EXCEPT ![d].pc = IF f = NFiles THEN "stop" ELSE "file",
                                    ![d].file = f + 1]
    /\ told' = [told EXCEPT ![d] = "progress"]
    /\ UNCHANGED <<hub, crashes, overlap>>

\* The last chunk is written.  A file that was removed meanwhile stays removed; one
\* that a second download writes too holds the bytes of both.
EndFile(d) ==
    LET f == download[d].file IN
    /\ At(d, "write")
    /\ dir' = IF d \notin handles[f] THEN dir
              ELSE [dir EXCEPT !.files[f] =
                       IF handles[f] = {d} /\ @ = Part THEN download[d].revision ELSE Mixed]
    /\ handles' = Close(d)
    /\ download' = [download EXCEPT ![d].pc = IF f = NFiles THEN "stop" ELSE "file",
                                    ![d].file = f + 1]
    /\ told' = [told EXCEPT ![d] = "progress"]
    /\ UNCHANGED <<hub, crashes, overlap>>

LastStopCheck(d) ==
    /\ At(d, "stop") /\ ~download[d].stop
    /\ Go(d, "validate")
    /\ UNCHANGED <<hub, dir, handles, told, crashes, overlap>>

Validate(d) ==
    /\ At(d, "validate")
    /\ Go(d, IF Validated(dir.files) THEN "complete"
             ELSE IF download[d].stop THEN "cancelled" ELSE "failed")
    /\ UNCHANGED <<hub, dir, handles, told, crashes, overlap>>

Complete(d) ==
    /\ At(d, "complete")
    /\ WriteMetadata("complete", download[d].revision)
    /\ Go(d, "clear")
    /\ UNCHANGED <<hub, handles, told, crashes, overlap>>

\* The cache of the catalog is cleared.  A stop that came too late still names the
\* job cancelled.
Clear(d) ==
    /\ At(d, "clear")
    /\ Go(d, IF download[d].stop THEN "cancelled" ELSE "completed")
    /\ told' = [told EXCEPT ![d] = "message"]
    /\ UNCHANGED <<hub, dir, handles, crashes, overlap>>

-----------------------------------------------------------------------------
(* Environment *)

NewRevision ==
    /\ hub < NRevisions
    /\ hub' = hub + 1
    /\ UNCHANGED <<dir, handles, download, told, crashes, overlap>>

\* The process ends: every download is gone, the directory stays, with the metadata
\* cut short if it was being written.
Crash ==
    /\ crashes < MaxCrashes /\ crashes' = crashes + 1
    /\ dir' \in {dir} \cup {[dir EXCEPT !.meta = "none", !.revision = 0] :
                            d \in {x \in Active : download[x].pc \in {"describe", "complete"}
                                                  /\ dir.there}}
    /\ handles' = [f \in File |-> {}]
    /\ download' = [d \in Download |->
           IF download[d].pc \in Asking \cup Working THEN [download[d] EXCEPT !.pc = "dead"]
           ELSE [download[d] EXCEPT !.answered = TRUE]]
    /\ UNCHANGED <<hub, told, overlap>>

Rest ==
    /\ \A d \in Download : download[d].pc \in Ended \cup {"answered", "refused", "dead"}
    /\ UNCHANGED vars

Next ==
    \/ \E d \in Download :
         \/ (\A e \in 1..(d - 1) : ~At(e, "new")) /\ Ask(d)
         \/ Check(d) \/ Manifest(d) \/ Reset(d) \/ Describe(d) \/ Start(d) \/ Cancel(d)
         \/ Stop(d) \/ BeginFile(d) \/ Fail(d) \/ Open(d) \/ EndFile(d) \/ LastStopCheck(d)
         \/ Validate(d) \/ Complete(d) \/ Clear(d)
         \/ Announce(d)
    \/ NewRevision \/ Crash \/ Rest

Spec == Init /\ [][Next]_vars

-----------------------------------------------------------------------------
(* Properties *)

\* A directory that counts as complete holds every file of the one revision its
\* metadata names, over failures, cancellations, ends of the process and new
\* revisions, unless two downloads shared it.
CompleteIsWhole == IsComplete /\ ~overlap => \A f \in File : dir.files[f] = dir.revision

\* What was completed stays: no later request, job or cancellation undoes it, unless
\* two downloads shared the directory.
CompleteStays == IsComplete /\ ~overlap' => dir' = dir

\* A download told to stop before its last look at the request does not complete.
CancelIsHeeded ==
    \A d \in Download : download[d].early => download[d].pc \notin {"complete", "clear", "completed"}

\* A job ends as completed only with its directory complete.
CompletedIsThere ==
    \A d \in Download : At(d, "clear") /\ download'[d].pc = "completed" /\ ~overlap => IsComplete
=============================================================================
