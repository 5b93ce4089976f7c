--------------------------- MODULE ProviderSettings ---------------------------
(***************************************************************************)
(* The provider settings, from the form of ConfigurationsPage.tsx to the   *)
(* rows of the database: edits are saved after a pause, one save at a      *)
(* time, with the keys the user did not touch left masked; the server puts *)
(* the stored keys back in and replaces the rows.  The keys stand for all  *)
(* fields of a provider: the others travel unmasked.                       *)
(***************************************************************************)
EXTENDS Naturals, FiniteSets, FiniteSetsExt

CONSTANTS
    NProviders,  \* providers of the catalog
    Key,         \* keys the user may enter
    NRequests,   \* bound: requests the server works on at the same time
    MaxEdits,    \* bound: edits and operations on the profile
    MaxFaults    \* bound: failed requests and broken connections

Provider == 1..NProviders
Request  == 1..NRequests
None     == "none"
Value    == Key \cup {None}

VARIABLES
    rows,       \* provider_configurations of the session
    profile,    \* the saved profile, or no profile
    page,       \* the page: form, revisions, timer, the save and the operation
    request,    \* what the server works on
    edits, faults,
    want,       \* history: the keys the user entered or activated
    excused     \* history: a save failed for good, or two requests overlapped

vars == <<rows, profile, page, request, edits, faults, want, excused>>

NoProfile == [p \in Provider |-> "no profile"]
NoRequest == [kind |-> "none", for |-> "nobody", revision |-> 0, payload |-> NoProfile,
              resolved |-> NoProfile, ids |-> {}, pc |-> "new", then |-> NoProfile]
Away == [in |-> FALSE, form |-> [p \in Provider |-> [key |-> None, has |-> FALSE, dirty |-> FALSE]],
         revision |-> 0, saved |-> 0, timer |-> FALSE, saving |-> FALSE, op |-> "none"]

\* The key of every provider in rows as they are stored.
KeysOf(rs) == [p \in Provider |-> LET s == {r \in rs : r.provider = p} IN
                                  IF s = {} THEN None ELSE (CHOOSE r \in s : TRUE).key]
Stored == KeysOf(rows)

Active == {r \in Request : request[r].kind # "none"}
Free   == LET idle == Request \ Active IN {r \in idle : \A s \in idle : r <= s}

TypeOK ==
    /\ \A r \in rows : r.provider \in Provider /\ r.key \in Key /\ r.id \in Nat
    /\ \A r, s \in rows : r.id = s.id \/ r.provider = s.provider => r = s
    /\ page.in \in BOOLEAN /\ page.timer \in BOOLEAN /\ page.saving \in BOOLEAN
    /\ page.saved <= page.revision
    /\ page.op \in {"none", "save", "load", "saving", "loading"}
    /\ Cardinality({r \in Active : request[r].for = "page"}) <= 1
    /\ page.saving => \E r \in Active : request[r].for = "page" /\ request[r].kind = "save"
    /\ want \in [Provider -> Value] /\ excused \in BOOLEAN
    /\ profile = NoProfile \/ profile \in [Provider -> Value]

Init ==
    /\ \E key \in Value :
         /\ rows = IF key = None THEN {} ELSE {[id |-> 1, provider |-> 1, key |-> key]}
         /\ want = [p \in Provider |-> IF p = 1 THEN key ELSE None]
    /\ profile = NoProfile /\ page = Away
    /\ request = [r \in Request |-> NoRequest]
    /\ edits = 0 /\ faults = 0 /\ excused = FALSE

-----------------------------------------------------------------------------
(* The page *)

\* mapPayloadToForm of a masked answer.
FormOf(keys) ==
    [p \in Provider |-> [key |-> None, has |-> keys[p] # None, dirty |-> FALSE]]

\* buildPayload: a key that was not touched is null, and kept if the form has one.
Payload(form) ==
    [p \in Provider |-> IF form[p].dirty THEN form[p].key
                        ELSE IF form[p].has THEN "keep" ELSE None]

\* Sends a request of the page; two requests at the server may see each other's rows.
Send(kind, for, revision, payload) ==
    /\ \E r \in Free :
         request' = [request EXCEPT ![r] = [NoRequest EXCEPT !.kind = kind, !.for = for,
                         !.revision = revision, !.payload = payload]]
    /\ excused' = (excused \/ Active # {})

LoadPage ==
    /\ ~page.in
    /\ page' = [Away EXCEPT !.in = TRUE, !.form = FormOf(Stored)]
    /\ excused' = (excused \/ Active # {})
    /\ UNCHANGED <<rows, profile, request, edits, faults, want>>

\* scheduleProviderSettingsSave; the dialogs of the profiles cover the form.
Edit(p, key) ==
    /\ page.in /\ page.op = "none" /\ edits < MaxEdits
    /\ edits' = edits + 1
    /\ want' = [want EXCEPT ![p] = key]
    /\ page' = [page EXCEPT !.form[p] = [key |-> key, has |-> page.form[p].has, dirty |-> TRUE],
                            !.revision = @ + 1, !.timer = TRUE]
    /\ UNCHANGED <<rows, profile, request, faults, excused>>

\* flushProviderSettings, by the timer, a blur or an operation on a profile: a save that
\* is in flight goes on by itself to the edits made since.
Flush ==
    /\ page.in /\ page.saved < page.revision
    /\ page.timer \/ page.op # "none" \/ ~page.saving
    /\ IF page.saving THEN page' = [page EXCEPT !.timer = FALSE] /\ UNCHANGED <<request, excused>>
       ELSE /\ page' = [page EXCEPT !.timer = FALSE, !.saving = TRUE]
            /\ Send("save", "page", page.revision, Payload(page.form))
    /\ UNCHANGED <<rows, profile, edits, faults, want>>

Timer ==
    /\ page.timer /\ page.saved = page.revision
    /\ page' = [page EXCEPT !.timer = FALSE]
    /\ UNCHANGED <<rows, profile, request, edits, faults, want, excused>>

OpenProfile(op) ==
    /\ page.in /\ page.op = "none" /\ op \in {"save", "load"} /\ edits < MaxEdits
    /\ op = "load" => profile # NoProfile
    /\ page' = [page EXCEPT !.op = op]
    /\ edits' = edits + 1
    /\ UNCHANGED <<rows, profile, request, faults, want, excused>>

\* handleSaveProfile and handleLoadSelectedProfile go on once the flush is through.
Proceed ==
    /\ page.in /\ page.op \in {"save", "load"} /\ page.saved = page.revision /\ ~page.saving
    /\ page' = [page EXCEPT !.op = IF @ = "save" THEN "saving" ELSE "loading"]
    /\ Send(IF page.op = "save" THEN "profile" ELSE "activate", "page", 0, Payload(page.form))
    /\ UNCHANGED <<rows, profile, edits, faults, want>>

\* The page goes: what is unsaved is sent once more.  A save in flight is followed by
\* another only while the application lives on (a change of route).
Leave(unload) ==
    LET mine == {r \in Active : request[r].for = "page"}
        dirty == page.saved < page.revision
        loose == [r \in Request |-> IF r \notin mine THEN request[r]
                  ELSE [request[r] EXCEPT !.for = "nobody",
                            !.then = IF dirty /\ page.saving /\ ~unload
                                        /\ request[r].revision < page.revision
                                     THEN Payload(page.form) ELSE NoProfile]] IN
    /\ page.in
    /\ page' = Away
    /\ IF dirty /\ ~page.saving
       THEN /\ \E r \in Free : request' = [loose EXCEPT ![r] = [NoRequest EXCEPT !.kind = "save",
                                                !.payload = Payload(page.form)]]
            /\ excused' = (excused \/ Active # {})
       ELSE /\ request' = loose
            /\ excused' = (excused \/ (unload /\ \E r \in mine : request[r].kind = "save"
                                                 /\ request[r].revision < page.revision))
    /\ UNCHANGED <<rows, profile, edits, faults, want>>

-----------------------------------------------------------------------------
(* The server *)

Is(r, kinds, pc) == request[r].kind \in kinds /\ request[r].pc = pc

\* _resolve_provider_secrets
Resolved(payload, existing) ==
    [p \in Provider |-> IF payload[p] = "keep" THEN existing[p] ELSE payload[p]]

\* save_configuration of the service reads what exists; a profile to activate is read
\* first, with its keys.
Resolve(r) ==
    /\ Is(r, {"save", "activate"}, "new")
    /\ request' = [request EXCEPT ![r].pc = "rows", ![r].resolved =
           IF @ = NoProfile /\ request[r].kind = "activate" THEN profile
           ELSE Resolved(request[r].payload, Stored)]
    /\ UNCHANGED <<rows, profile, page, edits, faults, want, excused>>

\* The rows to delete are read before the transaction of the writes begins.
ReadRows(r) ==
    /\ Is(r, {"save", "activate"}, "rows")
    /\ request' = [request EXCEPT ![r].pc = "write", ![r].ids = {x.id : x \in rows}]
    /\ UNCHANGED <<rows, profile, page, edits, faults, want, excused>>

\* The answer reaches the page, if the page still waits for it.
Answered(r, keys) ==
    LET q == request[r] IN
    IF q.for # "page"
    THEN /\ page' = page
         /\ request' = [request EXCEPT ![r] =
                IF q.then = NoProfile THEN NoRequest
                ELSE [NoRequest EXCEPT !.kind = "save", !.payload = q.then]]
    ELSE
    CASE q.kind = "save" /\ q.revision < page.revision ->
             /\ page' = [page EXCEPT !.saved = q.revision]
             /\ request' = [request EXCEPT ![r] = [NoRequest EXCEPT !.kind = "save",
                    !.for = "page", !.revision = page.revision, !.payload = Payload(page.form)]]
      [] q.kind = "save" /\ q.revision = page.revision ->
             /\ page' = [page EXCEPT !.saved = q.revision, !.saving = FALSE]
             /\ request' = [request EXCEPT ![r] = NoRequest]
      [] q.kind = "profile" ->
             /\ page' = [page EXCEPT !.op = "none"]
             /\ request' = [request EXCEPT ![r] = NoRequest]
      [] q.kind = "activate" ->
             /\ page' = [page EXCEPT !.op = "none", !.form = FormOf(keys),
                                     !.revision = @ + 1, !.saved = page.revision + 1]
             /\ request' = [request EXCEPT ![r] = NoRequest]

\* The request fails, or its answer is lost while the server works on.
Refused(r) ==
    LET q == request[r] IN
    /\ page' = IF q.for # "page" THEN page
               ELSE IF q.kind = "save" /\ q.revision = page.revision
                    THEN [page EXCEPT !.saving = FALSE, !.op = "none"]
                    ELSE IF q.kind = "save" THEN page ELSE [page EXCEPT !.op = "none"]
    /\ request' = [request EXCEPT ![r] =
           IF q.for = "page" /\ q.kind = "save" /\ q.revision < page.revision
           THEN [NoRequest EXCEPT !.kind = "save", !.for = "page",
                     !.revision = page.revision, !.payload = Payload(page.form)]
           ELSE IF q.then # NoProfile
                THEN [NoRequest EXCEPT !.kind = "save", !.payload = q.then] ELSE NoRequest]
    /\ excused' = (excused \/ q.for # "page")

\* save_configuration of the repository: delete, insert, commit.
Write(r) ==
    LET q    == request[r]
        kept == {x \in rows : x.id \notin q.ids}
        new  == {p \in Provider : q.resolved[p] # None}
        base == Max({0} \cup {x.id : x \in kept})
        rank(p) == Cardinality({o \in new : o <= p})
        added == {[id |-> base + rank(p), provider |-> p, key |-> q.resolved[p]] : p \in new}
        after == kept \cup added IN
    /\ Is(r, {"save", "activate"}, "write")
    /\ IF \E x \in kept : x.provider \in new
       THEN Refused(r) /\ UNCHANGED <<rows, want>>
       ELSE /\ rows' = after
            /\ Answered(r, KeysOf(after))
            /\ want' = IF q.kind = "activate" THEN q.resolved ELSE want
            /\ UNCHANGED excused
    /\ UNCHANGED <<profile, edits, faults>>

\* save_configuration_profile: the keys left masked come from the profile of that name.
WriteProfile(r) ==
    LET existing == IF profile = NoProfile THEN [p \in Provider |-> None] ELSE profile IN
    /\ Is(r, {"profile"}, "new")
    /\ profile' = Resolved(request[r].payload, existing)
    /\ Answered(r, Stored)
    /\ UNCHANGED <<rows, edits, faults, want, excused>>

Fail(r) ==
    /\ r \in Active /\ faults < MaxFaults
    /\ faults' = faults + 1
    /\ Refused(r)
    /\ UNCHANGED <<rows, profile, edits, want>>

\* The connection breaks: the page sees an error, the server works on.
Break(r) ==
    LET q == request[r] IN
    /\ r \in Active /\ q.for = "page" /\ faults < MaxFaults
    /\ q.kind # "save" \/ q.revision = page.revision
    /\ faults' = faults + 1
    /\ page' = [page EXCEPT !.saving = FALSE, !.op = "none"]
    /\ request' = [request EXCEPT ![r].for = "nobody"]
    /\ excused' = (excused \/ q.kind = "activate")
    /\ UNCHANGED <<rows, profile, edits, want>>

Next ==
    \/ LoadPage \/ Flush \/ Timer \/ Proceed
    \/ \E p \in Provider, key \in Value : Edit(p, key)
    \/ \E op \in {"save", "load"} : OpenProfile(op)
    \/ \E unload \in BOOLEAN : Leave(unload)
    \/ \E r \in Request : \/ Resolve(r) \/ ReadRows(r) \/ Write(r) \/ WriteProfile(r)
                          \/ Fail(r) \/ Break(r)

Spec == Init /\ [][Next]_vars

-----------------------------------------------------------------------------
(* Properties *)

Quiet == Active = {} /\ page.saved = page.revision

\* When nothing is under way every key the user entered, kept or activated is stored,
\* over edits during a save, blurs, changes of the page, failures that were retried and
\* masked round trips, unless two requests overlapped or a last save failed.
SettledIsStored == Quiet /\ ~excused => Stored = want

-----------------------------------------------------------------------------
(* What the documentation says and the code does not do *)

\* "Named configuration profiles are optional snapshots" and loading one "replaces the
\* active provider configuration, including its stored credentials" (docs,
\* runtime/configuration.md): a saved profile holds the credentials that are stored.  It
\* is made from the form, in which keys are masked.
ProfileIsSnapshot ==
    [][profile' # profile /\ ~excused => profile' = Stored]_vars
=============================================================================
