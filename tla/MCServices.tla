----------------------------- MODULE MCServices ------------------------------
(****************************************************************************)
(* The services beside the engine, for TLC, each with behaviours of its     *)
(* own: the job registry, the downloads and the catalog of Hugging Face     *)
(* models, chat history, node manifests, schema migration and the settings  *)
(* of the providers.                                                        *)
(****************************************************************************)
EXTENDS Naturals, Sequences, FiniteSets, TLC

CONSTANTS
    Id, MaxStarts, MaxActive, Canceller, MaxTerminal,  \* JobManager
    NFiles, NRevisions, NDownloads, MaxCrashes,   \* HubDownloads and ChatHistory
    Query, Token, NoToken, ModelKind, MaxRows, PageSize, Visibility, Pages, MaxFetch, MaxTokens,
    Caller, ChatLimit, MaxTurns,                  \* ChatHistory
    Importer, NodeId,                             \* NodeRegistry
    Process, MaxHead,                             \* Migration
    NProviders, ApiKey, NRequests, MaxEdits, MaxFaults   \* ProviderSettings

\* The bounds are numbers, and a history keeps at least one message.
ASSUME BoundsAssumption ==
    /\ {MaxStarts, MaxActive, MaxTerminal, MaxTurns, MaxCrashes, MaxHead} \subseteq Nat
    /\ ChatLimit \subseteq Nat \ {0}
    /\ NProviders \in Nat \ {0}

\* A repository of the hub has a revision and files.
ASSUME HubAssumption == {NFiles, NRevisions} \subseteq Nat \ {0}

\* The catalog's numbers: a page has a row at least.
ASSUME CatalogAssumption ==
    /\ {MaxRows, MaxTokens, MaxFetch, Pages} \subseteq Nat
    /\ PageSize \in Nat \ {0}

\* No manifest, process or key is one of the marks that stand for something else.
ASSUME NamesAssumption ==
    /\ NodeId \cap {"nothing", "torn"} = {}
    /\ "nobody" \notin Process
    /\ ApiKey \cap {"none", "keep", "no profile"} = {}

VARIABLES
    which,   \* the component of this behaviour
    jobs, threads, state, started, caller, thread, cancel, ended, told, server, hub, dir,
    handles, download, crashes, overlap, listing, token, tokens, downloaded, cache, query,
    late, mixed, store, log, turns, completed, owned, raced, repeated, files, registry,
    importer, database, head, process, lock, rows, profile, page, request, edits, faults,
    want, excused

\* Manifests "A" and "a" differ in case only and share a file.
ManifestFile(m) == IF m = "B" THEN "b.json" ELSE "a.json"

Jobs == INSTANCE JobManager
Downloads == INSTANCE HubDownloads
Catalog == INSTANCE HubCatalog WITH Kind <- ModelKind
Chat == INSTANCE ChatHistory WITH Limit <- ChatLimit
Registry == INSTANCE NodeRegistry WITH Manifest <- NodeId, FileOf <- ManifestFile
Schema == INSTANCE Migration
Settings == INSTANCE ProviderSettings WITH Key <- ApiKey

all == <<which,
        jobs, threads, state, started, caller, thread, cancel, ended, told, server, hub,
        dir, handles, download, crashes, overlap, listing, token, tokens, downloaded, cache,
        query, late, mixed, store, log, turns, completed, owned, raced, repeated, files,
        registry, importer, database, head, process, lock, rows, profile, page, request,
        edits, faults, want, excused>>

\* The variables of the other components keep this value.
Off == "off"

JobsInit ==
    /\ which = "jobs" /\ Jobs!Init
    /\ hub = Off /\ dir = Off /\ handles = Off /\ download = Off /\ crashes = Off
    /\ overlap = Off /\ listing = Off /\ token = Off /\ tokens = Off /\ downloaded = Off
    /\ cache = Off /\ query = Off /\ late = Off /\ mixed = Off /\ store = Off /\ log = Off
    /\ turns = Off /\ completed = Off /\ owned = Off /\ raced = Off /\ repeated = Off
    /\ files = Off /\ registry = Off /\ importer = Off /\ database = Off /\ head = Off
    /\ process = Off /\ lock = Off /\ rows = Off /\ profile = Off /\ page = Off
    /\ request = Off /\ edits = Off /\ faults = Off /\ want = Off /\ excused = Off
JobsNext ==
    /\ which = "jobs" /\ Jobs!Next
    /\ UNCHANGED <<which,
          hub, dir, handles, download, crashes, overlap, listing, token, tokens, downloaded,
          cache, query, late, mixed, store, log, turns, completed, owned, raced, repeated,
          files, registry, importer, database, head, process, lock, rows, profile, page,
          request, edits, faults, want, excused>>

DownloadsInit ==
    /\ which = "downloads" /\ Downloads!Init
    /\ jobs = Off /\ threads = Off /\ state = Off /\ started = Off /\ caller = Off
    /\ thread = Off /\ cancel = Off /\ ended = Off /\ server = Off /\ listing = Off
    /\ token = Off /\ tokens = Off /\ downloaded = Off /\ cache = Off /\ query = Off
    /\ late = Off /\ mixed = Off /\ store = Off /\ log = Off /\ turns = Off /\ completed = Off
    /\ owned = Off /\ raced = Off /\ repeated = Off /\ files = Off /\ registry = Off
    /\ importer = Off /\ database = Off /\ head = Off /\ process = Off /\ lock = Off
    /\ rows = Off /\ profile = Off /\ page = Off /\ request = Off /\ edits = Off
    /\ faults = Off /\ want = Off /\ excused = Off
DownloadsNext ==
    /\ which = "downloads" /\ Downloads!Next
    /\ UNCHANGED <<which,
          jobs, threads, state, started, caller, thread, cancel, ended, server, listing,
          token, tokens, downloaded, cache, query, late, mixed, store, log, turns,
          completed, owned, raced, repeated, files, registry, importer, database, head,
          process, lock, rows, profile, page, request, edits, faults, want, excused>>

CatalogInit ==
    /\ which = "catalog" /\ Catalog!Init
    /\ jobs = Off /\ threads = Off /\ state = Off /\ started = Off /\ caller = Off
    /\ thread = Off /\ cancel = Off /\ ended = Off /\ told = Off /\ server = Off /\ hub = Off
    /\ dir = Off /\ handles = Off /\ download = Off /\ crashes = Off /\ overlap = Off
    /\ store = Off /\ log = Off /\ turns = Off /\ completed = Off /\ owned = Off /\ raced = Off
    /\ repeated = Off /\ files = Off /\ registry = Off /\ importer = Off /\ database = Off
    /\ head = Off /\ process = Off /\ lock = Off /\ rows = Off /\ profile = Off
    /\ page = Off /\ request = Off /\ edits = Off /\ faults = Off /\ want = Off
    /\ excused = Off
CatalogNext ==
    /\ which = "catalog" /\ Catalog!Next
    /\ UNCHANGED <<which,
          jobs, threads, state, started, caller, thread, cancel, ended, told, server, hub,
          dir, handles, download, crashes, overlap, store, log, turns, completed, owned,
          raced, repeated, files, registry, importer, database, head, process, lock, rows,
          profile, page, request, edits, faults, want, excused>>

ChatInit ==
    /\ which = "chat" /\ Chat!Init
    /\ jobs = Off /\ threads = Off /\ state = Off /\ started = Off /\ thread = Off
    /\ cancel = Off /\ ended = Off /\ told = Off /\ server = Off /\ hub = Off /\ dir = Off
    /\ handles = Off /\ download = Off /\ overlap = Off /\ listing = Off /\ token = Off
    /\ tokens = Off /\ downloaded = Off /\ cache = Off /\ query = Off /\ late = Off
    /\ mixed = Off /\ files = Off /\ registry = Off /\ importer = Off /\ database = Off
    /\ head = Off /\ process = Off /\ lock = Off /\ rows = Off /\ profile = Off /\ page = Off
    /\ request = Off /\ edits = Off /\ faults = Off /\ want = Off /\ excused = Off
ChatNext ==
    /\ which = "chat" /\ Chat!Next
    /\ UNCHANGED <<which,
          jobs, threads, state, started, thread, cancel, ended, told, server, hub, dir,
          handles, download, overlap, listing, token, tokens, downloaded, cache, query,
          late, mixed, files, registry, importer, database, head, process, lock, rows,
          profile, page, request, edits, faults, want, excused>>

RegistryInit ==
    /\ which = "registry" /\ Registry!Init
    /\ jobs = Off /\ threads = Off /\ state = Off /\ started = Off /\ caller = Off
    /\ thread = Off /\ cancel = Off /\ ended = Off /\ told = Off /\ server = Off /\ hub = Off
    /\ dir = Off /\ handles = Off /\ download = Off /\ crashes = Off /\ listing = Off
    /\ token = Off /\ tokens = Off /\ downloaded = Off /\ cache = Off /\ query = Off
    /\ late = Off /\ mixed = Off /\ store = Off /\ log = Off /\ turns = Off /\ completed = Off
    /\ owned = Off /\ raced = Off /\ repeated = Off /\ database = Off /\ head = Off
    /\ process = Off /\ lock = Off /\ rows = Off /\ profile = Off /\ page = Off
    /\ request = Off /\ edits = Off /\ faults = Off /\ want = Off /\ excused = Off
RegistryNext ==
    /\ which = "registry" /\ Registry!Next
    /\ UNCHANGED <<which,
          jobs, threads, state, started, caller, thread, cancel, ended, told, server, hub,
          dir, handles, download, crashes, listing, token, tokens, downloaded, cache, query,
          late, mixed, store, log, turns, completed, owned, raced, repeated, database, head,
          process, lock, rows, profile, page, request, edits, faults, want, excused>>

SchemaInit ==
    /\ which = "migration" /\ Schema!Init
    /\ jobs = Off /\ threads = Off /\ state = Off /\ started = Off /\ caller = Off
    /\ thread = Off /\ cancel = Off /\ ended = Off /\ told = Off /\ server = Off /\ hub = Off
    /\ dir = Off /\ handles = Off /\ download = Off /\ crashes = Off /\ overlap = Off
    /\ listing = Off /\ token = Off /\ tokens = Off /\ downloaded = Off /\ cache = Off
    /\ query = Off /\ late = Off /\ mixed = Off /\ store = Off /\ log = Off /\ turns = Off
    /\ completed = Off /\ owned = Off /\ raced = Off /\ repeated = Off /\ files = Off
    /\ registry = Off /\ importer = Off /\ rows = Off /\ profile = Off /\ page = Off
    /\ request = Off /\ edits = Off /\ faults = Off /\ want = Off /\ excused = Off
SchemaNext ==
    /\ which = "migration" /\ Schema!Next
    /\ UNCHANGED <<which,
          jobs, threads, state, started, caller, thread, cancel, ended, told, server, hub,
          dir, handles, download, crashes, overlap, listing, token, tokens, downloaded,
          cache, query, late, mixed, store, log, turns, completed, owned, raced, repeated,
          files, registry, importer, rows, profile, page, request, edits, faults, want,
          excused>>

SettingsInit ==
    /\ which = "settings" /\ Settings!Init
    /\ jobs = Off /\ threads = Off /\ state = Off /\ started = Off /\ caller = Off
    /\ thread = Off /\ cancel = Off /\ ended = Off /\ told = Off /\ server = Off /\ hub = Off
    /\ dir = Off /\ handles = Off /\ download = Off /\ crashes = Off /\ overlap = Off
    /\ listing = Off /\ token = Off /\ tokens = Off /\ downloaded = Off /\ cache = Off
    /\ query = Off /\ late = Off /\ mixed = Off /\ store = Off /\ log = Off /\ turns = Off
    /\ completed = Off /\ owned = Off /\ raced = Off /\ repeated = Off /\ files = Off
    /\ registry = Off /\ importer = Off /\ database = Off /\ head = Off /\ process = Off
    /\ lock = Off
SettingsNext ==
    /\ which = "settings" /\ Settings!Next
    /\ UNCHANGED <<which,
          jobs, threads, state, started, caller, thread, cancel, ended, told, server, hub,
          dir, handles, download, crashes, overlap, listing, token, tokens, downloaded,
          cache, query, late, mixed, store, log, turns, completed, owned, raced, repeated,
          files, registry, importer, database, head, process, lock>>

ServicesInit == JobsInit \/ DownloadsInit \/ CatalogInit \/ ChatInit \/ RegistryInit \/ SchemaInit \/ SettingsInit

\* These come to an end.
Stopped == which \in {"registry", "migration"} /\ UNCHANGED all

ServicesNext == JobsNext \/ DownloadsNext \/ CatalogNext \/ ChatNext \/ RegistryNext \/
    SchemaNext \/ SettingsNext \/ Stopped

ServicesSpec == ServicesInit /\ [][ServicesNext]_all

------------------------------------------------------------------------------
(* Properties: those of the components *)

\* The ids of jobs are interchangeable.
Symmetry == Permutations(Id)

\* Every variable of a component has its type.
TypesOK ==
    /\ which = "jobs" => Jobs!TypeOK
    /\ which = "downloads" => Downloads!TypeOK
    /\ which = "catalog" => Catalog!TypeOK
    /\ which = "chat" => Chat!TypeOK
    /\ which = "registry" => Registry!TypeOK
    /\ which = "migration" => Schema!TypeOK
    /\ which = "settings" => Settings!TypeOK

\* jobs.py: a runner at work is found by a cancellation, by the fence of the database
\* and by a shutdown, and one that was told to stop ends as cancelled.
JobsAreReachable == which = "jobs" => Jobs!JobsAreReachable

\* huggingface_downloads.py and huggingface_catalog.py: a complete model is whole, and
\* the pages of the catalog tile, are of their token and know what was downloaded.
HubIsTrue ==
    /\ which = "downloads" => Downloads!CompleteIsWhole /\ Downloads!CancelIsHeeded
    /\ which = "catalog" => Catalog!CatalogIsTrue

\* chat_history.py: what is stored is the newest of what was recorded, once a turn.
HistoryIsKept == which = "chat" => Chat!HistoryIsKept

\* What the process serves is what is stored: the schema of its head, the manifests on
\* disk, and the keys that the settings page was given.
StoredIsServed ==
    /\ which = "migration" => Schema!ReadyIsServed
    /\ which = "registry" => Registry!ImportIsAllOrNothing /\ Registry!MemoryIsDisk
    /\ which = "settings" => Settings!SettledIsStored

\* What has ended is not undone: a job keeps its end, a complete download stays, and a
\* schema is replaced only by a whole newer one.
EndsStay ==
    [][/\ which = "jobs" => Jobs!JobsStayEnded
       /\ which = "downloads" => Downloads!CompleteStays /\ Downloads!CompletedIsThere
       /\ which = "migration" => Schema!OnlyWholeSchemas]_all
==============================================================================
