\* Three jobs of two ids; two downloads of a model of two files and two revisions; one
\* catalog query of two pages; two callers of a history of one or three messages; two
\* imports of three manifests; two processes that migrate; two providers and one key.
SPECIFICATION ServicesSpec
CONSTANTS
    Id = {i1, i2}
    MaxStarts = 3
    MaxActive = 2
    Canceller = {c1}
    MaxTerminal = 1
    NFiles = 2
    NRevisions = 2
    NDownloads = 2
    MaxCrashes = 1
    Query = {q1}
    Token = {t1}
    NoToken = none
    ModelKind = {"public", "unnamed"}
    MaxRows = 2
    PageSize = 1
    Visibility = {"all", "private"}
    Pages = 2
    MaxFetch = 3
    MaxTokens = 1
    Caller = {a1, a2}
    ChatLimit = {1, 3}
    MaxTurns = 2
    Importer = {m1, m2}
    NodeId = {"A", "a", "B"}
    Process = {p1, p2}
    MaxHead = 2
    NProviders = 2
    ApiKey = {"k1"}
    NRequests = 2
    MaxEdits = 2
    MaxFaults = 1
SYMMETRY Symmetry
INVARIANTS TypesOK JobsAreReachable HubIsTrue HistoryIsKept StoredIsServed
PROPERTY EndsStay
