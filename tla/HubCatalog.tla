----------------------------- MODULE HubCatalog -----------------------------
(***************************************************************************)
(* services/workflow/provider/huggingface_catalog.py: pages of the hub's   *)
(* models, cached for a while under a key that holds a fingerprint of the  *)
(* token.  A query reads the token for its key, then for the hub, then the *)
(* downloaded models, and stores its answer last; meanwhile the token may  *)
(* be configured anew and a download may end and clear the cache.          *)
(***************************************************************************)
EXTENDS Naturals, Sequences, FiniteSets

CONSTANTS
    Query,     \* concurrent queries
    Token,     \* configured tokens
    NoToken,   \* none is configured
    Kind,      \* kinds of models, of "public", "private", "gated", "unnamed"
    MaxRows,   \* bound: models of the hub
    PageSize,
    Visibility, \* filters asked for, of "all", "public", "private", "gated"
    Pages,     \* pages asked for
    MaxFetch,  \* HUGGINGFACE_MAX_FETCH_LIMIT
    MaxTokens  \* bound: changes of the token

Request    == [page : 1..Pages, visibility : Visibility]
NoAnswer   == "none"

VARIABLES
    listing,     \* the kind of each model of the hub; the first is the one downloaded here
    token,       \* the configured token
    tokens,      \* how often it changed
    downloaded,  \* "no", "written" once its metadata says so, "yes" once the cache is cleared
    cache,       \* the answers by token and request
    query,       \* where each query is
    late,        \* history: an answer begun before the download ended was stored after it
    mixed        \* history: the token changed between the two reads of a query

vars == <<listing, token, tokens, downloaded, cache, query, late, mixed>>

Key    == [token : Token \cup {NoToken}, request : Request]
Idle   == [pc |-> "idle"]

Init ==
    /\ listing \in UNION {[1..n -> Kind] : n \in 0..MaxRows}
    /\ token = NoToken /\ tokens = 0
    /\ downloaded = "no"
    /\ cache = [k \in {} |-> NoAnswer]
    /\ query = [q \in Query |-> Idle]
    /\ late = FALSE /\ mixed = FALSE

-----------------------------------------------------------------------------
(* A page: models are positions of the listing, and go in its order *)

Lower(a, b) == IF a < b THEN a ELSE b

\* visible_index: how many of the rows there are up to this one.
Place(rows, i) == Cardinality({k \in rows : k <= i})

\* How many rows the hub is asked for.
Limit(r) ==
    LET upTo == r.page * PageSize + 1 IN
    Lower(MaxFetch, IF r.visibility = "private" THEN 2 * upTo ELSE upTo)

\* External: the first of the rows a token may see, gated and public ones selected by the
\* hub.
Seen(r, tok) ==
    {i \in DOMAIN listing :
        /\ r.visibility = "gated" => listing[i] = "gated"
        /\ r.visibility = "public" => listing[i] # "gated"
        /\ listing[i] = "private" => tok # NoToken}

Listed(r, tok) == {i \in Seen(r, tok) : Place(Seen(r, tok), i) <= Limit(r)}

Shown(r, i) == listing[i] # "unnamed" /\ (r.visibility = "all" \/ listing[i] = r.visibility)

\* The rows of a page: those that are shown, after the ones of the pages before.
Page(r, rows) ==
    LET skip    == (r.page - 1) * PageSize
        visible == {i \in rows : Shown(r, i)} IN
    [rows |-> {i \in visible : Place(visible, i) \in (skip + 1)..(skip + PageSize)},
     more |-> Cardinality(visible) > skip + PageSize]

-----------------------------------------------------------------------------
(* A query *)

At(q, pc) == query[q].pc = pc

CacheKey(r) == [token |-> token, request |-> r]

\* A cached answer is the answer; a refresh looks for none.
Ask(q, r, refresh) ==
    LET key == CacheKey(r) IN
    /\ query[q].pc \in {"idle", "answered"}
    /\ query' = [query EXCEPT ![q] =
           IF ~refresh /\ key \in DOMAIN cache
           THEN [pc |-> "answered", key |-> key, asked |-> token, answer |-> cache[key]]
           ELSE [pc |-> "listing", key |-> key, asked |-> token]]
    /\ UNCHANGED <<listing, token, tokens, downloaded, cache, late, mixed>>

\* The token is read again, and the hub is asked.
Fetch(q) ==
    /\ At(q, "listing")
    /\ query' = [query EXCEPT ![q] =
           [pc |-> "marking", key |-> @.key, asked |-> @.asked, token |-> token,
            rows |-> Listed(@.key.request, token)]]
    /\ mixed' = (mixed \/ token # query[q].asked)
    /\ UNCHANGED <<listing, token, tokens, downloaded, cache, late>>

\* The rows of the page, marked with the models that are downloaded by now.
Mark(q) ==
    LET page == Page(query[q].key.request, query[q].rows) IN
    /\ At(q, "marking")
    /\ query' = [query EXCEPT ![q] =
           [pc |-> "storing", key |-> @.key, asked |-> @.asked,
            answer |-> [rows |-> page.rows, more |-> page.more, token |-> @.token,
                        downloaded |-> IF downloaded = "no" THEN {}
                                       ELSE {1} \cap page.rows]]]
    /\ UNCHANGED <<listing, token, tokens, downloaded, cache, late, mixed>>

\* The hub fails: nothing is cached.
FetchFails(q) ==
    /\ query[q].pc \in {"listing", "marking"}
    /\ query' = [query EXCEPT ![q] = Idle]
    /\ UNCHANGED <<listing, token, tokens, downloaded, cache, late, mixed>>

Store(q) ==
    LET key == query[q].key IN
    /\ At(q, "storing")
    /\ cache' = [k \in DOMAIN cache \cup {key} |-> IF k = key THEN query[q].answer ELSE cache[k]]
    /\ query' = [query EXCEPT ![q] = [pc |-> "answered", key |-> key, asked |-> @.asked,
                                      answer |-> @.answer]]
    /\ late' = (late \/ (downloaded = "yes" /\ 1 \in query[q].answer.rows
                         /\ query[q].answer.downloaded = {}))
    /\ UNCHANGED <<listing, token, tokens, downloaded, mixed>>

-----------------------------------------------------------------------------
(* Around it *)

Expire ==
    /\ \E k \in DOMAIN cache : cache' = [x \in DOMAIN cache \ {k} |-> cache[x]]
    /\ UNCHANGED <<listing, token, tokens, downloaded, query, late, mixed>>

Configure ==
    /\ tokens < MaxTokens /\ tokens' = tokens + 1
    /\ token' \in ({NoToken} \cup Token) \ {token}
    /\ UNCHANGED <<listing, downloaded, cache, query, late, mixed>>

DownloadWritten ==
    /\ downloaded = "no" /\ Len(listing) > 0 /\ listing[1] # "unnamed"
    /\ downloaded' = "written"
    /\ UNCHANGED <<listing, token, tokens, cache, query, late, mixed>>

ClearCache ==
    /\ downloaded = "written" /\ downloaded' = "yes"
    /\ cache' = [k \in {} |-> NoAnswer]
    /\ UNCHANGED <<listing, token, tokens, query, late, mixed>>

Next ==
    \/ \E q \in Query :
         \/ \E r \in Request, refresh \in BOOLEAN : Ask(q, r, refresh)
         \/ Fetch(q) \/ Mark(q) \/ FetchFails(q) \/ Store(q)
    \/ Expire \/ Configure \/ DownloadWritten \/ ClearCache

Spec == Init /\ [][Next]_vars

-----------------------------------------------------------------------------
(* Properties *)

TypeOK ==
    /\ listing \in UNION {[1..n -> Kind] : n \in 0..MaxRows}
    /\ token \in Token \cup {NoToken} /\ tokens \in 0..MaxTokens
    /\ downloaded \in {"no", "written", "yes"} /\ late \in BOOLEAN /\ mixed \in BOOLEAN
    /\ DOMAIN cache \subseteq Key
    /\ \A q \in Query : query[q].pc \in {"idle", "listing", "marking", "storing", "answered"}
    /\ \A q \in Query : ~At(q, "idle") => query[q].key \in Key

\* The pages of one listing tile what is shown of it: no model is on two pages, and
\* when one page promises more, the next one is not empty; what the hub does not
\* select itself may hide that there is more.
PagesTile ==
    \A j, k \in DOMAIN cache :
        (j.request.visibility = k.request.visibility /\ cache[j].token = cache[k].token
           /\ k.request.page = j.request.page + 1) =>
            /\ cache[j].rows \cap cache[k].rows = {}
            /\ cache[j].more => cache[k].rows # {}
            /\ cache[k].rows # {} /\ j.request.visibility \in {"all", "gated"}
                 /\ (\A i \in DOMAIN listing : listing[i] # "unnamed") => cache[j].more

\* An answer is given only to queries that read the token it was fetched with, unless
\* the token changed between the two reads of a query.
AnswerOfToken ==
    ~mixed => \A q \in Query : At(q, "answered") => query[q].answer.token = query[q].asked

\* Once a download ended and cleared the cache, no cached page shows the model as not
\* downloaded, unless a query that looked before it ended stored its page after it.
CacheSeesDownload ==
    downloaded = "yes" /\ ~late => \A k \in DOMAIN cache :
        1 \in cache[k].rows => 1 \in cache[k].downloaded

CatalogIsTrue == PagesTile /\ AnswerOfToken /\ CacheSeesDownload
=============================================================================
