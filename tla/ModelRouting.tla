----------------------------- MODULE ModelRouting -----------------------------
(***************************************************************************)
(* How a model node reaches its provider: the compiler validates the       *)
(* request, MODEL_PROVIDER looks the model up, the node validates again,   *)
(* reads the configuration and lets the client of the provider turn the    *)
(* messages into its own form.  The configuration, the models a provider   *)
(* lists and the image file may change at every point in between.          *)
(* provider/service.py, provider/registry.py, llm/providers.py,            *)
(* core/models.py and the dispatch of core/embeddings.py.                  *)
(***************************************************************************)
EXTENDS Naturals, Sequences, FiniteSets

CONSTANT MaxChanges   \* changes of the surroundings while a request is under way

VARIABLES
    request,   \* the node's request
    around,    \* key: a key is configured; listed: the model is listed, of Hugging Face
               \* among the downloads; public: its repository is loaded without a key
               \* (or this process has loaded it); image: the image file exists
    pc,        \* how far the request is
    sent,      \* the request in the form of its client
    changes,
    touched    \* history: the surroundings changed since the last validation

vars == <<request, around, pc, sent, changes, touched>>

Cloud     == {"openai", "gemini", "claude", "deepseek"}
OwnServer == {"lmstudio", "llama"}
Provider  == Cloud \cup OwnServer \cup {"ollama", "huggingface"}

(* The registry *)
RequiresKey        == Cloud \cup {"huggingface"}
SupportsEmbeddings == Provider \ {"claude", "deepseek"}
\* Models the server lists now; the others are in the registry, or inferred from any name.
ListsLive          == OwnServer \cup {"ollama"}

\* What the metadata of a model may say.
ModelOf(p) == [image : IF p = "deepseek" THEN {FALSE} ELSE BOOLEAN,
               reasoning : IF p \in {"claude", "deepseek"} THEN {TRUE} ELSE BOOLEAN]

\* says: the system messages of the node; user: the blocks of its user message; window:
\* a context window is set, which servers are told and the local pipeline cuts to.
Request ==
    {r \in [kind : {"chat", "embed"}, provider : Provider,
            says : SUBSET {"history", "prompt", "reasoning", "schema"},
            user : SUBSET {"text", "image"}, json : BOOLEAN, window : BOOLEAN,
            model : [image : BOOLEAN, reasoning : BOOLEAN]] :
        /\ r.model \in ModelOf(r.provider)
        /\ "schema" \in r.says => r.json
        /\ r.window => r.kind = "chat" /\ r.provider = "huggingface"
        /\ r.kind = "embed" => r.user = {"text"} /\ r.says = {} /\ ~r.json}

Nothing == [system |-> <<>>, contents |-> <<>>, json |-> FALSE]

TypeOK ==
    /\ request \in Request
    /\ around \in [key : BOOLEAN, listed : BOOLEAN, public : BOOLEAN, image : BOOLEAN]
    /\ pc \in {"compile", "select", "validate", "call", "refused", "sent", "failed"}
    /\ (pc # "sent" \/ request.kind = "embed") => sent = Nothing
    /\ changes \in 0..MaxChanges /\ touched \in BOOLEAN

Init ==
    /\ request \in Request
    /\ around \in [key : BOOLEAN, listed : BOOLEAN,
                    public : IF request.provider = "huggingface" THEN BOOLEAN ELSE {FALSE},
                    image : {"image" \in request.user}]
    /\ pc = "compile" /\ sent = Nothing /\ changes = 0 /\ touched = FALSE

-----------------------------------------------------------------------------
(* Validation *)

P == request.provider

\* get_model_metadata
Known == P \in ListsLive => around.listed

\* Of a downloaded Hugging Face model no key is asked.
Keyed == P \in RequiresKey => around.key \/ (P = "huggingface" /\ around.listed)

\* Mutant: the key is not looked for.
AcceptableUnkeyed ==
    /\ Known
    /\ "image" \in request.user => P # "huggingface" /\ request.model.image
    /\ "reasoning" \in request.says => request.model.reasoning

\* validate_model_request
Acceptable ==
    /\ Keyed /\ Known
    /\ "image" \in request.user => P # "huggingface" /\ request.model.image
    /\ "reasoning" \in request.says => request.model.reasoning

Validate(from, to) ==
    /\ pc = from
    /\ pc' = IF request.kind = "embed" \/ (request.user # {} /\ Acceptable)
             THEN to ELSE "refused"
    /\ touched' = FALSE
    /\ UNCHANGED <<request, around, sent, changes>>

Compile == Validate("compile", "select")

\* build_model_definition
Select ==
    /\ pc = "select"
    /\ pc' = IF request.kind = "embed" \/ Known THEN "validate" ELSE "refused"
    /\ UNCHANGED <<request, around, sent, changes, touched>>

Check == Validate("validate", "call")

-----------------------------------------------------------------------------
(* The client *)

\* A system message, or a block of the user's message, that the node has.
Instruction(m) == IF m \in request.says THEN <<[role |-> "system", blocks |-> <<m>>]>> ELSE <<>>
Block(b) == IF b \in request.user THEN <<b>> ELSE <<>>

Instructions == Instruction("history") \o Instruction("prompt")
                \o Instruction("reasoning") \o Instruction("schema")
FromUser == [role |-> "user", blocks |-> Block("text") \o Block("image")]

\* _build_messages: the system messages in this order, then the user's.
Messages == Append(Instructions, FromUser)

\* Gemini and Claude go through the messages and take the system messages apart.
Apart ==
    LET split[i \in 0..Len(Messages)] ==
            IF i = 0 THEN [system |-> <<>>, contents |-> <<>>]
            ELSE LET m == Messages[i] IN
                 IF m.role = "system"
                 THEN [split[i - 1] EXCEPT !.system = Append(@, m)]
                 ELSE [split[i - 1] EXCEPT !.contents = Append(@, m)]
    IN split[Len(Messages)]

\* What a client sends.
Form(system, contents, json) == [system |-> system, contents |-> contents, json |-> json]

\* The OpenAI protocol, of the cloud and of servers of one's own, and Ollama's.
OpenAIForm   == Form(<<>>, Messages, request.json)
DeepSeekForm == Form(<<>>, Messages, request.json)
LocalForm    == Form(<<>>, Messages, request.json)
OllamaForm   == Form(<<>>, Messages, request.json)

\* Claude and the local pipeline of Hugging Face know no response format.
GeminiForm      == Form(Apart.system, Apart.contents, request.json)
ClaudeForm      == Form(Apart.system, Apart.contents, FALSE)

\* The messages after the first k.
After(k) == SubSeq(Messages, k + 1, Len(Messages))

\* _run_huggingface_chat: one prompt of all messages, of which the last context_window
\* tokens are kept.  How many messages fit is data; the one that is cut counts as gone.
HuggingFaceForm(k) == Form(<<>>, IF request.window THEN After(k) ELSE Messages, FALSE)

Convert(k) ==
    CASE P = "openai"      -> OpenAIForm
      [] P = "deepseek"    -> DeepSeekForm
      [] P = "gemini"      -> GeminiForm
      [] P = "claude"      -> ClaudeForm
      [] P \in OwnServer   -> LocalForm
      [] P = "ollama"      -> OllamaForm
      [] P = "huggingface" -> HuggingFaceForm(k)

\* What the client of the provider needs: a key, the model on its server, the image file.
\* from_pretrained is given the id of the repository, of a downloaded model too, and an
\* empty token where no key is configured.
Serves ==
    /\ P \in Cloud => around.key
    /\ P = "huggingface" => around.key \/ around.public
    /\ P \in ListsLive => around.listed
    /\ "image" \in request.user => around.image

Chat ==
    /\ pc = "call" /\ request.kind = "chat"
    /\ IF Serves
       THEN pc' = "sent" /\ \E k \in 0..Len(Messages) : sent' = Convert(k)
       ELSE pc' = "failed" /\ UNCHANGED sent
    /\ UNCHANGED <<request, around, changes, touched>>

\* _embed_text_for_text_embedding_node and embed_text
Embedder ==
    CASE P \in {"openai", "ollama", "lmstudio", "llama"} -> "service"
      [] P = "gemini"                                    -> "gemini"
      [] P = "huggingface"                               -> "local"
      [] OTHER                                           -> "unsupported"

Embed ==
    /\ pc = "call" /\ request.kind = "embed"
    /\ pc' = IF Embedder # "unsupported" /\ Serves THEN "sent" ELSE "failed"
    /\ UNCHANGED <<request, around, sent, changes, touched>>

-----------------------------------------------------------------------------
(* The surroundings *)

Change ==
    /\ pc \in {"compile", "select", "validate", "call"} /\ changes < MaxChanges
    /\ \E field \in {"key", "listed", "image"}
                    \cup (IF P = "huggingface" THEN {"public"} ELSE {}) :
         around' = [around EXCEPT ![field] = ~@]
    /\ changes' = changes + 1 /\ touched' = TRUE
    /\ UNCHANGED <<request, pc, sent>>

Next == Compile \/ Select \/ Check \/ Chat \/ Embed \/ Change

Spec == Init /\ [][Next]_vars

-----------------------------------------------------------------------------
(* Properties *)

\* What the last check accepted, the client serves, unless something changed since: no
\* provider asks for more than validate_model_request looked at, but for a downloaded
\* model of Hugging Face that was accepted without a key and is not loaded without one.
AcceptedIsServed ==
    pc = "failed" /\ request.kind = "chat" =>
        \/ touched \/ ~around.image
        \/ P = "huggingface" /\ around.listed /\ ~around.key /\ ~around.public

\* No instruction and no part of the user's message is lost or reordered in the form a
\* provider takes, but for the beginning that a context window cuts off the prompt of
\* the local pipeline: the instructions go first, the user's message last.
NothingIsLost ==
    pc = "sent" /\ request.kind = "chat" =>
        LET passed == sent.system \o sent.contents IN
        \/ passed = Messages
        \/ /\ P = "huggingface" /\ request.window
           /\ \E k \in 0..Len(Messages) : passed = After(k)

\* Every provider the registry offers for embeddings has an embedder that takes it.
OfferedIsEmbedded ==
    pc = "failed" /\ request.kind = "embed" /\ P \in SupportsEmbeddings => ~Serves

RequestsAreServed == AcceptedIsServed /\ NothingIsLost /\ OfferedIsEmbedded
=============================================================================
