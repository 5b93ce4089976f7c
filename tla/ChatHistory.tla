----------------------------- MODULE ChatHistory -----------------------------
(***************************************************************************)
(* services/workflow/chat_history.py over its two repositories, one in the *)
(* memory of the process, one in the database.  Model nodes load the       *)
(* history of their handle and record an exchange when the model answered; *)
(* those of a chat run only load it, and the run records its turn when it  *)
(* has completed; the API shows and resets it.  Every repository call is   *)
(* one step, so a load that shortens what is stored takes two.             *)
(***************************************************************************)
EXTENDS Naturals, Sequences, SequencesExt

CONSTANTS
    Caller,     \* node attempts, chat runs and requests at the same time
    Limit,      \* values of max_messages
    MaxTurns,   \* bound: exchanges
    MaxCrashes  \* bound: ends of the process

Kind == {"memory", "persisted"}
Use  == {"node", "chat", "view"}
Turn == 1..MaxTurns
Role == {"system", "user", "assistant"}
Message == [turn : Turn, role : Role]

VARIABLES
    store,      \* the messages of the scope in each repository
    log,        \* history: what was recorded since the scope was last reset
    caller,     \* of each caller: where it is, its handle, its turn, what it read
    turns,      \* turns begun
    completed,  \* history: the turns of chat runs that completed
    owned,      \* history: the turns of chat runs
    raced,      \* history: the scope changed between the two steps of a load
    repeated,   \* history: the turns of runs recovered after they had been recorded
    crashes

vars == <<store, log, caller, turns, completed, owned, raced, repeated, crashes>>

Idle == [pc |-> "idle", use |-> "view", kind |-> "memory", limit |-> 1, turn |-> 0,
         read |-> <<>>, stale |-> FALSE]

TypeOK ==
    /\ \A k \in Kind : \A i \in DOMAIN store[k] : store[k][i] \in Message
    /\ \A k \in Kind : \A i \in DOMAIN log[k] : log[k][i] \in Message
    /\ \A c \in Caller :
         /\ caller[c].pc \in {"idle", "load", "shorten", "model", "recorded", "end"}
         /\ caller[c].use \in Use /\ caller[c].kind \in Kind
         /\ caller[c].limit \in Limit \cup {1} /\ caller[c].turn \in Turn \cup {0}
         /\ caller[c].pc = "shorten" => Len(caller[c].read) > caller[c].limit
    /\ turns \in 0..MaxTurns /\ crashes \in 0..MaxCrashes
    /\ completed \subseteq owned /\ owned \subseteq 1..turns
    /\ raced \subseteq Kind /\ repeated \subseteq owned

Init ==
    /\ store = [k \in Kind |-> <<>>] /\ log = [k \in Kind |-> <<>>]
    /\ caller = [c \in Caller |-> Idle]
    /\ turns = 0 /\ completed = {} /\ owned = {} /\ raced = {} /\ repeated = {} /\ crashes = 0

Trimmed(messages, limit) ==
    IF Len(messages) <= limit THEN messages
    ELSE SubSeq(messages, Len(messages) - limit + 1, Len(messages))

\* Whoever is between the two steps of a load of this scope holds an old value now.
Outdated(k) == [c \in Caller |-> IF caller[c].pc = "shorten" /\ caller[c].kind = k
                                 THEN [caller[c] EXCEPT !.stale = TRUE] ELSE caller[c]]

\* A step begins with its handle; one of a chat run has the execution's own handle.
Begin(c, use, kind, limit) ==
    /\ caller[c].pc = "idle"
    /\ use # "view" => turns < MaxTurns
    /\ turns' = IF use = "view" THEN turns ELSE turns + 1
    /\ owned' = IF use = "chat" THEN owned \cup {turns'} ELSE owned
    /\ caller' = [caller EXCEPT ![c] = [Idle EXCEPT !.pc = "load", !.use = use,
                      !.kind = kind, !.limit = limit, !.turn = turns' * (IF use = "view" THEN 0 ELSE 1)]]
    /\ UNCHANGED <<store, log, completed, raced, repeated, crashes>>

Loaded(c) == IF caller[c].use = "view" THEN Idle ELSE [caller[c] EXCEPT !.pc = "model"]

\* load_messages reads; it goes on to overwrite only what is longer than its limit.
Load(c) ==
    LET messages == store[caller[c].kind] IN
    /\ caller[c].pc = "load"
    /\ caller' = [caller EXCEPT ![c] =
           IF Len(messages) > caller[c].limit
           THEN [@ EXCEPT !.pc = "shorten", !.read = messages] ELSE Loaded(c)]
    /\ UNCHANGED <<store, log, turns, completed, owned, raced, repeated, crashes>>

Shorten(c) ==
    LET k == caller[c].kind IN
    /\ caller[c].pc = "shorten"
    /\ store' = [store EXCEPT ![k] = Trimmed(caller[c].read, caller[c].limit)]
    /\ raced' = IF caller[c].stale THEN raced \cup {k} ELSE raced
    /\ caller' = [Outdated(k) EXCEPT ![c] = [Loaded(c) EXCEPT !.read = <<>>, !.stale = FALSE]]
    /\ UNCHANGED <<log, turns, completed, owned, repeated, crashes>>

\* append_and_trim, one transaction.
AppendAndTrim(k, limit, messages) ==
    /\ log' = [log EXCEPT ![k] = @ \o messages]
    /\ store' = [store EXCEPT ![k] = Trimmed(@ \o messages, limit)]

Exchange(turn, roles) ==
    [i \in DOMAIN roles |-> [turn |-> turn, role |-> roles[i]]]

\* Mutant: a node records what the execution owns.
AppendExchangeAlways(c) ==
    /\ caller[c].pc = "model" /\ caller[c].use \in {"node", "chat"}
    /\ \E roles \in {<<"user", "assistant">>, <<"system", "user", "assistant">>, <<"user">>} :
         AppendAndTrim(caller[c].kind, caller[c].limit, Exchange(caller[c].turn, roles))
    /\ caller' = [Outdated(caller[c].kind) EXCEPT ![c] = Idle]
    /\ UNCHANGED <<turns, completed, owned, raced, repeated, crashes>>

\* append_exchange of a model node: empty texts are left out.
AppendExchange(c) ==
    /\ caller[c].pc = "model" /\ caller[c].use = "node"
    /\ \E roles \in {<<"user", "assistant">>, <<"system", "user", "assistant">>, <<"user">>} :
         AppendAndTrim(caller[c].kind, caller[c].limit, Exchange(caller[c].turn, roles))
    /\ caller' = [Outdated(caller[c].kind) EXCEPT ![c] = Idle]
    /\ UNCHANGED <<turns, completed, owned, raced, repeated, crashes>>

\* A further model node of a chat run with the same handle.
NextNode(c) ==
    /\ caller[c].pc = "model" /\ caller[c].use = "chat"
    /\ caller' = [caller EXCEPT ![c].pc = "load"]
    /\ UNCHANGED <<store, log, turns, completed, owned, raced, repeated, crashes>>

\* _persist_chat_history, after the last step of a chat run.
AppendChatResult(c) ==
    /\ caller[c].pc \in {"model", "end"} /\ caller[c].use = "chat"
    /\ \E roles \in {<<"user", "assistant">>, <<"user">>} :
         AppendAndTrim(caller[c].kind, caller[c].limit, Exchange(caller[c].turn, roles))
    /\ caller' = [Outdated(caller[c].kind) EXCEPT ![c].pc = "recorded"]
    /\ UNCHANGED <<turns, completed, owned, raced, repeated, crashes>>

\* update_run(completed), a transaction of its own.
Complete(c) ==
    /\ caller[c].pc = "recorded"
    /\ completed' = completed \cup {caller[c].turn}
    /\ caller' = [caller EXCEPT ![c] = Idle]
    /\ UNCHANGED <<store, log, turns, owned, raced, repeated, crashes>>

\* The model fails, or the run ends on another step.
Fail(c) ==
    /\ caller[c].pc = "model"
    /\ caller' = [caller EXCEPT ![c] = Idle]
    /\ UNCHANGED <<store, log, turns, completed, owned, raced, repeated, crashes>>

ClearMessages(k) ==
    /\ store[k] # <<>>
    /\ store' = [store EXCEPT ![k] = <<>>] /\ log' = [log EXCEPT ![k] = <<>>]
    /\ caller' = Outdated(k)
    /\ UNCHANGED <<turns, completed, owned, raced, repeated, crashes>>

\* The process ends and starts again.  Recovery fails a chat run in the middle of a step
\* and executes the rest of one between two steps; of one that has recorded its turn but
\* is not marked completed, that is the recording.
Recovered(c) == CASE caller[c].pc = "recorded" -> [caller[c] EXCEPT !.pc = "end"]
                  [] caller[c].pc = "end" -> caller[c]
                  [] OTHER -> [caller[c] EXCEPT !.pc = "model"]

Crash ==
    LET betweenSteps == {c \in Caller : caller[c].use = "chat" /\ caller[c].pc = "model"}
        recorded     == {c \in Caller : caller[c].pc = "recorded"}
        atTheEnd     == {c \in Caller : caller[c].pc = "end"}
    IN
    /\ crashes < MaxCrashes /\ crashes' = crashes + 1
    /\ store' = [store EXCEPT !["memory"] = <<>>] /\ log' = [log EXCEPT !["memory"] = <<>>]
    /\ raced' = raced \ {"memory"}
    /\ repeated' = repeated \cup {caller[c].turn : c \in recorded}
    /\ \E requeued \in SUBSET betweenSteps :
         caller' = [c \in Caller |-> IF c \in requeued \cup recorded \cup atTheEnd
                                     THEN Recovered(c) ELSE Idle]
    /\ UNCHANGED <<turns, completed, owned>>

Next ==
    \/ \E c \in Caller :
         \/ \E use \in Use, kind \in Kind, limit \in Limit : Begin(c, use, kind, limit)
         \/ Load(c) \/ Shorten(c) \/ AppendExchange(c) \/ NextNode(c)
         \/ AppendChatResult(c) \/ Complete(c) \/ Fail(c)
    \/ \E k \in Kind : ClearMessages(k)
    \/ Crash

Spec == Init /\ [][Next]_vars

-----------------------------------------------------------------------------
(* Properties *)

\* What is stored is the newest end of what was recorded: no exchange is lost out of
\* the middle, comes back after a reset or changes places, and a restart keeps the
\* persisted ones, unless the scope changed between the two steps of a load.
NewestKept == \A k \in Kind \ raced : IsSuffix(store[k], log[k])

\* The last message recorded is there.
LastKept == \A k \in Kind \ raced : log[k] # <<>> => store[k] # <<>>

\* A chat run records its turn once, when its steps are completed, however many of its
\* nodes used the handle.  Excused: the process ended between the recording and the
\* completion of the run, so that recovery records the turn again.
ChatTurnOnce ==
    \A k \in Kind : \A i, j \in DOMAIN log[k] :
        LET turn == log[k][i].turn IN
        turn \in owned =>
            /\ \/ turn \in completed
               \/ \E c \in Caller : caller[c].pc \in {"recorded", "end"} /\ caller[c].turn = turn
            /\ log[k][i] = log[k][j] => i = j \/ turn \in repeated

HistoryIsKept == NewestKept /\ LastKept /\ ChatTurnOnce
=============================================================================
