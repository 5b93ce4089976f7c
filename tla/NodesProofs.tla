----------------------------- MODULE NodesProofs -----------------------------
(***************************************************************************)
(* Safety of the five components of MCNodes.  A call of the HTTP node,     *)
(* for any number of attempts and redirects and any size of the response:  *)
(* an unsafe request is carried out once, and at most once more for each   *)
(* redirect followed, bodies are whole and a download is all or nothing.   *)
(* The tools of a run, for any plan, any number of attempts, repeated      *)
(* calls and restarts: a call finds the collection its run has stored, and *)
(* a run that ended leaves none.  The editor, for any number of runs,      *)
(* reviews and visits of the page and any answers lost: it follows one     *)
(* run, and forgets none that it knows of.  The compiler, for any          *)
(* manifests, workflow and choice of nodes and edges: its order, its       *)
(* errors and its steps are what the definition of the workflow says. The  *)
(* requests to models, for any providers, models and changes in between:   *)
(* one that was accepted is served in the form its provider takes, but for *)
(* what the property excepts.                                              *)
(*                                                                         *)
(* Each component has an invariant of its own; the variables it does not   *)
(* have are left alone by its steps, so that a property of the bundle      *)
(* follows from the invariant under the component's name in which.         *)
(***************************************************************************)
EXTENDS MCNodes, FiniteSetTheorems, WellFoundedInduction, TLAPS

------------------------------------------------------------------------------
(* http_transport.py *)

\* What the parameters of a call have been validated to be.
HttpRequest ==
    /\ request \in [safe : BOOLEAN, resend : BOOLEAN, attempts : Http!Attempt,
                    redirects : 0..MaxRedirects, downgrade : BOOLEAN,
                    upload : BOOLEAN, file : BOOLEAN, json : BOOLEAN]
    /\ Http!Valid(request)

\* Before the request of an attempt is answered no partial download is there, and in the
\* first attempt each request was carried out at most once.
HttpFresh ==
    /\ pc \in {"attempt", "hop", "redirect", "wait", "slept"} => partials = {}
    /\ attempt = 1 =>
         /\ processed <= 1 + hops
         /\ pc = "hop" => processed <= hops
         /\ pc = "attempt" => processed = 0

\* Whoever waits for another attempt may have one.
HttpMayRetry ==
    pc \in {"wait", "slept"} =>
        attempt < request.attempts /\ (request.safe \/ request.resend)

HttpInv == HttpRequest /\ Http!TypeOK /\ HttpFresh /\ HttpMayRetry /\ Http!CallIsSafe

LEMMA HttpStarts == Http!Init => HttpInv
<1> SUFFICES ASSUME Http!Init PROVE HttpInv
    OBVIOUS
<1> USE BoundsAssumption DEF Http!Init
<1>1. HttpRequest
    BY DEF HttpRequest
<1>2. Http!TypeOK
  <2>1. attempt \in 1..request.attempts /\ hops \in 0..request.redirects /\ size \in 0..Limit + 1
        /\ processed \in Nat
    BY DEF Http!Attempt
  <2>2. body \in {"none", "start"}
    OBVIOUS
  <2>. QED
    BY <2>1, <2>2, <1>1 DEF HttpRequest, Http!TypeOK
<1>3. HttpFresh /\ HttpMayRetry
    BY DEF HttpFresh, HttpMayRetry
<1>4. Http!CallIsSafe
    BY DEF Http!CallIsSafe, Http!UnsafeOnce, Http!BodyIsWhole, Http!DownloadIsAllOrNothing
<1>. QED
    BY <1>1, <1>2, <1>3, <1>4 DEF HttpInv

LEMMA HttpEnds ==
    ASSUME HttpInv, pc # "done", NEW o \in Http!Outcomes, Http!End(o),
           UNCHANGED <<request, attempt, hops, scheme, status, cancelled, late, processed, short>>,
           size' \in 0..Limit + 1, request.upload \in BOOLEAN,
           download' = IF o = "ok" /\ request.file THEN "new" ELSE "old"
    PROVE  HttpInv'
<1>1. HttpRequest'
    BY DEF HttpInv, HttpRequest, Http!Valid
<1>2. body' \in {"none", "closed"} /\ (body' = "closed" <=> request.upload)
    BY DEF Http!End
<1>3. o # "none" /\ o \in Http!Outcomes /\ pc' = "done" /\ outcome' = o /\ partials' = {}
    BY DEF Http!End, HttpInv, Http!TypeOK, Http!Outcomes
<1>4. Http!TypeOK'
    BY <1>2, <1>3, ZenonT(60) DEF HttpInv, Http!TypeOK
<1>5. HttpFresh' /\ HttpMayRetry'
    BY <1>3 DEF HttpInv, HttpFresh, HttpMayRetry
<1>6. Http!CallIsSafe'
    BY <1>3 DEF HttpInv, Http!CallIsSafe, Http!UnsafeOnce, Http!BodyIsWhole,
                Http!DownloadIsAllOrNothing
<1>. QED
    BY <1>1, <1>4, <1>5, <1>6 DEF HttpInv

LEMMA HttpGoesOn ==
    ASSUME HttpInv, pc # "done", UNCHANGED <<request, outcome, download>>,
           pc' \in {"attempt", "hop", "redirect", "read", "broken", "wait", "slept"},
           body' \in {"none", "start", "end"}, attempt' \in 1..request.attempts,
           hops' \in 0..request.redirects, scheme' \in {"http", "https"},
           status' \in {"accepted", "retry", "other"}, size' \in 0..Limit + 1,
           partials' \subseteq {attempt'}, cancelled' \in BOOLEAN, late' \in BOOLEAN,
           short' = FALSE, processed' \in Nat, HttpFresh', HttpMayRetry'
    PROVE  HttpInv'
<1>1. HttpRequest'
    BY DEF HttpInv, HttpRequest, Http!Valid
<1>2. outcome' = "none" /\ download' = "old"
    BY DEF HttpInv, Http!TypeOK, Http!CallIsSafe, Http!DownloadIsAllOrNothing
<1>3. pc' # "done" /\ body' # "closed" /\ "none" \notin Http!Outcomes
    BY DEF Http!Outcomes
<1>4. Http!TypeOK'
    BY <1>2, <1>3, ZenonT(60) DEF HttpInv, Http!TypeOK
<1>5. ASSUME ~request.safe, ~request.resend PROVE processed' <= 1 + hops'
  <2>1. request.attempts \in 1..MaxAttempts /\ ~(request.attempts > 1)
    BY <1>5 DEF HttpInv, HttpRequest, Http!Valid, Http!Attempt
  <2>2. attempt' = 1
    BY <2>1, BoundsAssumption
  <2>. QED
    BY <2>2 DEF HttpFresh
<1>6. Http!CallIsSafe'
    BY <1>2, <1>3, <1>5
       DEF Http!CallIsSafe, Http!UnsafeOnce, Http!BodyIsWhole, Http!DownloadIsAllOrNothing
<1>. QED
    BY <1>1, <1>4, <1>5, <1>6 DEF HttpInv

LEMMA HttpTypes ==
    ASSUME HttpInv
    PROVE  /\ request.attempts \in 1..MaxAttempts /\ request.redirects \in 0..MaxRedirects
           /\ request.upload \in BOOLEAN /\ attempt \in 1..request.attempts
           /\ hops \in 0..request.redirects /\ scheme \in {"http", "https"}
           /\ status \in {"accepted", "retry", "other"} /\ size \in 0..Limit + 1
           /\ partials \subseteq {attempt} /\ cancelled \in BOOLEAN /\ late \in BOOLEAN
           /\ processed \in Nat /\ short = FALSE
           /\ pc # "done" => /\ body \in {"none", "start", "end"} /\ download = "old"
                             /\ outcome = "none"
BY DEF HttpInv, HttpRequest, Http!TypeOK, Http!Attempt, Http!CallIsSafe, Http!BodyIsWhole,
       Http!DownloadIsAllOrNothing

LEMMA HttpSteps == HttpInv /\ [Http!Next]_Http!vars => HttpInv'
<1> SUFFICES ASSUME HttpInv, [Http!Next]_Http!vars PROVE HttpInv'
    OBVIOUS
<1> USE BoundsAssumption, HttpTypes
<1>1. ASSUME Http!Begin PROVE HttpInv'
  <2>1. CASE Http!Interrupted
    BY <1>1, <2>1, HttpEnds DEF Http!Begin, Http!Interrupt, Http!Outcomes
  <2>2. CASE ~Http!Interrupted
    <3>1. /\ pc = "attempt" /\ pc' = "hop" /\ hops' = 0 /\ scheme' = "https"
          /\ UNCHANGED <<request, attempt, outcome, body, status, size, partials, download,
                         cancelled, late, processed, short>>
      BY <1>1, <2>2 DEF Http!Begin, Http!GoOn
    <3>2. HttpFresh' /\ HttpMayRetry'
      BY <3>1 DEF HttpInv, HttpFresh, HttpMayRetry
    <3>. QED
      BY <3>1, <3>2, HttpGoesOn
  <2>. QED
    BY <2>1, <2>2
<1>2. ASSUME Http!BadTarget PROVE HttpInv'
    BY <1>2, HttpEnds DEF Http!BadTarget, Http!Outcomes
<1>3. ASSUME Http!Send PROVE HttpInv'
  <2>1. /\ pc = "hop" /\ body' \in {"none", "end"} /\ short' = FALSE
        /\ UNCHANGED <<request, attempt, hops, scheme, download, cancelled, late, outcome>>
    BY <1>3 DEF Http!Send, Http!Rewound
  <2>2. /\ pc' \in {"redirect", "read", "broken"} /\ processed' \in {processed, processed + 1}
        /\ pc' = "redirect" => partials' = partials
    BY <1>3 DEF Http!Send
  <2>3. /\ partials' \subseteq {attempt} /\ status' \in {"accepted", "retry", "other"}
        /\ size' \in 0..Limit + 1
    BY <1>3 DEF Http!Send
  <2>4. HttpFresh' /\ HttpMayRetry' /\ processed' \in Nat
    <3>1. (attempt = 1 => processed <= hops) /\ partials = {}
      BY <2>1 DEF HttpInv, HttpFresh
    <3>. QED
      BY <2>1, <2>2, <3>1 DEF HttpFresh, HttpMayRetry
  <2>. QED
    BY <2>1, <2>2, <2>3, <2>4, HttpGoesOn
<1>4. ASSUME NEW target \in {"http", "https"}, Http!Follow(target)
      PROVE  HttpInv'
  <2>1. CASE hops >= request.redirects
    BY <1>4, <2>1, HttpEnds DEF Http!Follow, Http!Outcomes
  <2>2. CASE hops < request.redirects /\ scheme = "https" /\ target = "http" /\ ~request.downgrade
    BY <1>4, <2>2, HttpEnds DEF Http!Follow, Http!Outcomes
  <2>3. CASE hops < request.redirects /\ ~(scheme = "https" /\ target = "http" /\ ~request.downgrade)
    <3>1. /\ pc = "redirect" /\ pc' = "hop" /\ hops' = hops + 1 /\ scheme' = target
          /\ UNCHANGED <<request, attempt, outcome, body, status, size, partials, download,
                         cancelled, late, processed, short>>
      BY <1>4, <2>3 DEF Http!Follow, Http!GoOn
    <3>2. HttpFresh' /\ HttpMayRetry'
      <4>1. partials = {} /\ (attempt = 1 => processed <= 1 + hops)
        BY <3>1 DEF HttpInv, HttpFresh
      <4>2. request.redirects \in Nat /\ hops \in 0..request.redirects /\ processed \in Nat
        BY DEF HttpInv, HttpRequest, Http!Valid, Http!TypeOK
      <4>3. attempt = 1 => processed <= hops + 1
        BY <4>1, <4>2
      <4>. QED
        BY <3>1, <4>1, <4>3 DEF HttpFresh, HttpMayRetry
    <3>3. hops' \in 0..request.redirects
      BY <2>3, <3>1
    <3>. QED
      BY <3>1, <3>2, <3>3, HttpGoesOn
  <2>. QED
    BY <2>1, <2>2, <2>3
<1>5. ASSUME Http!ReadChunk PROVE HttpInv'
  <2>1. size' \in 0..Limit + 1
    BY <1>5 DEF Http!ReadChunk
  <2>2. CASE size' > Limit
    BY <1>5, <2>1, <2>2, HttpEnds DEF Http!ReadChunk, Http!Outcomes
  <2>3. CASE ~(size' > Limit) /\ Http!Interrupted
    BY <1>5, <2>1, <2>3, HttpEnds DEF Http!ReadChunk, Http!Interrupt, Http!Outcomes
  <2>4. CASE ~(size' > Limit) /\ ~Http!Interrupted
    BY <1>5, <2>1, <2>4, HttpGoesOn
       DEF Http!ReadChunk, Http!GoOn, HttpInv, HttpFresh, HttpMayRetry
  <2>. QED
    BY <2>2, <2>3, <2>4
<1>6. ASSUME Http!ReadBreaks PROVE HttpInv'
    BY <1>6, HttpGoesOn DEF Http!ReadBreaks, Http!GoOn, HttpInv, HttpFresh, HttpMayRetry
<1>7. ASSUME Http!Judge PROVE HttpInv'
  <2>1. CASE status = "accepted"
    <3>1. PICK o \in {"ok", "invalid_json"} :
              Http!End(o) /\ download' = (IF request.file THEN "new" ELSE download)
      BY <1>7, <2>1 DEF Http!Judge
    <3>2. request.json => ~request.file
      BY DEF HttpInv, HttpRequest, Http!Valid
    <3>. QED
      BY <1>7, <2>1, <3>1, <3>2, HttpEnds DEF Http!Judge, Http!Outcomes
  <2>2. CASE status = "retry" /\ attempt < request.attempts
    <3>1. /\ pc = "read" /\ pc' = "wait" /\ partials' = {}
          /\ UNCHANGED <<request, attempt, hops, scheme, outcome, body, status, size, download,
                         cancelled, late, processed, short>>
      BY <1>7, <2>2 DEF Http!Judge, Http!GoOn
    <3>2. request.safe \/ request.resend
      <4>1. request.attempts > 1
        BY <2>2
      <4>. QED
        BY <4>1 DEF HttpInv, HttpRequest, Http!Valid
    <3>3. HttpFresh' /\ HttpMayRetry'
      BY <2>2, <3>1, <3>2 DEF HttpInv, HttpFresh, HttpMayRetry
    <3>. QED
      BY <3>1, <3>3, HttpGoesOn
  <2>3. CASE status # "accepted" /\ ~(status = "retry" /\ attempt < request.attempts)
    BY <1>7, <2>3, HttpEnds DEF Http!Judge, Http!Outcomes
  <2>. QED
    BY <2>1, <2>2, <2>3
<1>8. ASSUME Http!Retry PROVE HttpInv'
  <2>1. CASE attempt >= request.attempts \/ ~(request.safe \/ request.resend)
    BY <1>8, <2>1, HttpEnds DEF Http!Retry, Http!Outcomes
  <2>2. CASE attempt < request.attempts /\ (request.safe \/ request.resend)
    <3>1. /\ pc = "broken" /\ pc' = "wait" /\ partials' = {}
          /\ UNCHANGED <<request, attempt, hops, scheme, outcome, body, status, size, download,
                         cancelled, late, processed, short>>
      BY <1>8, <2>2 DEF Http!Retry, Http!GoOn
    <3>2. HttpFresh' /\ HttpMayRetry'
      BY <2>2, <3>1 DEF HttpInv, HttpFresh, HttpMayRetry
    <3>. QED
      BY <3>1, <3>2, HttpGoesOn
  <2>. QED
    BY <2>1, <2>2
<1>9. ASSUME Http!Wait PROVE HttpInv'
  <2>1. CASE Http!Interrupted
    BY <1>9, <2>1, HttpEnds DEF Http!Wait, Http!Interrupt, Http!Outcomes
  <2>2. CASE ~Http!Interrupted
    <3>1. /\ pc \in {"wait", "slept"} /\ pc' = (IF pc = "wait" THEN "slept" ELSE "attempt")
          /\ attempt' = (IF pc = "wait" THEN attempt ELSE attempt + 1)
          /\ UNCHANGED <<request, hops, scheme, outcome, body, status, size, partials, download,
                         cancelled, late, processed, short>>
      BY <1>9, <2>2 DEF Http!Wait, Http!GoOn
    <3>2. /\ partials = {} /\ attempt < request.attempts /\ (request.safe \/ request.resend)
          /\ attempt = 1 => processed <= 1 + hops
      BY <3>1 DEF HttpInv, HttpFresh, HttpMayRetry
    <3>3. HttpFresh'
      <4>1. CASE pc = "wait"
        BY <3>1, <3>2, <4>1 DEF HttpFresh
      <4>2. CASE pc = "slept"
        <5>1. attempt' # 1
          BY <3>1, <4>2
        <5>. QED
          BY <3>1, <3>2, <4>2, <5>1 DEF HttpFresh
      <4>. QED
        BY <3>1, <4>1, <4>2
    <3>4. HttpMayRetry'
      BY <3>1, <3>2 DEF HttpMayRetry
    <3>. QED
      BY <3>1, <3>2, <3>3, <3>4, HttpGoesOn
  <2>. QED
    BY <2>1, <2>2
<1>10. ASSUME Http!Environment PROVE HttpInv'
  <2>1. /\ pc # "done" /\ cancelled' \in BOOLEAN /\ late' \in BOOLEAN
        /\ UNCHANGED <<request, pc, attempt, hops, scheme, body, status, size, partials, download,
                       outcome, processed, short>>
    BY <1>10, Zenon, HttpTypes DEF Http!Environment
  <2>2. HttpFresh' /\ HttpMayRetry'
    BY <2>1 DEF HttpInv, HttpFresh, HttpMayRetry
  <2>3. pc \in {"attempt", "hop", "redirect", "read", "broken", "wait", "slept"}
    BY <2>1 DEF HttpInv, Http!TypeOK
  <2>. QED
    BY <2>1, <2>2, <2>3, HttpGoesOn
<1>11. CASE UNCHANGED Http!vars
    BY <1>11 DEF HttpInv, HttpRequest, HttpFresh, HttpMayRetry, Http!Valid, Http!TypeOK,
       Http!CallIsSafe, Http!UnsafeOnce, Http!BodyIsWhole, Http!DownloadIsAllOrNothing, Http!vars
<1>. QED
    BY <1>1, <1>2, <1>3, <1>4, <1>5, <1>6, <1>7, <1>8, <1>9, <1>10, <1>11
    DEF Http!Next, Http!Step, Http!Rest

\* A call of the HTTP node, whatever the numbers of its attempts and redirects and the
\* size of its response, repeats no unsafe request but once for each redirect it follows,
\* sends every body whole and leaves a download all or nothing.
THEOREM EveryCallIsSafe == NodesSpec => []CallIsSafe
<1> DEFINE Inv == which = "http" => HttpInv
<1>1. NodesInit => Inv
    BY HttpStarts DEF NodesInit, CompilerInit, EditorInit, ToolsInit, ModelsInit, HttpInit
<1>2. Inv /\ [NodesNext]_all => Inv'
  <2> SUFFICES ASSUME Inv, [NodesNext]_all, which' = "http" PROVE HttpInv'
    OBVIOUS
  <2>1. CASE HttpNext
    BY <2>1, HttpSteps DEF HttpNext
  <2>2. CASE UNCHANGED all
    BY <2>2, HttpSteps DEF all, Http!vars
  <2>. QED
    BY <2>1, <2>2
    DEF NodesNext, CompilerNext, EditorNext, ToolsNext, ModelsNext, Stopped
<1>3. Inv => CallIsSafe
    BY DEF CallIsSafe, HttpInv
<1>. QED
    BY <1>1, <1>2, <1>3, PTL DEF NodesSpec

------------------------------------------------------------------------------
(* core/tools.py *)

ToolAttempt == [step : {"collect", "review", "call"},
                pc : {"running", "stored", "done", "error", "unavailable", "dead"}]

\* The executor waits for an attempt of the next step of the plan; a paused run has no
\* executor and has a step to go on with.
ToolPlaced ==
    /\ executor.pc = "wait" =>
          /\ Len(attempt) > 0 /\ run.done < Len(plan)
          /\ attempt[Len(attempt)].step = plan[run.done + 1]
    /\ run.status = "paused" => executor.pc = "off" /\ run.done \in 1..Len(plan) - 1
    /\ executor.pc = "ready" => executor.tries = 0
    /\ executor.pc = "go" => executor.tries < Tries

\* Only a cancellation ends a run that has an executor.
ToolEnded ==
    /\ canceller # "off" => run.cancel
    /\ run.status \in Tools!Ended /\ executor.pc # "off" => run.cancel

\* What a collection step stored stays, and a step that calls has a handle to it.
ToolKept ==
    /\ \A a \in DOMAIN attempt :
          /\ attempt[a].step = "collect" /\ attempt[a].pc \in {"stored", "done"}
                => a \in collections \/ run.cancel \/ run.status \in Tools!Ended
          /\ attempt[a].step = "call" => handle # Tools!None
    /\ run.done > 0 => handle # Tools!None
    /\ handle # Tools!None =>
          handle \in collections \/ run.cancel \/ forgotten \/ run.status \in Tools!Ended

ToolInv ==
    /\ attempt \in Seq(ToolAttempt) /\ Tools!TypeOK
    /\ ToolPlaced /\ ToolEnded /\ ToolKept /\ Tools!ToolsFollowTheRun

LEMMA ToolStarts == Tools!Init => ToolInv
<1> SUFFICES ASSUME Tools!Init PROVE ToolInv
    OBVIOUS
<1> USE BoundsAssumption DEF Tools!Init
<1>1. attempt \in Seq(ToolAttempt) /\ Len(attempt) = 0 /\ DOMAIN attempt = {}
    OBVIOUS
<1>2. Tools!TypeOK
  <2>1. plan \in Tools!Plan /\ 0 \in 0..Len(plan)
    BY DEF Tools!Plan
  <2>2. run \in [status : {"running", "paused"} \cup Tools!Ended, done : 0..Len(plan),
                cancel : BOOLEAN]
    BY <2>1
  <2>3. executor \in [pc : {"off", "ready", "go", "wait", "raised", "failing"}, tries : 0..Tries]
    OBVIOUS
  <2>4. /\ collections \subseteq DOMAIN attempt /\ late \subseteq DOMAIN attempt
        /\ handle \in {Tools!None} \cup DOMAIN attempt
        /\ canceller \in {"off", "running", "paused"} /\ forgotten \in BOOLEAN
    BY <1>1, Zenon
  <2>5. Len(attempt) <= MaxToolAttempts /\ restarts \in 0..MaxRestarts
    BY <1>1
  <2>. QED
    BY <1>1, <2>1, <2>2, <2>3, <2>4, <2>5, Zenon DEF Tools!TypeOK
<1>3. ToolPlaced /\ ToolEnded /\ ToolKept /\ Tools!ToolsFollowTheRun
    BY <1>1 DEF ToolPlaced, ToolEnded, ToolKept, Tools!ToolsFollowTheRun,
       Tools!CallsFindTheirTools, Tools!NoCollectionLeft, Tools!Ended, Tools!None
<1>. QED
    BY <1>1, <1>2, <1>3 DEF ToolInv

\* What the proofs about the steps read of the types.
LEMMA ToolTypes ==
    ASSUME ToolInv
    PROVE  /\ plan = <<"collect", "call">> \/ plan = <<"collect", "review", "call">>
           /\ run.status \in {"running", "paused"} \cup Tools!Ended
           /\ run.done \in 0..Len(plan) /\ run.cancel \in BOOLEAN
           /\ run = [status |-> run.status, done |-> run.done, cancel |-> run.cancel]
           /\ executor.pc \in {"off", "ready", "go", "wait", "raised", "failing"}
           /\ executor.tries \in 0..Tries
           /\ executor = [pc |-> executor.pc, tries |-> executor.tries]
           /\ Len(attempt) \in 0..MaxToolAttempts /\ DOMAIN attempt = 1..Len(attempt)
           /\ \A a \in DOMAIN attempt : attempt[a] \in ToolAttempt
           /\ collections \subseteq DOMAIN attempt /\ late \subseteq DOMAIN attempt
           /\ handle \in {Tools!None} \cup DOMAIN attempt
<1>1. attempt \in Seq(ToolAttempt) /\ Len(attempt) \in Nat /\ DOMAIN attempt = 1..Len(attempt)
    BY DEF ToolInv
<1>2. plan \in Tools!Plan /\ Len(plan) \in Nat
    BY DEF ToolInv, Tools!TypeOK, Tools!Plan
<1>. QED
    BY <1>1, <1>2, BoundsAssumption DEF ToolInv, Tools!TypeOK, Tools!Plan

LEMMA ToolSteps == ToolInv /\ [Tools!Next]_Tools!vars => ToolInv'
<1> SUFFICES ASSUME ToolInv, [Tools!Next]_Tools!vars PROVE ToolInv'
    OBVIOUS
<1> USE BoundsAssumption, ToolTypes
<1>1. ASSUME Tools!CheckStep
     PROVE  ToolInv'
  <2> USE <1>1 DEF Tools!CheckStep, Tools!Check, Tools!MarkCancelled, Tools!Release
  <2>1. attempt' \in Seq(ToolAttempt)
    BY DEF ToolInv, ToolAttempt
  <2>2. Tools!TypeOK'
    BY <2>1, SMTT(30) DEF ToolInv, ToolPlaced, Tools!TypeOK, Tools!Ended, Tools!None, ToolAttempt
  <2>3. ToolPlaced'
    BY DEF ToolInv, ToolPlaced, ToolEnded, Tools!Ended
  <2>4. ToolEnded'
    BY DEF ToolInv, ToolEnded, Tools!Ended
  <2>5. ToolKept'
    BY DEF ToolInv, ToolPlaced, ToolEnded, ToolKept, Tools!Ended, Tools!None
  <2>6. Tools!ToolsFollowTheRun'
    BY DEF ToolInv, ToolPlaced, ToolEnded, ToolKept, Tools!Ended, Tools!None, Tools!ToolsFollowTheRun,
           Tools!CallsFindTheirTools, Tools!NoCollectionLeft
  <2>. QED
    BY <2>1, <2>2, <2>3, <2>4, <2>5, <2>6 DEF ToolInv
<1>2. ASSUME Tools!CheckRaise
     PROVE  ToolInv'
  <2> USE <1>2 DEF Tools!CheckRaise, Tools!Check, Tools!MarkCancelled, Tools!Release
  <2>1. attempt' \in Seq(ToolAttempt)
    BY DEF ToolInv, ToolAttempt
  <2>2. Tools!TypeOK'
    BY <2>1, SMTT(30) DEF ToolInv, ToolPlaced, Tools!TypeOK, Tools!Ended, Tools!None, ToolAttempt
  <2>3. ToolPlaced'
    BY DEF ToolInv, ToolPlaced, ToolEnded, Tools!Ended
  <2>4. ToolEnded'
    BY DEF ToolInv, ToolEnded, Tools!Ended
  <2>5. ToolKept'
    BY DEF ToolInv, ToolPlaced, ToolEnded, ToolKept, Tools!Ended, Tools!None
  <2>6. Tools!ToolsFollowTheRun'
    BY DEF ToolInv, ToolPlaced, ToolEnded, ToolKept, Tools!Ended, Tools!None, Tools!ToolsFollowTheRun,
           Tools!CallsFindTheirTools, Tools!NoCollectionLeft
  <2>. QED
    BY <2>1, <2>2, <2>3, <2>4, <2>5, <2>6 DEF ToolInv
<1>3. ASSUME Tools!StartAttempt
     PROVE  ToolInv'
  <2> USE <1>3 DEF Tools!StartAttempt
  <2>1. attempt' \in Seq(ToolAttempt)
    <3>1. [step |-> plan[run.done + 1], pc |-> "running"] \in ToolAttempt
      <4>1. run.done + 1 \in 1..Len(plan)
        BY DEF ToolInv, Tools!TypeOK
      <4>2. \A i \in 1..Len(plan) : plan[i] \in {"collect", "review", "call"}
        <5>1. CASE plan = <<"collect", "call">>
          <6>1. Len(plan) = 2 /\ plan[1] = "collect" /\ plan[2] = "call"
            BY <5>1
          <6>. QED
            BY <6>1
        <5>2. CASE plan = <<"collect", "review", "call">>
          <6>1. Len(plan) = 3 /\ plan[1] = "collect" /\ plan[2] = "review" /\ plan[3] = "call"
            BY <5>2
          <6>. QED
            BY <6>1
        <5>. QED
          BY <5>1, <5>2
      <4>3. plan[run.done + 1] \in {"collect", "review", "call"}
        BY <4>1, <4>2
      <4>. QED
        BY <4>3 DEF ToolAttempt
    <3>. QED
      BY <3>1 DEF ToolInv
  <2>2. Tools!TypeOK'
    BY <2>1, SMTT(30) DEF ToolInv, ToolPlaced, Tools!TypeOK, Tools!Ended, Tools!None, ToolAttempt
  <2>3. ToolPlaced'
    BY DEF ToolInv, ToolPlaced, ToolEnded, Tools!Ended
  <2>4. ToolEnded'
    BY DEF ToolInv, ToolEnded, Tools!Ended
  <2>5. ToolKept'
    BY SMTT(30) DEF ToolInv, ToolPlaced, ToolEnded, ToolKept, Tools!Ended, Tools!None
  <2>6. Tools!ToolsFollowTheRun'
    BY SMTT(30) DEF ToolInv, ToolPlaced, ToolEnded, ToolKept, Tools!Ended, Tools!None, Tools!ToolsFollowTheRun,
           Tools!CallsFindTheirTools, Tools!NoCollectionLeft
  <2>. QED
    BY <2>1, <2>2, <2>3, <2>4, <2>5, <2>6 DEF ToolInv
<1>4. ASSUME Tools!TakePause
     PROVE  ToolInv'
  <2> USE <1>4 DEF Tools!TakePause, Tools!Current
  <2>1. attempt' \in Seq(ToolAttempt)
    BY DEF ToolInv, ToolAttempt
  <2>2. Tools!TypeOK'
    BY <2>1 DEF ToolInv, ToolPlaced, Tools!TypeOK, Tools!Ended, Tools!None, ToolAttempt
  <2>3. ToolPlaced'
    BY DEF ToolInv, ToolPlaced, ToolEnded, Tools!Ended
  <2>4. ToolEnded'
    BY DEF ToolInv, ToolEnded, Tools!Ended
  <2>5. ToolKept'
    BY DEF ToolInv, ToolPlaced, ToolEnded, ToolKept, Tools!Ended, Tools!None
  <2>6. Tools!ToolsFollowTheRun'
    BY DEF ToolInv, ToolPlaced, ToolEnded, ToolKept, Tools!Ended, Tools!None, Tools!ToolsFollowTheRun,
           Tools!CallsFindTheirTools, Tools!NoCollectionLeft
  <2>. QED
    BY <2>1, <2>2, <2>3, <2>4, <2>5, <2>6 DEF ToolInv
<1>5. ASSUME Tools!TakeResult
     PROVE  ToolInv'
  <2> USE <1>5 DEF Tools!TakeResult, Tools!Current
  <2>1. attempt' \in Seq(ToolAttempt)
    BY DEF ToolInv, ToolAttempt
  <2>2. Tools!TypeOK'
    <3>1. run' \in [status : {"running", "paused"} \cup Tools!Ended, done : 0..Len(plan'),
                   cancel : BOOLEAN]
      <4>1. run.done + 1 \in 0..Len(plan) /\ plan' = plan /\ run.cancel \in BOOLEAN
        BY DEF ToolInv, ToolPlaced
      <4>2. run.status \in {"running", "paused"} \cup Tools!Ended
        BY DEF ToolInv
      <4>. QED
        BY <4>1, <4>2
    <3>2. executor' \in [pc : {"off", "ready", "go", "wait", "raised", "failing"}, tries : 0..Tries]
      BY DEF ToolInv, ToolPlaced
    <3>3. collections' \subseteq DOMAIN attempt' /\ handle' \in {Tools!None} \cup DOMAIN attempt'
      BY DEF ToolInv, ToolPlaced, Tools!None
    <3>. QED
      BY <2>1, <3>1, <3>2, <3>3 DEF ToolInv, Tools!TypeOK, ToolAttempt
  <2>3. ToolPlaced'
    BY DEF ToolInv, ToolPlaced, ToolEnded, Tools!Ended
  <2>4. ToolEnded'
    BY DEF ToolInv, ToolEnded, Tools!Ended
  <2>5. ToolKept'
    BY DEF ToolInv, ToolPlaced, ToolEnded, ToolKept, Tools!Ended, Tools!None
  <2>6. Tools!ToolsFollowTheRun'
    BY DEF ToolInv, ToolPlaced, ToolEnded, ToolKept, Tools!Ended, Tools!None, Tools!ToolsFollowTheRun,
           Tools!CallsFindTheirTools, Tools!NoCollectionLeft
  <2>. QED
    BY <2>1, <2>2, <2>3, <2>4, <2>5, <2>6 DEF ToolInv
<1>6. ASSUME Tools!TakeFailure
     PROVE  ToolInv'
  <2> USE <1>6 DEF Tools!TakeFailure, Tools!Current
  <2>1. attempt' \in Seq(ToolAttempt)
    BY DEF ToolInv, ToolAttempt
  <2>2. Tools!TypeOK'
    BY <2>1 DEF ToolInv, ToolPlaced, Tools!TypeOK, Tools!Ended, Tools!None, ToolAttempt
  <2>3. ToolPlaced'
    BY DEF ToolInv, ToolPlaced, ToolEnded, Tools!Ended
  <2>4. ToolEnded'
    BY DEF ToolInv, ToolEnded, Tools!Ended
  <2>5. ToolKept'
    BY DEF ToolInv, ToolPlaced, ToolEnded, ToolKept, Tools!Ended, Tools!None
  <2>6. Tools!ToolsFollowTheRun'
    BY DEF ToolInv, ToolPlaced, ToolEnded, ToolKept, Tools!Ended, Tools!None, Tools!ToolsFollowTheRun,
           Tools!CallsFindTheirTools, Tools!NoCollectionLeft
  <2>. QED
    BY <2>1, <2>2, <2>3, <2>4, <2>5, <2>6 DEF ToolInv
<1>7. ASSUME Tools!End
     PROVE  ToolInv'
  <2> USE <1>7 DEF Tools!End, Tools!Release
  <2>1. attempt' \in Seq(ToolAttempt)
    BY DEF ToolInv, ToolAttempt
  <2>2. Tools!TypeOK'
    <3>1. run' \in [status : {"running", "paused"} \cup Tools!Ended, done : 0..Len(plan'),
                   cancel : BOOLEAN]
      BY DEF ToolInv, ToolPlaced, Tools!Ended
    <3>2. executor' \in [pc : {"off", "ready", "go", "wait", "raised", "failing"}, tries : 0..Tries]
      BY DEF ToolInv, ToolPlaced
    <3>3. collections' \subseteq DOMAIN attempt' /\ handle' \in {Tools!None} \cup DOMAIN attempt'
      BY DEF ToolInv, ToolPlaced, Tools!None
    <3>. QED
      BY <2>1, <3>1, <3>2, <3>3 DEF ToolInv, Tools!TypeOK, ToolAttempt
  <2>3. ToolPlaced'
    BY DEF ToolInv, ToolPlaced, ToolEnded, Tools!Ended
  <2>4. ToolEnded'
    BY DEF ToolInv, ToolEnded, Tools!Ended
  <2>5. ToolKept'
    BY DEF ToolInv, ToolPlaced, ToolEnded, ToolKept, Tools!Ended, Tools!None
  <2>6. Tools!ToolsFollowTheRun'
    BY DEF ToolInv, ToolPlaced, ToolEnded, ToolKept, Tools!Ended, Tools!None, Tools!ToolsFollowTheRun,
           Tools!CallsFindTheirTools, Tools!NoCollectionLeft
  <2>. QED
    BY <2>1, <2>2, <2>3, <2>4, <2>5, <2>6 DEF ToolInv
<1>8. ASSUME NEW a \in DOMAIN attempt, Tools!StoreCollection(a)
     PROVE  ToolInv'
  <2> USE <1>8 DEF Tools!StoreCollection, Tools!Become, Tools!WorkerOnly
  <2>1. attempt' \in Seq(ToolAttempt)
    BY DEF ToolInv, ToolAttempt
  <2>2. Tools!TypeOK'
    BY <2>1 DEF ToolInv, ToolPlaced, Tools!TypeOK, Tools!Ended, Tools!None, ToolAttempt
  <2>3. ToolPlaced'
    BY DEF ToolInv, ToolPlaced, ToolEnded, Tools!Ended
  <2>4. ToolEnded'
    BY DEF ToolInv, ToolEnded, Tools!Ended
  <2>5. ToolKept'
    BY DEF ToolInv, ToolPlaced, ToolEnded, ToolKept, Tools!Ended, Tools!None
  <2>6. Tools!ToolsFollowTheRun'
    BY DEF ToolInv, ToolPlaced, ToolEnded, ToolKept, Tools!Ended, Tools!None, Tools!ToolsFollowTheRun,
           Tools!CallsFindTheirTools, Tools!NoCollectionLeft
  <2>. QED
    BY <2>1, <2>2, <2>3, <2>4, <2>5, <2>6 DEF ToolInv
<1>9. ASSUME NEW a \in DOMAIN attempt, Tools!ReturnHandle(a)
     PROVE  ToolInv'
  <2> USE <1>9 DEF Tools!ReturnHandle, Tools!Become, Tools!WorkerOnly
  <2>1. attempt' \in Seq(ToolAttempt)
    BY SMTT(30) DEF ToolInv, ToolAttempt
  <2>2. Tools!TypeOK'
    BY <2>1 DEF ToolInv, ToolPlaced, Tools!TypeOK, Tools!Ended, Tools!None, ToolAttempt
  <2>3. ToolPlaced'
    BY DEF ToolInv, ToolPlaced, ToolEnded, Tools!Ended
  <2>4. ToolEnded'
    BY DEF ToolInv, ToolEnded, Tools!Ended
  <2>5. ToolKept'
    BY DEF ToolInv, ToolPlaced, ToolEnded, ToolKept, Tools!Ended, Tools!None
  <2>6. Tools!ToolsFollowTheRun'
    BY DEF ToolInv, ToolPlaced, ToolEnded, ToolKept, Tools!Ended, Tools!None, Tools!ToolsFollowTheRun,
           Tools!CallsFindTheirTools, Tools!NoCollectionLeft
  <2>. QED
    BY <2>1, <2>2, <2>3, <2>4, <2>5, <2>6 DEF ToolInv
<1>10. ASSUME NEW a \in DOMAIN attempt, Tools!CallTool(a)
     PROVE  ToolInv'
  <2> USE <1>10 DEF Tools!CallTool, Tools!Become, Tools!WorkerOnly
  <2>1. attempt' \in Seq(ToolAttempt)
    BY DEF ToolInv, ToolAttempt
  <2>2. Tools!TypeOK'
    BY <2>1, SMTT(30) DEF ToolInv, ToolPlaced, Tools!TypeOK, Tools!Ended, Tools!None, ToolAttempt
  <2>3. ToolPlaced'
    BY SMTT(30) DEF ToolInv, ToolPlaced, ToolEnded, Tools!Ended
  <2>4. ToolEnded'
    BY DEF ToolInv, ToolEnded, Tools!Ended
  <2>5. ToolKept'
    BY DEF ToolInv, ToolPlaced, ToolEnded, ToolKept, Tools!Ended, Tools!None
  <2>6. Tools!ToolsFollowTheRun'
    BY DEF ToolInv, ToolPlaced, ToolEnded, ToolKept, Tools!Ended, Tools!None, Tools!ToolsFollowTheRun,
           Tools!CallsFindTheirTools, Tools!NoCollectionLeft
  <2>. QED
    BY <2>1, <2>2, <2>3, <2>4, <2>5, <2>6 DEF ToolInv
<1>11. ASSUME NEW a \in DOMAIN attempt, Tools!Review(a)
     PROVE  ToolInv'
  <2> USE <1>11 DEF Tools!Review, Tools!Become, Tools!WorkerOnly
  <2>1. attempt' \in Seq(ToolAttempt)
    BY DEF ToolInv, ToolAttempt
  <2>2. Tools!TypeOK'
    BY <2>1, SMTT(30) DEF ToolInv, ToolPlaced, Tools!TypeOK, Tools!Ended, Tools!None, ToolAttempt
  <2>3. ToolPlaced'
    BY DEF ToolInv, ToolPlaced, ToolEnded, Tools!Ended
  <2>4. ToolEnded'
    BY DEF ToolInv, ToolEnded, Tools!Ended
  <2>5. ToolKept'
    BY DEF ToolInv, ToolPlaced, ToolEnded, ToolKept, Tools!Ended, Tools!None
  <2>6. Tools!ToolsFollowTheRun'
    BY DEF ToolInv, ToolPlaced, ToolEnded, ToolKept, Tools!Ended, Tools!None, Tools!ToolsFollowTheRun,
           Tools!CallsFindTheirTools, Tools!NoCollectionLeft
  <2>. QED
    BY <2>1, <2>2, <2>3, <2>4, <2>5, <2>6 DEF ToolInv
<1>12. ASSUME NEW a \in DOMAIN attempt, Tools!Raise(a)
     PROVE  ToolInv'
  <2> USE <1>12 DEF Tools!Raise, Tools!Become, Tools!WorkerOnly
  <2>1. attempt' \in Seq(ToolAttempt)
    <3>1. [attempt[a] EXCEPT !.pc = "error"] \in ToolAttempt
      BY DEF ToolAttempt
    <3>. QED
      BY <3>1 DEF ToolInv
  <2>2. Tools!TypeOK'
    BY <2>1 DEF ToolInv, ToolPlaced, Tools!TypeOK, Tools!Ended, Tools!None, ToolAttempt
  <2>3. ToolPlaced'
    BY DEF ToolInv, ToolPlaced, ToolEnded, Tools!Ended
  <2>4. ToolEnded'
    BY DEF ToolInv, ToolEnded, Tools!Ended
  <2>5. ToolKept'
    BY DEF ToolInv, ToolPlaced, ToolEnded, ToolKept, Tools!Ended, Tools!None
  <2>6. Tools!ToolsFollowTheRun'
    BY DEF ToolInv, ToolPlaced, ToolEnded, ToolKept, Tools!Ended, Tools!None, Tools!ToolsFollowTheRun,
           Tools!CallsFindTheirTools, Tools!NoCollectionLeft
  <2>. QED
    BY <2>1, <2>2, <2>3, <2>4, <2>5, <2>6 DEF ToolInv
<1>13. ASSUME Tools!Resume
     PROVE  ToolInv'
  <2> USE <1>13 DEF Tools!Resume
  <2>1. attempt' \in Seq(ToolAttempt)
    BY DEF ToolInv, ToolAttempt
  <2>2. Tools!TypeOK'
    <3>1. run' \in [status : {"running", "paused"} \cup Tools!Ended, done : 0..Len(plan'),
                   cancel : BOOLEAN]
      <4>1. run.done + 1 \in 0..Len(plan) /\ plan' = plan /\ run.cancel \in BOOLEAN
        BY DEF ToolInv, ToolPlaced
      <4>2. run.status \in {"running", "paused"} \cup Tools!Ended
        BY DEF ToolInv
      <4>. QED
        BY <4>1, <4>2
    <3>2. executor' \in [pc : {"off", "ready", "go", "wait", "raised", "failing"}, tries : 0..Tries]
      BY DEF ToolInv, ToolPlaced
    <3>3. collections' \subseteq DOMAIN attempt' /\ handle' \in {Tools!None} \cup DOMAIN attempt'
      BY DEF ToolInv, ToolPlaced, Tools!None
    <3>. QED
      BY <2>1, <3>1, <3>2, <3>3 DEF ToolInv, Tools!TypeOK, ToolAttempt
  <2>3. ToolPlaced'
    BY DEF ToolInv, ToolPlaced, ToolEnded, Tools!Ended
  <2>4. ToolEnded'
    BY DEF ToolInv, ToolEnded, Tools!Ended
  <2>5. ToolKept'
    BY DEF ToolInv, ToolPlaced, ToolEnded, ToolKept, Tools!Ended, Tools!None
  <2>6. Tools!ToolsFollowTheRun'
    BY DEF ToolInv, ToolPlaced, ToolEnded, ToolKept, Tools!Ended, Tools!None, Tools!ToolsFollowTheRun,
           Tools!CallsFindTheirTools, Tools!NoCollectionLeft
  <2>. QED
    BY <2>1, <2>2, <2>3, <2>4, <2>5, <2>6 DEF ToolInv
<1>14. ASSUME Tools!RequestCancel
     PROVE  ToolInv'
  <2> USE <1>14 DEF Tools!RequestCancel
  <2>1. attempt' \in Seq(ToolAttempt)
    BY DEF ToolInv, ToolAttempt
  <2>2. Tools!TypeOK'
    BY <2>1 DEF ToolInv, ToolPlaced, Tools!TypeOK, Tools!Ended, Tools!None, ToolAttempt
  <2>3. ToolPlaced'
    BY DEF ToolInv, ToolPlaced, ToolEnded, Tools!Ended
  <2>4. ToolEnded'
    BY DEF ToolInv, ToolEnded, Tools!Ended
  <2>5. ToolKept'
    BY DEF ToolInv, ToolPlaced, ToolEnded, ToolKept, Tools!Ended, Tools!None
  <2>6. Tools!ToolsFollowTheRun'
    BY DEF ToolInv, ToolPlaced, ToolEnded, ToolKept, Tools!Ended, Tools!None, Tools!ToolsFollowTheRun,
           Tools!CallsFindTheirTools, Tools!NoCollectionLeft
  <2>. QED
    BY <2>1, <2>2, <2>3, <2>4, <2>5, <2>6 DEF ToolInv
<1>15. ASSUME Tools!FinishCancel
     PROVE  ToolInv'
  <2> USE <1>15 DEF Tools!FinishCancel, Tools!MarkCancelled, Tools!Release
  <2>1. attempt' \in Seq(ToolAttempt)
    BY DEF ToolInv, ToolAttempt
  <2>2. Tools!TypeOK'
    BY <2>1, SMTT(30) DEF ToolInv, ToolPlaced, Tools!TypeOK, Tools!Ended, Tools!None, ToolAttempt
  <2>3. ToolPlaced'
    BY DEF ToolInv, ToolPlaced, ToolEnded, Tools!Ended
  <2>4. ToolEnded'
    BY DEF ToolInv, ToolEnded, Tools!Ended
  <2>5. ToolKept'
    BY DEF ToolInv, ToolPlaced, ToolEnded, ToolKept, Tools!Ended, Tools!None
  <2>6. Tools!ToolsFollowTheRun'
    BY DEF ToolInv, ToolPlaced, ToolEnded, ToolKept, Tools!Ended, Tools!None, Tools!ToolsFollowTheRun,
           Tools!CallsFindTheirTools, Tools!NoCollectionLeft
  <2>. QED
    BY <2>1, <2>2, <2>3, <2>4, <2>5, <2>6 DEF ToolInv
<1>16. ASSUME Tools!Restart
     PROVE  ToolInv'
  <2> USE <1>16 DEF Tools!Restart
  <2>1. attempt' \in Seq(ToolAttempt)
    <3>1. \A a \in DOMAIN attempt : [attempt[a] EXCEPT !.pc = "dead"] \in ToolAttempt
      BY DEF ToolAttempt
    <3>. QED
      BY <3>1 DEF ToolInv
  <2>2. Tools!TypeOK'
    <3>1. /\ plan' = plan /\ collections' = {} /\ late' \subseteq DOMAIN attempt'
          /\ Len(attempt') = Len(attempt) /\ DOMAIN attempt' = DOMAIN attempt
          /\ handle' \in {Tools!None} \cup DOMAIN attempt' /\ canceller' = "off"
      BY <2>1 DEF ToolInv
    <3>2. /\ run' \in [status : {"running", "paused"} \cup Tools!Ended, done : 0..Len(plan'),
                       cancel : BOOLEAN]
          /\ executor' \in [pc : {"off", "ready", "go", "wait", "raised", "failing"}, tries : 0..Tries]
      BY DEF Tools!Ended
    <3>3. restarts' \in 0..MaxRestarts
      BY DEF ToolInv, Tools!TypeOK
    <3>4. plan \in Tools!Plan /\ forgotten' \in BOOLEAN /\ Len(attempt) <= MaxToolAttempts
      BY Zenon DEF ToolInv, Tools!TypeOK
    <3>5. \A a \in DOMAIN attempt' : attempt'[a] \in ToolAttempt
      BY <2>1
    <3>. QED
      BY <3>1, <3>2, <3>3, <3>4, <3>5, Zenon DEF Tools!TypeOK, ToolAttempt
  <2>3. ToolPlaced'
    BY DEF ToolInv, ToolPlaced, ToolEnded, Tools!Ended
  <2>4. ToolEnded'
    BY DEF ToolInv, ToolEnded, Tools!Ended
  <2>5. ToolKept'
    <3>1. \A a \in DOMAIN attempt' : a \in DOMAIN attempt /\ attempt'[a].pc = "dead"
                                     /\ attempt'[a].step = attempt[a].step
      BY DEF ToolAttempt
    <3>2. run'.done = run.done /\ handle' = handle /\ (forgotten' <=> handle # Tools!None)
      BY Zenon
    <3>. QED
      BY <3>1, <3>2, SMTT(30) DEF ToolInv, ToolKept
  <2>6. Tools!ToolsFollowTheRun'
    <3>1. \A a \in DOMAIN attempt' : attempt'[a].pc = "dead"
      BY DEF ToolAttempt
    <3>. QED
      BY <3>1 DEF Tools!ToolsFollowTheRun, Tools!CallsFindTheirTools, Tools!NoCollectionLeft
  <2>. QED
    BY <2>1, <2>2, <2>3, <2>4, <2>5, <2>6 DEF ToolInv
<1>17. CASE UNCHANGED Tools!vars
    BY <1>17 DEF Tools!vars, ToolInv, ToolPlaced, ToolEnded, ToolKept, Tools!TypeOK, Tools!ToolsFollowTheRun,
           Tools!CallsFindTheirTools, Tools!NoCollectionLeft
<1>. QED
    BY <1>1, <1>2, <1>3, <1>4, <1>5, <1>6, <1>7, <1>8, <1>9, <1>10, <1>11, <1>12, <1>13, <1>14, <1>15, <1>16, <1>17
    DEF Tools!Next, Tools!Work

\* The tools of a run, whatever its plan, retries, repeats, cancellations and restarts:
\* a call finds the collection that its run stored, and an ended run leaves none.
THEOREM ToolsAlwaysFollowTheRun == NodesSpec => []ToolsFollowTheRun
<1> DEFINE Inv == which = "tools" => ToolInv
<1>1. NodesInit => Inv
    BY ToolStarts DEF NodesInit, CompilerInit, EditorInit, ToolsInit, ModelsInit, HttpInit
<1>2. Inv /\ [NodesNext]_all => Inv'
  <2> SUFFICES ASSUME Inv, [NodesNext]_all, which' = "tools" PROVE ToolInv'
    OBVIOUS
  <2>1. CASE ToolsNext
    BY <2>1, ToolSteps DEF ToolsNext
  <2>2. CASE UNCHANGED all
    BY <2>2, ToolSteps DEF all, Tools!vars
  <2>. QED
    BY <2>1, <2>2
    DEF NodesNext, CompilerNext, EditorNext, HttpNext, ModelsNext, Stopped
<1>3. Inv => ToolsFollowTheRun
    BY DEF ToolsFollowTheRun, ToolInv
<1>. QED
    BY <1>1, <1>2, <1>3, PTL DEF NodesSpec

------------------------------------------------------------------------------
(* pages/WorkflowPage.tsx *)

\* What the page shows and follows is of one type, whatever was lost.
EditorPage == [on : BOOLEAN, active : Editor!Run \cup {Editor!NoRun},
               paused : [run : Editor!Run \cup {Editor!NoRun}, token : 0..MaxPauses],
               snapshot : Editor!Run \cup {Editor!NoRun}, running : BOOLEAN, pending : BOOLEAN]
EditorFlow == [pc : {"off", "compile", "started", "poll", "read", "closing"},
               mount : 0..MaxMounts, run : Editor!Run \cup {Editor!NoRun}, read : Editor!RunState]
EditorAsk  == [pc : {"off", "sent", "answered"}, kind : {"cancel", "resume"},
               run : Editor!Run \cup {Editor!NoRun}, token : 0..MaxPauses,
               running : BOOLEAN, ok : BOOLEAN]

EditorTypes ==
    /\ server \in [Editor!Run -> Editor!RunState]
    /\ page \in EditorPage
    /\ stored \in Editor!Run \cup {Editor!NoRun} /\ mount \in 0..MaxMounts /\ lost \in 0..MaxLost
    /\ flow \in [Editor!Flow -> EditorFlow]
    /\ ask \in [Editor!Mount -> EditorAsk]
    /\ orphan \subseteq Editor!Run /\ missed \subseteq Editor!Run

\* A flow knows its run once the server has started it, and an end that it has read is one.
FlowAt(f) ==
    /\ flow[f].mount <= mount
    /\ flow[f].pc = "off" => flow[f] = Editor!NoFlow
    /\ flow[f].pc \in {"started", "poll", "read", "closing"} => flow[f].run \in Editor!Run
    /\ flow[f].pc = "read" =>
         /\ flow[f].read.status = "ended" => server[flow[f].run].status \in {"ended", "gone"}
         /\ flow[f].read.status = "gone" => server[flow[f].run].status = "gone"
    /\ flow[f].pc = "closing" => server[flow[f].run].status \in {"ended", "gone"}

\* The flow of the mounted page.
Mine(f) == flow[f].pc # "off" /\ Editor!Mounted(f)

\* What the page holds while a flow of it is under way.
FollowedBy(f) ==
    /\ page.running
    /\ flow[f].pc \in {"compile", "started"} => page.active = Editor!NoRun
    /\ flow[f].pc \in {"poll", "read", "closing"} => page.active = flow[f].run
    /\ flow[f].pc = "read" /\ flow[f].read.status = "paused" /\ flow[f].run \notin missed
         => server[flow[f].run].status = "paused"

Following ==
    /\ \A f \in Editor!Flow : Mine(f) => FollowedBy(f)
    /\ \A f, g \in Editor!Flow : Mine(f) /\ Mine(g) => f = g
    /\ page.on /\ page.running => \E f \in Editor!Flow : Mine(f)

\* A page that is to follow its run again is at rest and shows no review; one that shows a
\* review is at rest.
PageAt ==
    /\ ~page.on => page = Editor!Closed
    /\ page.on => mount \in Editor!Mount
    /\ page.snapshot # Editor!NoRun =>
         ~page.running /\ page.snapshot = page.active /\ page.paused = Editor!NoReview
    /\ page.paused # Editor!NoReview =>
         ~page.running /\ page.paused.run = page.active /\ page.active # Editor!NoRun

\* While a request is under way the page waits for it; and a page that was at rest stays
\* so, with the run that the request is about.
AskAt(m) ==
    /\ ask[m].ok => ask[m].pc = "answered"
    /\ ask[m].pc # "off" => m <= mount /\ ask[m].run \in Editor!Run
    /\ ask[m].pc # "off" /\ page.on /\ m = mount =>
         /\ page.pending
         /\ ~ask[m].running =>
              page.active = ask[m].run /\ ~page.running /\ page.snapshot = Editor!NoRun

\* A review that is shown waits on the server, or the page's own request has settled it.
ReviewAt ==
    page.paused # Editor!NoReview /\ page.active \notin missed =>
        \/ server[page.active].status = "paused"
        \/ ask[mount].ok /\ ~ask[mount].running

EditorInv ==
    /\ EditorTypes
    /\ \A f \in Editor!Flow : FlowAt(f)
    /\ Following
    /\ PageAt
    /\ \A m \in Editor!Mount : AskAt(m)
    /\ ReviewAt
    /\ Editor!NoRunForgotten

LEMMA EditorNames == Editor!NoRun \notin Editor!Run /\ Editor!NoReview.run = Editor!NoRun
  BY DEF Editor!NoRun, Editor!Run, Editor!NoReview

LEMMA NothingTyped ==
    /\ Editor!NoReview \in [run : Editor!Run \cup {Editor!NoRun}, token : 0..MaxPauses]
    /\ Editor!Closed \in EditorPage /\ Editor!NoFlow \in EditorFlow
    /\ Editor!NoRequest \in EditorAsk
<1>1. MaxPauses \in Nat /\ MaxMounts \in Nat
    BY EditorAssumption
<1>. QED
    BY <1>1 DEF Editor!NoReview, Editor!Closed, Editor!NoFlow, Editor!NoRequest, EditorPage,
                EditorFlow,
                EditorAsk, Editor!RunState, Editor!NoRun

\* The server goes on with its runs.
LEMMA ServerKeeps ==
    ASSUME EditorInv, NEW r \in Editor!Run
    PROVE  Editor!Pause(r) \/ Editor!End(r) \/ Editor!Forget(r) => EditorInv'
<1>1. ASSUME Editor!Pause(r) PROVE EditorInv'
  <2> USE <1>1 DEF Editor!Pause
  <2>1. EditorTypes'
    <3>1. server' \in [Editor!Run -> Editor!RunState]
      BY EditorAssumption DEF EditorInv, EditorTypes, Editor!RunState, EditorAsk
    <3>2. UNCHANGED <<page, stored, mount, lost, flow, ask, orphan, missed>>
      OBVIOUS
    <3>. QED
      BY ONLY EditorInv, <3>1, <3>2 DEF EditorInv, EditorTypes
  <2>2. \A g \in Editor!Flow : FlowAt(g)'
    BY EditorNames DEF EditorInv, EditorTypes, EditorPage, EditorFlow, EditorAsk, FlowAt,
                       Editor!RunState, Editor!NoFlow
  <2>3. Following'
    BY EditorNames DEF EditorInv, EditorTypes, EditorPage, EditorFlow, EditorAsk, FlowAt,
                       Following, FollowedBy, Mine, PageAt, AskAt, Editor!Mounted
  <2>4. PageAt'
    BY EditorNames DEF EditorInv, EditorTypes, EditorPage, EditorFlow, EditorAsk, FlowAt,
                       Following, FollowedBy, Mine, PageAt, AskAt, Editor!Mounted
  <2>5. \A n \in Editor!Mount : AskAt(n)'
    BY EditorNames DEF EditorInv, EditorTypes, EditorPage, EditorFlow, EditorAsk, PageAt, AskAt,
                       Following, FollowedBy, Mine
  <2>6. ReviewAt'
    BY EditorNames DEF EditorInv, EditorTypes, EditorPage, EditorFlow, EditorAsk, PageAt, AskAt,
                       ReviewAt, Following, FollowedBy, Mine, Editor!Mounted
  <2>7. Editor!NoRunForgotten'
    BY EditorNames DEF EditorInv, EditorTypes, EditorPage, EditorFlow, EditorAsk, FlowAt, PageAt,
                       Following, FollowedBy, Mine, Editor!NoRunForgotten, Editor!Tracked,
                       Editor!Live, Editor!Mounted
  <2>. QED
    BY ONLY <2>1, <2>2, <2>3, <2>4, <2>5, <2>6, <2>7 DEF EditorInv
<1>2. ASSUME Editor!End(r) PROVE EditorInv'
  <2> USE <1>2 DEF Editor!End
  <2>1. EditorTypes'
    BY EditorNames DEF EditorInv, EditorTypes, EditorPage, EditorFlow, EditorAsk, Editor!RunState
  <2>2. \A g \in Editor!Flow : FlowAt(g)'
    BY EditorNames DEF EditorInv, EditorTypes, EditorPage, EditorFlow, EditorAsk, FlowAt,
                       Editor!RunState, Editor!NoFlow
  <2>3. Following'
    BY EditorNames DEF EditorInv, EditorTypes, EditorPage, EditorFlow, EditorAsk, FlowAt,
                       Following, FollowedBy, Mine, PageAt, AskAt, Editor!Mounted
  <2>4. PageAt'
    BY EditorNames DEF EditorInv, EditorTypes, EditorPage, EditorFlow, EditorAsk, FlowAt,
                       Following, FollowedBy, Mine, PageAt, AskAt, Editor!Mounted
  <2>5. \A n \in Editor!Mount : AskAt(n)'
    BY EditorNames DEF EditorInv, EditorTypes, EditorPage, EditorFlow, EditorAsk, PageAt, AskAt,
                       Following, FollowedBy, Mine
  <2>6. ReviewAt'
    BY EditorNames DEF EditorInv, EditorTypes, EditorPage, EditorFlow, EditorAsk, PageAt, AskAt,
                       ReviewAt, Following, FollowedBy, Mine, Editor!Mounted
  <2>7. Editor!NoRunForgotten'
    BY EditorNames DEF EditorInv, EditorTypes, EditorPage, EditorFlow, EditorAsk, FlowAt, PageAt,
                       Following, FollowedBy, Mine, Editor!NoRunForgotten, Editor!Tracked,
                       Editor!Live, Editor!Mounted
  <2>. QED
    BY ONLY <2>1, <2>2, <2>3, <2>4, <2>5, <2>6, <2>7 DEF EditorInv
<1>3. ASSUME Editor!Forget(r) PROVE EditorInv'
  <2> USE <1>3 DEF Editor!Forget
  <2>1. EditorTypes'
    BY EditorNames DEF EditorInv, EditorTypes, EditorPage, EditorFlow, EditorAsk, Editor!RunState
  <2>2. \A g \in Editor!Flow : FlowAt(g)'
    BY EditorNames DEF EditorInv, EditorTypes, EditorPage, EditorFlow, EditorAsk, FlowAt,
                       Editor!RunState, Editor!NoFlow
  <2>3. Following'
    BY EditorNames DEF EditorInv, EditorTypes, EditorPage, EditorFlow, EditorAsk, FlowAt,
                       Following, FollowedBy, Mine, PageAt, AskAt, Editor!Mounted
  <2>4. PageAt'
    BY EditorNames DEF EditorInv, EditorTypes, EditorPage, EditorFlow, EditorAsk, FlowAt,
                       Following, FollowedBy, Mine, PageAt, AskAt, Editor!Mounted
  <2>5. \A n \in Editor!Mount : AskAt(n)'
    BY EditorNames DEF EditorInv, EditorTypes, EditorPage, EditorFlow, EditorAsk, PageAt, AskAt,
                       Following, FollowedBy, Mine
  <2>6. ReviewAt'
    BY EditorNames DEF EditorInv, EditorTypes, EditorPage, EditorFlow, EditorAsk, PageAt, AskAt,
                       ReviewAt, Following, FollowedBy, Mine, Editor!Mounted
  <2>7. Editor!NoRunForgotten'
    BY EditorNames DEF EditorInv, EditorTypes, EditorPage, EditorFlow, EditorAsk, FlowAt, PageAt,
                       Following, FollowedBy, Mine, Editor!NoRunForgotten, Editor!Tracked,
                       Editor!Live, Editor!Mounted
  <2>. QED
    BY ONLY <2>1, <2>2, <2>3, <2>4, <2>5, <2>6, <2>7 DEF EditorInv
<1>. QED
    BY <1>1, <1>2, <1>3

\* A flow starts a run, reads it, acts on what it has read, and ends.
LEMMA FlowKeeps ==
    ASSUME EditorInv, NEW f \in Editor!Flow
    PROVE  /\ \/ Editor!RunWorkflow(f) \/ Editor!RunRefused(f) \/ Editor!StartAnswered(f)
              \/ Editor!StartLost(f) \/ Editor!Poll(f) \/ Editor!Answered(f) \/ Editor!Close(f)
              \/ Editor!PollLost(f) \/ Editor!ResumeTracking(f)
              => EditorInv'
           /\ \A r \in Editor!Run : Editor!StartAtServer(f, r) => EditorInv'
<1>1. ASSUME Editor!RunWorkflow(f) PROVE EditorInv'
  <2> USE <1>1 DEF Editor!RunWorkflow, Editor!Begins, Editor!Rendered
  <2>1. EditorTypes'
    <3>1. page' \in EditorPage
      BY EditorAssumption DEF EditorInv, EditorTypes, EditorPage, EditorFlow, Editor!RunState,
                              EditorAsk, FlowAt, AskAt, Editor!NoRun
    <3>2. flow' \in [Editor!Flow -> EditorFlow]
      <4>1. ASSUME NEW s \in EditorFlow, NEW n \in 0..MaxMounts
            PROVE  [s EXCEPT !.pc = "compile", !.mount = n] \in EditorFlow
        BY DEF EditorFlow
      <4>2. flow' = [flow EXCEPT ![f] = [flow[f] EXCEPT !.pc = "compile", !.mount = mount]]
        OBVIOUS
      <4>. QED
        BY ONLY EditorInv, f \in Editor!Flow, <4>1, <4>2 DEF EditorInv, EditorTypes
    <3>3. UNCHANGED <<server, stored, mount, lost, ask, orphan, missed>>
      OBVIOUS
    <3>. QED
      BY ONLY EditorInv, <3>1, <3>2, <3>3 DEF EditorInv, EditorTypes
  <2>2. \A g \in Editor!Flow : FlowAt(g)'
    BY EditorNames DEF EditorInv, EditorTypes, EditorPage, EditorFlow, EditorAsk, FlowAt,
                       Editor!RunState, Editor!NoFlow
  <2>3. Following'
    BY EditorNames DEF EditorInv, EditorTypes, EditorPage, EditorFlow, EditorAsk, FlowAt,
                       Following, FollowedBy, Mine, PageAt, AskAt, Editor!Mounted
  <2>4. PageAt'
    BY EditorNames DEF EditorInv, EditorTypes, EditorPage, EditorFlow, EditorAsk, FlowAt,
                       Following, FollowedBy, Mine, PageAt, AskAt, Editor!Mounted
  <2>5. \A n \in Editor!Mount : AskAt(n)'
    BY EditorNames DEF EditorInv, EditorTypes, EditorPage, EditorFlow, EditorAsk, PageAt, AskAt,
                       Following, FollowedBy, Mine
  <2>6. ReviewAt'
    BY EditorNames DEF EditorInv, EditorTypes, EditorPage, EditorFlow, EditorAsk, PageAt, AskAt,
                       ReviewAt, Following, FollowedBy, Mine, Editor!Mounted
  <2>7. Editor!NoRunForgotten'
    BY EditorNames DEF EditorInv, EditorTypes, EditorPage, EditorFlow, EditorAsk, FlowAt, PageAt,
                       Following, FollowedBy, Mine, Editor!NoRunForgotten, Editor!Tracked,
                       Editor!Live, Editor!Mounted
  <2>. QED
    BY ONLY <2>1, <2>2, <2>3, <2>4, <2>5, <2>6, <2>7 DEF EditorInv
<1>2. ASSUME Editor!RunRefused(f) PROVE EditorInv'
  <2> USE <1>2 DEF Editor!RunRefused, Editor!Changes, Editor!NoFlow
  <2>1. EditorTypes'
    <3>1. page' \in EditorPage
      BY EditorAssumption DEF EditorInv, EditorTypes, EditorPage, EditorFlow, Editor!RunState,
                              EditorAsk, FlowAt, AskAt, Editor!NoRun
    <3>2. flow' \in [Editor!Flow -> EditorFlow]
      BY EditorAssumption DEF EditorInv, EditorTypes, EditorFlow, Editor!NoFlow, Editor!RunState,
                              EditorPage, FlowAt, Editor!NoRun
    <3>3. UNCHANGED <<server, stored, mount, lost, ask, orphan, missed>>
      OBVIOUS
    <3>. QED
      BY ONLY EditorInv, <3>1, <3>2, <3>3 DEF EditorInv, EditorTypes
  <2>2. \A g \in Editor!Flow : FlowAt(g)'
    BY EditorNames DEF EditorInv, EditorTypes, EditorPage, EditorFlow, EditorAsk, FlowAt,
                       Editor!RunState, Editor!NoFlow
  <2>3. Following'
    BY EditorNames DEF EditorInv, EditorTypes, EditorPage, EditorFlow, EditorAsk, FlowAt,
                       Following, FollowedBy, Mine, PageAt, AskAt, Editor!Mounted
  <2>4. PageAt'
    BY EditorNames DEF EditorInv, EditorTypes, EditorPage, EditorFlow, EditorAsk, FlowAt,
                       Following, FollowedBy, Mine, PageAt, AskAt, Editor!Mounted
  <2>5. \A n \in Editor!Mount : AskAt(n)'
    BY EditorNames DEF EditorInv, EditorTypes, EditorPage, EditorFlow, EditorAsk, PageAt, AskAt,
                       Following, FollowedBy, Mine
  <2>6. ReviewAt'
    BY EditorNames DEF EditorInv, EditorTypes, EditorPage, EditorFlow, EditorAsk, PageAt, AskAt,
                       ReviewAt, Following, FollowedBy, Mine, Editor!Mounted
  <2>7. Editor!NoRunForgotten'
    BY EditorNames DEF EditorInv, EditorTypes, EditorPage, EditorFlow, EditorAsk, FlowAt, PageAt,
                       Following, FollowedBy, Mine, Editor!NoRunForgotten, Editor!Tracked,
                       Editor!Live, Editor!Mounted
  <2>. QED
    BY ONLY <2>1, <2>2, <2>3, <2>4, <2>5, <2>6, <2>7 DEF EditorInv
<1>3. ASSUME NEW r \in Editor!Run, Editor!StartAtServer(f, r) PROVE EditorInv'
  <2> USE <1>3 DEF Editor!StartAtServer
  <2>1. EditorTypes'
    <3>1. server' \in [Editor!Run -> Editor!RunState]
      BY EditorAssumption DEF EditorInv, EditorTypes, Editor!RunState, EditorAsk
    <3>2. flow' \in [Editor!Flow -> EditorFlow]
      <4>1. ASSUME NEW s \in EditorFlow
            PROVE  [s EXCEPT !.pc = "started", !.run = r] \in EditorFlow
        BY DEF EditorFlow
      <4>2. flow' = [flow EXCEPT ![f] = [flow[f] EXCEPT !.pc = "started", !.run = r]]
        OBVIOUS
      <4>. QED
        BY ONLY EditorInv, f \in Editor!Flow, <4>1, <4>2 DEF EditorInv, EditorTypes
    <3>3. orphan' \subseteq Editor!Run
      BY EditorAssumption DEF EditorInv, EditorTypes, FlowAt, EditorPage, Editor!Flow
    <3>4. UNCHANGED <<page, stored, mount, lost, ask, missed>>
      OBVIOUS
    <3>. QED
      BY ONLY EditorInv, <3>1, <3>2, <3>3, <3>4 DEF EditorInv, EditorTypes
  <2>2. \A g \in Editor!Flow : FlowAt(g)'
    BY EditorNames DEF EditorInv, EditorTypes, EditorPage, EditorFlow, EditorAsk, FlowAt,
                       Editor!RunState, Editor!NoFlow
  <2>3. Following'
    BY EditorNames DEF EditorInv, EditorTypes, EditorPage, EditorFlow, EditorAsk, FlowAt,
                       Following, FollowedBy, Mine, PageAt, AskAt, Editor!Mounted
  <2>4. PageAt'
    BY EditorNames DEF EditorInv, EditorTypes, EditorPage, EditorFlow, EditorAsk, FlowAt,
                       Following, FollowedBy, Mine, PageAt, AskAt, Editor!Mounted
  <2>5. \A n \in Editor!Mount : AskAt(n)'
    BY EditorNames DEF EditorInv, EditorTypes, EditorPage, EditorFlow, EditorAsk, PageAt, AskAt,
                       Following, FollowedBy, Mine
  <2>6. ReviewAt'
    BY EditorNames DEF EditorInv, EditorTypes, EditorPage, EditorFlow, EditorAsk, PageAt, AskAt,
                       ReviewAt, Following, FollowedBy, Mine, Editor!Mounted
  <2>7. Editor!NoRunForgotten'
    BY EditorNames DEF EditorInv, EditorTypes, EditorPage, EditorFlow, EditorAsk, FlowAt, PageAt,
                       Following, FollowedBy, Mine, Editor!NoRunForgotten, Editor!Tracked,
                       Editor!Live, Editor!Mounted
  <2>. QED
    BY ONLY <2>1, <2>2, <2>3, <2>4, <2>5, <2>6, <2>7 DEF EditorInv
<1>4. ASSUME Editor!StartAnswered(f) PROVE EditorInv'
  <2> USE <1>4 DEF Editor!StartAnswered, Editor!Changes, Editor!Monitor, Editor!Aborted,
                   Editor!NoFlow
  <2>1. EditorTypes'
    <3>1. page' \in EditorPage
      BY EditorAssumption DEF EditorInv, EditorTypes, EditorPage, EditorFlow, Editor!RunState,
                              EditorAsk, FlowAt, AskAt, Editor!NoRun
    <3>2. flow' \in [Editor!Flow -> EditorFlow]
      <4>1. Editor!NoFlow \in EditorFlow
        BY NothingTyped
      <4>2. [Editor!NoFlow EXCEPT !.pc = "poll", !.mount = mount,
          !.run = flow[f].run] \in EditorFlow
        BY <4>1 DEF EditorInv, EditorTypes, EditorFlow, FlowAt
      <4>. QED
        BY ONLY EditorInv, f \in Editor!Flow, <4>1, <4>2,
                flow' = IF Editor!Mounted(f) THEN Editor!Monitor(f, flow[f].run)
                        ELSE [flow EXCEPT ![f] = Editor!NoFlow]
        DEF EditorInv, EditorTypes, Editor!Monitor, Editor!Aborted
    <3>3. UNCHANGED <<server, stored, mount, lost, ask, orphan, missed>>
      OBVIOUS
    <3>. QED
      BY ONLY EditorInv, <3>1, <3>2, <3>3 DEF EditorInv, EditorTypes
  <2>2. \A g \in Editor!Flow : FlowAt(g)'
    <3>1. CASE Editor!Mounted(f)
      BY <3>1, EditorNames, SMTT(30)
      DEF EditorInv, EditorTypes, EditorPage, EditorFlow, EditorAsk, FlowAt, Editor!RunState
    <3>2. CASE ~ Editor!Mounted(f)
      BY <3>2, EditorNames, SMTT(30)
      DEF EditorInv, EditorTypes, EditorPage, EditorFlow, EditorAsk, FlowAt, Editor!RunState
    <3>. QED
      BY ONLY <3>1, <3>2
  <2>3. Following'
    BY EditorNames DEF EditorInv, EditorTypes, EditorPage, EditorFlow, EditorAsk, FlowAt,
                       Following, FollowedBy, Mine, PageAt, AskAt, Editor!Mounted
  <2>4. PageAt'
    BY EditorNames DEF EditorInv, EditorTypes, EditorPage, EditorFlow, EditorAsk, FlowAt,
                       Following, FollowedBy, Mine, PageAt, AskAt, Editor!Mounted
  <2>5. \A n \in Editor!Mount : AskAt(n)'
    BY EditorNames DEF EditorInv, EditorTypes, EditorPage, EditorFlow, EditorAsk, PageAt, AskAt,
                       Following, FollowedBy, Mine
  <2>6. ReviewAt'
    BY EditorNames DEF EditorInv, EditorTypes, EditorPage, EditorFlow, EditorAsk, PageAt, AskAt,
                       ReviewAt, Following, FollowedBy, Mine, Editor!Mounted
  <2>7. Editor!NoRunForgotten'
    BY EditorNames DEF EditorInv, EditorTypes, EditorPage, EditorFlow, EditorAsk, FlowAt, PageAt,
                       Following, FollowedBy, Mine, Editor!NoRunForgotten, Editor!Tracked,
                       Editor!Live, Editor!Mounted
  <2>. QED
    BY ONLY <2>1, <2>2, <2>3, <2>4, <2>5, <2>6, <2>7 DEF EditorInv
<1>5. ASSUME Editor!StartLost(f) PROVE EditorInv'
  <2> USE <1>5 DEF Editor!StartLost, Editor!Changes, Editor!NoFlow
  <2>1. EditorTypes'
    <3>1. lost' \in 0..MaxLost
      BY EditorAssumption DEF EditorInv, EditorTypes
    <3>2. orphan' \subseteq Editor!Run
      BY EditorAssumption DEF EditorInv, EditorTypes, FlowAt, EditorPage, Editor!Flow
    <3>3. page' \in EditorPage
      BY EditorAssumption DEF EditorInv, EditorTypes, EditorPage, EditorFlow, Editor!RunState,
                              EditorAsk, FlowAt, AskAt, Editor!NoRun
    <3>4. flow' \in [Editor!Flow -> EditorFlow]
      BY EditorAssumption DEF EditorInv, EditorTypes, EditorFlow, Editor!NoFlow, Editor!RunState,
                              EditorPage, FlowAt, Editor!NoRun
    <3>5. UNCHANGED <<server, stored, mount, ask, missed>>
      OBVIOUS
    <3>. QED
      BY ONLY EditorInv, <3>1, <3>2, <3>3, <3>4, <3>5 DEF EditorInv, EditorTypes
  <2>2. \A g \in Editor!Flow : FlowAt(g)'
    BY EditorNames DEF EditorInv, EditorTypes, EditorPage, EditorFlow, EditorAsk, FlowAt,
                       Editor!RunState, Editor!NoFlow
  <2>3. Following'
    BY EditorNames DEF EditorInv, EditorTypes, EditorPage, EditorFlow, EditorAsk, FlowAt,
                       Following, FollowedBy, Mine, PageAt, AskAt, Editor!Mounted
  <2>4. PageAt'
    BY EditorNames DEF EditorInv, EditorTypes, EditorPage, EditorFlow, EditorAsk, FlowAt,
                       Following, FollowedBy, Mine, PageAt, AskAt, Editor!Mounted
  <2>5. \A n \in Editor!Mount : AskAt(n)'
    BY EditorNames DEF EditorInv, EditorTypes, EditorPage, EditorFlow, EditorAsk, PageAt, AskAt,
                       Following, FollowedBy, Mine
  <2>6. ReviewAt'
    BY EditorNames DEF EditorInv, EditorTypes, EditorPage, EditorFlow, EditorAsk, PageAt, AskAt,
                       ReviewAt, Following, FollowedBy, Mine, Editor!Mounted
  <2>7. Editor!NoRunForgotten'
    BY EditorNames DEF EditorInv, EditorTypes, EditorPage, EditorFlow, EditorAsk, FlowAt, PageAt,
                       Following, FollowedBy, Mine, Editor!NoRunForgotten, Editor!Tracked,
                       Editor!Live, Editor!Mounted
  <2>. QED
    BY ONLY <2>1, <2>2, <2>3, <2>4, <2>5, <2>6, <2>7 DEF EditorInv
<1>6. ASSUME Editor!Poll(f) PROVE EditorInv'
  <2> USE <1>6 DEF Editor!Poll
  <2>1. EditorTypes'
    <3>1. flow' \in [Editor!Flow -> EditorFlow]
      <4>1. ASSUME NEW s \in EditorFlow, NEW answer \in Editor!RunState
            PROVE  [s EXCEPT !.pc = "read", !.read = answer] \in EditorFlow
        BY DEF EditorFlow
      <4>2. flow' = [flow EXCEPT ![f] = [flow[f] EXCEPT !.pc = "read",
          !.read = server[flow[f].run]]]
        OBVIOUS
      <4>3. server[flow[f].run] \in Editor!RunState
        BY DEF EditorInv, EditorTypes, FlowAt
      <4>. QED
        BY ONLY EditorInv, f \in Editor!Flow, <4>1, <4>2, <4>3 DEF EditorInv, EditorTypes
    <3>2. UNCHANGED <<server, page, stored, mount, lost, ask, orphan, missed>>
      OBVIOUS
    <3>. QED
      BY ONLY EditorInv, <3>1, <3>2 DEF EditorInv, EditorTypes
  <2>2. \A g \in Editor!Flow : FlowAt(g)'
    BY EditorNames DEF EditorInv, EditorTypes, EditorPage, EditorFlow, EditorAsk, FlowAt,
                       Editor!RunState, Editor!NoFlow
  <2>3. Following'
    BY EditorNames DEF EditorInv, EditorTypes, EditorPage, EditorFlow, EditorAsk, FlowAt,
                       Following, FollowedBy, Mine, PageAt, AskAt, Editor!Mounted
  <2>4. PageAt'
    BY EditorNames DEF EditorInv, EditorTypes, EditorPage, EditorFlow, EditorAsk, FlowAt,
                       Following, FollowedBy, Mine, PageAt, AskAt, Editor!Mounted
  <2>5. \A n \in Editor!Mount : AskAt(n)'
    BY EditorNames DEF EditorInv, EditorTypes, EditorPage, EditorFlow, EditorAsk, PageAt, AskAt,
                       Following, FollowedBy, Mine
  <2>6. ReviewAt'
    BY EditorNames DEF EditorInv, EditorTypes, EditorPage, EditorFlow, EditorAsk, PageAt, AskAt,
                       ReviewAt, Following, FollowedBy, Mine, Editor!Mounted
  <2>7. Editor!NoRunForgotten'
    BY EditorNames DEF EditorInv, EditorTypes, EditorPage, EditorFlow, EditorAsk, FlowAt, PageAt,
                       Following, FollowedBy, Mine, Editor!NoRunForgotten, Editor!Tracked,
                       Editor!Live, Editor!Mounted
  <2>. QED
    BY ONLY <2>1, <2>2, <2>3, <2>4, <2>5, <2>6, <2>7 DEF EditorInv
<1>7. ASSUME flow[f].pc = "read", flow[f].read.status = "active",
    flow' = [flow EXCEPT ![f].pc = "poll"],
             UNCHANGED <<server, page, stored, mount, ask, lost, orphan, missed>> PROVE EditorInv'
  <2> USE <1>7 DEF Editor!Changes, Editor!NoFlow, Editor!NoReview
  <2>1. EditorTypes'
    <3>1. flow' \in [Editor!Flow -> EditorFlow]
      BY EditorAssumption DEF EditorInv, EditorTypes, EditorFlow, Editor!NoFlow, Editor!RunState,
                              EditorPage, FlowAt, Editor!NoRun
    <3>2. UNCHANGED <<server, page, stored, mount, lost, ask, orphan, missed>>
      OBVIOUS
    <3>. QED
      BY ONLY EditorInv, <3>1, <3>2 DEF EditorInv, EditorTypes
  <2>2. \A g \in Editor!Flow : FlowAt(g)'
    BY EditorNames DEF EditorInv, EditorTypes, EditorPage, EditorFlow, EditorAsk, FlowAt,
                       Editor!RunState, Editor!NoFlow
  <2>3. Following'
    BY EditorNames DEF EditorInv, EditorTypes, EditorPage, EditorFlow, EditorAsk, FlowAt,
                       Following, FollowedBy, Mine, PageAt, AskAt, Editor!Mounted
  <2>4. PageAt'
    BY EditorNames DEF EditorInv, EditorTypes, EditorPage, EditorFlow, EditorAsk, FlowAt,
                       Following, FollowedBy, Mine, PageAt, AskAt, Editor!Mounted
  <2>5. \A n \in Editor!Mount : AskAt(n)'
    BY EditorNames DEF EditorInv, EditorTypes, EditorPage, EditorFlow, EditorAsk, PageAt, AskAt,
                       Following, FollowedBy, Mine
  <2>6. ReviewAt'
    BY EditorNames DEF EditorInv, EditorTypes, EditorPage, EditorFlow, EditorAsk, PageAt, AskAt,
                       ReviewAt, Following, FollowedBy, Mine, Editor!Mounted
  <2>7. Editor!NoRunForgotten'
    BY EditorNames DEF EditorInv, EditorTypes, EditorPage, EditorFlow, EditorAsk, FlowAt, PageAt,
                       Following, FollowedBy, Mine, Editor!NoRunForgotten, Editor!Tracked,
                       Editor!Live, Editor!Mounted
  <2>. QED
    BY ONLY <2>1, <2>2, <2>3, <2>4, <2>5, <2>6, <2>7 DEF EditorInv
<1>8. ASSUME flow[f].pc = "read", flow[f].read.status = "paused",
    flow' = [flow EXCEPT ![f] = Editor!NoFlow],
             Editor!Changes(f, [page EXCEPT !.running = FALSE,
                               !.paused = [run |-> flow[f].run, token |-> flow[f].read.token]]),
             UNCHANGED <<server, stored, mount, ask, lost, orphan, missed>> PROVE EditorInv'
  <2> USE <1>8 DEF Editor!Changes, Editor!NoFlow, Editor!NoReview
  <2>1. EditorTypes'
    <3>1. page' \in EditorPage
      BY EditorAssumption DEF EditorInv, EditorTypes, EditorPage, EditorFlow, Editor!RunState,
                              EditorAsk, FlowAt, AskAt, Editor!NoRun
    <3>2. flow' \in [Editor!Flow -> EditorFlow]
      BY EditorAssumption DEF EditorInv, EditorTypes, EditorFlow, Editor!NoFlow, Editor!RunState,
                              EditorPage, FlowAt, Editor!NoRun
    <3>3. UNCHANGED <<server, stored, mount, lost, ask, orphan, missed>>
      OBVIOUS
    <3>. QED
      BY ONLY EditorInv, <3>1, <3>2, <3>3 DEF EditorInv, EditorTypes
  <2>2. \A g \in Editor!Flow : FlowAt(g)'
    BY EditorNames DEF EditorInv, EditorTypes, EditorPage, EditorFlow, EditorAsk, FlowAt,
                       Editor!RunState, Editor!NoFlow
  <2>3. Following'
    BY EditorNames DEF EditorInv, EditorTypes, EditorPage, EditorFlow, EditorAsk, FlowAt,
                       Following, FollowedBy, Mine, PageAt, AskAt, Editor!Mounted
  <2>4. PageAt'
    BY EditorNames DEF EditorInv, EditorTypes, EditorPage, EditorFlow, EditorAsk, FlowAt,
                       Following, FollowedBy, Mine, PageAt, AskAt, Editor!Mounted
  <2>5. \A n \in Editor!Mount : AskAt(n)'
    BY EditorNames DEF EditorInv, EditorTypes, EditorPage, EditorFlow, EditorAsk, PageAt, AskAt,
                       Following, FollowedBy, Mine
  <2>6. ReviewAt'
    BY EditorNames DEF EditorInv, EditorTypes, EditorPage, EditorFlow, EditorAsk, PageAt, AskAt,
                       ReviewAt, Following, FollowedBy, Mine, Editor!Mounted
  <2>7. Editor!NoRunForgotten'
    BY EditorNames DEF EditorInv, EditorTypes, EditorPage, EditorFlow, EditorAsk, FlowAt, PageAt,
                       Following, FollowedBy, Mine, Editor!NoRunForgotten, Editor!Tracked,
                       Editor!Live, Editor!Mounted
  <2>. QED
    BY ONLY <2>1, <2>2, <2>3, <2>4, <2>5, <2>6, <2>7 DEF EditorInv
<1>9. ASSUME flow[f].pc = "read", flow[f].read.status = "ended",
    flow' = [flow EXCEPT ![f].pc = "closing"],
             Editor!Changes(f, [page EXCEPT !.paused = Editor!NoReview]),
             UNCHANGED <<server, stored, mount, ask, lost, orphan, missed>> PROVE EditorInv'
  <2> USE <1>9 DEF Editor!Changes, Editor!NoFlow, Editor!NoReview
  <2>1. EditorTypes'
    <3>1. page' \in EditorPage
      BY NothingTyped DEF EditorInv, EditorTypes, EditorPage
    <3>2. flow' \in [Editor!Flow -> EditorFlow]
      BY EditorAssumption DEF EditorInv, EditorTypes, EditorFlow, Editor!NoFlow, Editor!RunState,
                              EditorPage, FlowAt, Editor!NoRun
    <3>3. UNCHANGED <<server, stored, mount, lost, ask, orphan, missed>>
      OBVIOUS
    <3>. QED
      BY ONLY EditorInv, <3>1, <3>2, <3>3 DEF EditorInv, EditorTypes
  <2>2. \A g \in Editor!Flow : FlowAt(g)'
    BY EditorNames DEF EditorInv, EditorTypes, EditorPage, EditorFlow, EditorAsk, FlowAt,
                       Editor!RunState, Editor!NoFlow
  <2>3. Following'
    BY EditorNames DEF EditorInv, EditorTypes, EditorPage, EditorFlow, EditorAsk, FlowAt,
                       Following, FollowedBy, Mine, PageAt, AskAt, Editor!Mounted
  <2>4. PageAt'
    BY EditorNames DEF EditorInv, EditorTypes, EditorPage, EditorFlow, EditorAsk, FlowAt,
                       Following, FollowedBy, Mine, PageAt, AskAt, Editor!Mounted
  <2>5. \A n \in Editor!Mount : AskAt(n)'
    BY EditorNames DEF EditorInv, EditorTypes, EditorPage, EditorFlow, EditorAsk, PageAt, AskAt,
                       Following, FollowedBy, Mine
  <2>6. ReviewAt'
    BY EditorNames DEF EditorInv, EditorTypes, EditorPage, EditorFlow, EditorAsk, PageAt, AskAt,
                       ReviewAt, Following, FollowedBy, Mine, Editor!Mounted
  <2>7. Editor!NoRunForgotten'
    BY EditorNames DEF EditorInv, EditorTypes, EditorPage, EditorFlow, EditorAsk, FlowAt, PageAt,
                       Following, FollowedBy, Mine, Editor!NoRunForgotten, Editor!Tracked,
                       Editor!Live, Editor!Mounted
  <2>. QED
    BY ONLY <2>1, <2>2, <2>3, <2>4, <2>5, <2>6, <2>7 DEF EditorInv
<1>10. ASSUME flow[f].pc = "read", flow[f].read.status = "gone",
    flow' = [flow EXCEPT ![f] = Editor!NoFlow],
             Editor!Changes(f, [page EXCEPT !.running = FALSE, !.active = Editor!NoRun]),
             UNCHANGED <<server, stored, mount, ask, lost, orphan, missed>> PROVE EditorInv'
  <2> USE <1>10 DEF Editor!Changes, Editor!NoFlow, Editor!NoReview
  <2>1. EditorTypes'
    <3>1. page' \in EditorPage
      BY EditorAssumption DEF EditorInv, EditorTypes, EditorPage, EditorFlow, Editor!RunState,
                              EditorAsk, FlowAt, AskAt, Editor!NoRun
    <3>2. flow' \in [Editor!Flow -> EditorFlow]
      BY EditorAssumption DEF EditorInv, EditorTypes, EditorFlow, Editor!NoFlow, Editor!RunState,
                              EditorPage, FlowAt, Editor!NoRun
    <3>3. UNCHANGED <<server, stored, mount, lost, ask, orphan, missed>>
      OBVIOUS
    <3>. QED
      BY ONLY EditorInv, <3>1, <3>2, <3>3 DEF EditorInv, EditorTypes
  <2>2. \A g \in Editor!Flow : FlowAt(g)'
    BY EditorNames DEF EditorInv, EditorTypes, EditorPage, EditorFlow, EditorAsk, FlowAt,
                       Editor!RunState, Editor!NoFlow
  <2>3. Following'
    BY EditorNames DEF EditorInv, EditorTypes, EditorPage, EditorFlow, EditorAsk, FlowAt,
                       Following, FollowedBy, Mine, PageAt, AskAt, Editor!Mounted
  <2>4. PageAt'
    BY EditorNames DEF EditorInv, EditorTypes, EditorPage, EditorFlow, EditorAsk, FlowAt,
                       Following, FollowedBy, Mine, PageAt, AskAt, Editor!Mounted
  <2>5. \A n \in Editor!Mount : AskAt(n)'
    BY EditorNames DEF EditorInv, EditorTypes, EditorPage, EditorFlow, EditorAsk, PageAt, AskAt,
                       Following, FollowedBy, Mine
  <2>6. ReviewAt'
    BY EditorNames DEF EditorInv, EditorTypes, EditorPage, EditorFlow, EditorAsk, PageAt, AskAt,
                       ReviewAt, Following, FollowedBy, Mine, Editor!Mounted
  <2>7. Editor!NoRunForgotten'
    BY EditorNames DEF EditorInv, EditorTypes, EditorPage, EditorFlow, EditorAsk, FlowAt, PageAt,
                       Following, FollowedBy, Mine, Editor!NoRunForgotten, Editor!Tracked,
                       Editor!Live, Editor!Mounted
  <2>. QED
    BY ONLY <2>1, <2>2, <2>3, <2>4, <2>5, <2>6, <2>7 DEF EditorInv
<1>11. ASSUME Editor!Close(f) PROVE EditorInv'
  <2> USE <1>11 DEF Editor!Close, Editor!Changes, Editor!NoFlow
  <2>1. EditorTypes'
    <3>1. page' \in EditorPage
      BY EditorAssumption DEF EditorInv, EditorTypes, EditorPage, EditorFlow, Editor!RunState,
                              EditorAsk, FlowAt, AskAt, Editor!NoRun
    <3>2. flow' \in [Editor!Flow -> EditorFlow]
      BY EditorAssumption DEF EditorInv, EditorTypes, EditorFlow, Editor!NoFlow, Editor!RunState,
                              EditorPage, FlowAt, Editor!NoRun
    <3>3. UNCHANGED <<server, stored, mount, lost, ask, orphan, missed>>
      OBVIOUS
    <3>. QED
      BY ONLY EditorInv, <3>1, <3>2, <3>3 DEF EditorInv, EditorTypes
  <2>2. \A g \in Editor!Flow : FlowAt(g)'
    BY EditorNames DEF EditorInv, EditorTypes, EditorPage, EditorFlow, EditorAsk, FlowAt,
                       Editor!RunState, Editor!NoFlow
  <2>3. Following'
    BY EditorNames DEF EditorInv, EditorTypes, EditorPage, EditorFlow, EditorAsk, FlowAt,
                       Following, FollowedBy, Mine, PageAt, AskAt, Editor!Mounted
  <2>4. PageAt'
    BY EditorNames DEF EditorInv, EditorTypes, EditorPage, EditorFlow, EditorAsk, FlowAt,
                       Following, FollowedBy, Mine, PageAt, AskAt, Editor!Mounted
  <2>5. \A n \in Editor!Mount : AskAt(n)'
    BY EditorNames DEF EditorInv, EditorTypes, EditorPage, EditorFlow, EditorAsk, PageAt, AskAt,
                       Following, FollowedBy, Mine
  <2>6. ReviewAt'
    BY EditorNames DEF EditorInv, EditorTypes, EditorPage, EditorFlow, EditorAsk, PageAt, AskAt,
                       ReviewAt, Following, FollowedBy, Mine, Editor!Mounted
  <2>7. Editor!NoRunForgotten'
    BY EditorNames DEF EditorInv, EditorTypes, EditorPage, EditorFlow, EditorAsk, FlowAt, PageAt,
                       Following, FollowedBy, Mine, Editor!NoRunForgotten, Editor!Tracked,
                       Editor!Live, Editor!Mounted
  <2>. QED
    BY ONLY <2>1, <2>2, <2>3, <2>4, <2>5, <2>6, <2>7 DEF EditorInv
<1>12. ASSUME Editor!PollLost(f) PROVE EditorInv'
  <2> USE <1>12 DEF Editor!PollLost, Editor!Changes, Editor!NoFlow
  <2>1. EditorTypes'
    <3>1. lost' \in 0..MaxLost
      BY EditorAssumption DEF EditorInv, EditorTypes
    <3>2. page' \in EditorPage
      BY EditorAssumption DEF EditorInv, EditorTypes, EditorPage, EditorFlow, Editor!RunState,
                              EditorAsk, FlowAt, AskAt, Editor!NoRun
    <3>3. flow' \in [Editor!Flow -> EditorFlow]
      BY EditorAssumption DEF EditorInv, EditorTypes, EditorFlow, Editor!NoFlow, Editor!RunState,
                              EditorPage, FlowAt, Editor!NoRun
    <3>4. UNCHANGED <<server, stored, mount, ask, orphan, missed>>
      OBVIOUS
    <3>. QED
      BY ONLY EditorInv, <3>1, <3>2, <3>3, <3>4 DEF EditorInv, EditorTypes
  <2>2. \A g \in Editor!Flow : FlowAt(g)'
    BY EditorNames DEF EditorInv, EditorTypes, EditorPage, EditorFlow, EditorAsk, FlowAt,
                       Editor!RunState, Editor!NoFlow
  <2>3. Following'
    BY EditorNames DEF EditorInv, EditorTypes, EditorPage, EditorFlow, EditorAsk, FlowAt,
                       Following, FollowedBy, Mine, PageAt, AskAt, Editor!Mounted
  <2>4. PageAt'
    BY EditorNames DEF EditorInv, EditorTypes, EditorPage, EditorFlow, EditorAsk, FlowAt,
                       Following, FollowedBy, Mine, PageAt, AskAt, Editor!Mounted
  <2>5. \A n \in Editor!Mount : AskAt(n)'
    BY EditorNames DEF EditorInv, EditorTypes, EditorPage, EditorFlow, EditorAsk, PageAt, AskAt,
                       Following, FollowedBy, Mine
  <2>6. ReviewAt'
    BY EditorNames DEF EditorInv, EditorTypes, EditorPage, EditorFlow, EditorAsk, PageAt, AskAt,
                       ReviewAt, Following, FollowedBy, Mine, Editor!Mounted
  <2>7. Editor!NoRunForgotten'
    BY EditorNames DEF EditorInv, EditorTypes, EditorPage, EditorFlow, EditorAsk, FlowAt, PageAt,
                       Following, FollowedBy, Mine, Editor!NoRunForgotten, Editor!Tracked,
                       Editor!Live, Editor!Mounted
  <2>. QED
    BY ONLY <2>1, <2>2, <2>3, <2>4, <2>5, <2>6, <2>7 DEF EditorInv
<1>13. ASSUME Editor!ResumeTracking(f) PROVE EditorInv'
  <2> USE <1>13 DEF Editor!ResumeTracking, Editor!Begins, Editor!Monitor, Editor!Aborted,
                    Editor!NoFlow
  <2>1. EditorTypes'
    <3>1. page' \in EditorPage
      BY EditorAssumption DEF EditorInv, EditorTypes, EditorPage, EditorFlow, Editor!RunState,
                              EditorAsk, FlowAt, AskAt, Editor!NoRun
    <3>2. flow' \in [Editor!Flow -> EditorFlow]
      <4>1. Editor!NoFlow \in EditorFlow
        BY NothingTyped
      <4>2. [Editor!NoFlow EXCEPT !.pc = "poll", !.mount = mount,
          !.run = page.snapshot] \in EditorFlow
        BY <4>1 DEF EditorInv, EditorTypes, EditorFlow, EditorPage, PageAt
      <4>. QED
        BY ONLY EditorInv, f \in Editor!Flow, <4>1, <4>2,
                flow' = Editor!Monitor(f, page.snapshot)
        DEF EditorInv, EditorTypes, Editor!Monitor, Editor!Aborted
    <3>3. UNCHANGED <<server, stored, mount, lost, ask, orphan, missed>>
      OBVIOUS
    <3>. QED
      BY ONLY EditorInv, <3>1, <3>2, <3>3 DEF EditorInv, EditorTypes
  <2>2. \A g \in Editor!Flow : FlowAt(g)'
    <3>1. page.snapshot \in Editor!Run
      BY DEF EditorInv, EditorTypes, EditorPage
    <3>2. mount' = mount /\ server' = server /\ mount \in 0..MaxMounts
      BY DEF EditorInv, EditorTypes
    <3>3. ASSUME NEW g \in Editor!Flow PROVE FlowAt(g)'
      <4>1. CASE g = f
        <5>1. flow'[f] = [Editor!NoFlow EXCEPT !.pc = "poll", !.mount = mount, !.run = page.snapshot]
          BY DEF EditorInv, EditorTypes
        <5>. QED
          BY ONLY <3>1, <3>2, <4>1, <5>1 DEF FlowAt, Editor!NoFlow
      <4>2. CASE g # f
        <5>1. flow'[g] \in {flow[g], Editor!NoFlow}
          BY <4>2 DEF EditorInv, EditorTypes
        <5>2. FlowAt(g)
          BY DEF EditorInv
        <5>. QED
          BY ONLY EditorAssumption, <3>2, <5>1, <5>2 DEF FlowAt, Editor!NoFlow
      <4>. QED
        BY ONLY <4>1, <4>2
    <3>. QED
      BY ONLY <3>3
  <2>3. Following'
    BY EditorNames DEF EditorInv, EditorTypes, EditorPage, EditorFlow, EditorAsk, FlowAt,
                       Following, FollowedBy, Mine, PageAt, AskAt, Editor!Mounted
  <2>4. PageAt'
    BY EditorNames DEF EditorInv, EditorTypes, EditorPage, EditorFlow, EditorAsk, FlowAt,
                       Following, FollowedBy, Mine, PageAt, AskAt, Editor!Mounted
  <2>5. \A n \in Editor!Mount : AskAt(n)'
    BY EditorNames DEF EditorInv, EditorTypes, EditorPage, EditorFlow, EditorAsk, PageAt, AskAt,
                       Following, FollowedBy, Mine
  <2>6. ReviewAt'
    BY EditorNames DEF EditorInv, EditorTypes, EditorPage, EditorFlow, EditorAsk, PageAt, AskAt,
                       ReviewAt, Following, FollowedBy, Mine, Editor!Mounted
  <2>7. Editor!NoRunForgotten'
    BY EditorNames DEF EditorInv, EditorTypes, EditorPage, EditorFlow, EditorAsk, FlowAt, PageAt,
                       Following, FollowedBy, Mine, Editor!NoRunForgotten, Editor!Tracked,
                       Editor!Live, Editor!Mounted
  <2>. QED
    BY ONLY <2>1, <2>2, <2>3, <2>4, <2>5, <2>6, <2>7 DEF EditorInv
<1>14. ASSUME Editor!Answered(f) PROVE EditorInv'
    BY <1>7, <1>8, <1>9, <1>10, <1>14 DEF Editor!Answered
<1>. QED
    BY <1>1, <1>2, <1>3, <1>4, <1>5, <1>6, <1>7, <1>8, <1>9, <1>10, <1>11, <1>12, <1>13, <1>14

\* A cancel or resume request is made, served, answered or lost.
LEMMA AskKeeps ==
    ASSUME EditorInv
    PROVE  /\ Editor!Reconnect \/ Editor!RequestCancel \/ Editor!RequestResume => EditorInv'
           /\ \A m \in Editor!Mount :
                Editor!AskAtServer(m) \/ Editor!AskAnswered(m) \/ Editor!AskLost(m) => EditorInv'
<1>1. ASSUME NEW m \in Editor!Mount, ask[m].pc = "sent", ask' = [ask EXCEPT ![m].pc = "answered"],
             UNCHANGED <<server, page, stored, mount, flow, lost, orphan, missed>> PROVE EditorInv'
  <2> USE <1>1
  <2>1. EditorTypes'
    <3>1. ask' \in [Editor!Mount -> EditorAsk]
      BY EditorAssumption DEF EditorInv, EditorTypes, EditorAsk, Editor!NoRequest, EditorPage,
                              Editor!NoRun
    <3>2. UNCHANGED <<server, page, stored, mount, lost, flow, orphan, missed>>
      OBVIOUS
    <3>. QED
      BY ONLY EditorInv, <3>1, <3>2 DEF EditorInv, EditorTypes
  <2>2. \A g \in Editor!Flow : FlowAt(g)'
    BY EditorNames DEF EditorInv, EditorTypes, EditorPage, EditorFlow, EditorAsk, FlowAt,
                       Editor!RunState, Editor!NoFlow
  <2>3. Following'
    BY EditorNames DEF EditorInv, EditorTypes, EditorPage, EditorFlow, EditorAsk, FlowAt,
                       Following, FollowedBy, Mine, PageAt, AskAt, Editor!Mounted
  <2>4. PageAt'
    BY EditorNames DEF EditorInv, EditorTypes, EditorPage, EditorFlow, EditorAsk, FlowAt,
                       Following, FollowedBy, Mine, PageAt, AskAt, Editor!Mounted
  <2>5. \A n \in Editor!Mount : AskAt(n)'
    BY EditorNames DEF EditorInv, EditorTypes, EditorPage, EditorFlow, EditorAsk, PageAt, AskAt,
                       Following, FollowedBy, Mine
  <2>6. ReviewAt'
    BY EditorNames DEF EditorInv, EditorTypes, EditorPage, EditorFlow, EditorAsk, PageAt, AskAt,
                       ReviewAt, Following, FollowedBy, Mine, Editor!Mounted
  <2>7. Editor!NoRunForgotten'
    BY EditorNames DEF EditorInv, EditorTypes, EditorPage, EditorFlow, EditorAsk, FlowAt, PageAt,
                       Following, FollowedBy, Mine, Editor!NoRunForgotten, Editor!Tracked,
                       Editor!Live, Editor!Mounted
  <2>. QED
    BY ONLY <2>1, <2>2, <2>3, <2>4, <2>5, <2>6, <2>7 DEF EditorInv
<1>2. ASSUME NEW m \in Editor!Mount, NEW end \in {"active", "ended"}, ask[m].pc = "sent",
             server[ask[m].run].status \in {"active", "paused"},
             server' = [server EXCEPT ![ask[m].run].status = end],
             ask' = [ask EXCEPT ![m].pc = "answered", ![m].ok = TRUE],
             missed' = IF ask[m].running \/ ~page.on \/ m # mount THEN missed \cup {ask[m].run} ELSE missed,
             UNCHANGED <<page, stored, mount, flow, lost, orphan>> PROVE EditorInv'
  <2> USE <1>2
  <2>0. ask[m].run \in Editor!Run
    BY DEF EditorInv, AskAt
  <2>1. EditorTypes'
    <3>1. server' \in [Editor!Run -> Editor!RunState]
      <4>1. ASSUME NEW s \in Editor!RunState PROVE [s EXCEPT !.status = end] \in Editor!RunState
        BY DEF Editor!RunState
      <4>2. server' = [server EXCEPT ![ask[m].run] = [server[ask[m].run] EXCEPT !.status = end]]
        OBVIOUS
      <4>. QED
        BY ONLY EditorInv, <2>0, <4>1, <4>2 DEF EditorInv, EditorTypes
    <3>2. ask' \in [Editor!Mount -> EditorAsk]
      <4>1. ASSUME NEW s \in EditorAsk
            PROVE  [s EXCEPT !.pc = "answered", !.ok = TRUE] \in EditorAsk
        BY DEF EditorAsk
      <4>2. ask' = [ask EXCEPT ![m] = [ask[m] EXCEPT !.pc = "answered", !.ok = TRUE]]
        OBVIOUS
      <4>. QED
        BY ONLY EditorInv, m \in Editor!Mount, <4>1, <4>2 DEF EditorInv, EditorTypes
    <3>3. missed' \subseteq Editor!Run
      BY <2>0 DEF EditorInv, EditorTypes
    <3>4. UNCHANGED <<page, stored, mount, lost, flow, orphan>>
      OBVIOUS
    <3>. QED
      BY ONLY EditorInv, <3>1, <3>2, <3>3, <3>4 DEF EditorInv, EditorTypes
  <2>2. \A g \in Editor!Flow : FlowAt(g)'
    BY EditorNames DEF EditorInv, EditorTypes, EditorPage, EditorFlow, EditorAsk, FlowAt,
                       Editor!RunState, Editor!NoFlow
  <2>3. Following'
    BY EditorNames DEF EditorInv, EditorTypes, EditorPage, EditorFlow, EditorAsk, FlowAt,
                       Following, FollowedBy, Mine, PageAt, AskAt, Editor!Mounted
  <2>4. PageAt'
    BY EditorNames DEF EditorInv, EditorTypes, EditorPage, EditorFlow, EditorAsk, FlowAt,
                       Following, FollowedBy, Mine, PageAt, AskAt, Editor!Mounted
  <2>5. \A n \in Editor!Mount : AskAt(n)'
    BY EditorNames DEF EditorInv, EditorTypes, EditorPage, EditorFlow, EditorAsk, PageAt, AskAt,
                       Following, FollowedBy, Mine
  <2>6. ReviewAt'
    BY EditorNames DEF EditorInv, EditorTypes, EditorPage, EditorFlow, EditorAsk, PageAt, AskAt,
                       ReviewAt, Following, FollowedBy, Mine, Editor!Mounted
  <2>7. Editor!NoRunForgotten'
    BY EditorNames DEF EditorInv, EditorTypes, EditorPage, EditorFlow, EditorAsk, FlowAt, PageAt,
                       Following, FollowedBy, Mine, Editor!NoRunForgotten, Editor!Tracked,
                       Editor!Live, Editor!Mounted
  <2>. QED
    BY ONLY <2>1, <2>2, <2>3, <2>4, <2>5, <2>6, <2>7 DEF EditorInv
<1>3. ASSUME NEW m \in Editor!Mount, Editor!AskAnswered(m) PROVE EditorInv'
  <2> USE <1>3 DEF Editor!AskAnswered, Editor!NoRequest, Editor!NoReview
  <2>a. ~(page.on /\ m = mount) => page' = page
    OBVIOUS
  <2>b. page.on /\ m = mount /\ ask[m].ok /\ ~ask[m].running =>
            page' = [page EXCEPT !.pending = FALSE, !.paused = Editor!NoReview,
                !.snapshot = ask[m].run]
    OBVIOUS
  <2>c. page.on /\ m = mount /\ ~(ask[m].ok /\ ~ask[m].running) => page' = [page EXCEPT !.pending = FALSE]
    OBVIOUS
  <2>1. EditorTypes'
    <3>1. page' \in EditorPage
      <4>1. ASSUME NEW s \in EditorPage, NEW r \in Editor!Run
            PROVE  /\ [s EXCEPT !.pending = FALSE] \in EditorPage
                   /\ [s EXCEPT !.pending = FALSE, !.paused = Editor!NoReview,
                       !.snapshot = r] \in EditorPage
        BY NothingTyped DEF EditorPage
      <4>2. page \in EditorPage /\ ask[m].run \in Editor!Run
        BY DEF EditorInv, EditorTypes, AskAt
      <4>. QED
        BY <2>a, <2>b, <2>c, <4>1, <4>2
    <3>2. ask' \in [Editor!Mount -> EditorAsk]
      BY EditorAssumption DEF EditorInv, EditorTypes, EditorAsk, Editor!NoRequest, EditorPage,
                              Editor!NoRun
    <3>3. UNCHANGED <<server, stored, mount, lost, flow, orphan, missed>>
      OBVIOUS
    <3>. QED
      BY ONLY EditorInv, <3>1, <3>2, <3>3 DEF EditorInv, EditorTypes
  <2>2. \A g \in Editor!Flow : FlowAt(g)'
    BY EditorNames DEF EditorInv, EditorTypes, EditorPage, EditorFlow, EditorAsk, FlowAt,
                       Editor!RunState, Editor!NoFlow
  <2>3. Following'
    BY EditorNames DEF EditorInv, EditorTypes, EditorPage, EditorFlow, EditorAsk, FlowAt,
                       Following, FollowedBy, Mine, PageAt, AskAt, Editor!Mounted
  <2>4. PageAt'
    BY EditorNames DEF EditorInv, EditorTypes, EditorPage, EditorFlow, EditorAsk, FlowAt,
                       Following, FollowedBy, Mine, PageAt, AskAt, Editor!Mounted
  <2>5. \A n \in Editor!Mount : AskAt(n)'
    BY EditorNames DEF EditorInv, EditorTypes, EditorPage, EditorFlow, EditorAsk, PageAt, AskAt,
                       Following, FollowedBy, Mine
  <2>6. ReviewAt'
    <3> SUFFICES ASSUME page'.paused # Editor!NoReview, page'.active \notin missed'
                 PROVE  server[page.active].status = "paused" \/ (ask'[mount].ok /\ ~ask'[mount].running)
      BY DEF ReviewAt, EditorInv, EditorTypes, EditorPage
    <3>1. page.paused # Editor!NoReview /\ page.active \notin missed /\ page'.active = page.active
      BY DEF EditorInv, EditorTypes, EditorPage
    <3>2. page.on /\ mount \in Editor!Mount
      BY <3>1 DEF EditorInv, PageAt, Editor!Closed, Editor!NoReview
    <3>3. server[page.active].status = "paused" \/ (ask[mount].ok /\ ~ask[mount].running)
      BY <3>1 DEF EditorInv, ReviewAt
    <3>4. m = mount => ~(ask[mount].ok /\ ~ask[mount].running)
      BY <3>1, <3>2 DEF EditorInv, AskAt, EditorTypes, EditorPage, EditorAsk
    <3>5. m # mount => ask'[mount] = ask[mount]
      BY <3>2 DEF EditorInv, EditorTypes
    <3>. QED
      BY <3>3, <3>4, <3>5
  <2>7. Editor!NoRunForgotten'
    BY EditorNames DEF EditorInv, EditorTypes, EditorPage, EditorFlow, EditorAsk, FlowAt, PageAt,
                       Following, FollowedBy, Mine, Editor!NoRunForgotten, Editor!Tracked,
                       Editor!Live, Editor!Mounted
  <2>. QED
    BY ONLY <2>1, <2>2, <2>3, <2>4, <2>5, <2>6, <2>7 DEF EditorInv
<1>4. ASSUME NEW m \in Editor!Mount, Editor!AskLost(m) PROVE EditorInv'
  <2> USE <1>4 DEF Editor!AskLost, Editor!NoRequest
  <2>1. EditorTypes'
    <3>1. lost' \in 0..MaxLost
      BY EditorAssumption DEF EditorInv, EditorTypes
    <3>2. page' \in EditorPage
      BY EditorAssumption DEF EditorInv, EditorTypes, EditorPage, EditorFlow, Editor!RunState,
                              EditorAsk, FlowAt, AskAt, Editor!NoRun
    <3>3. missed' \subseteq Editor!Run
      BY EditorAssumption DEF EditorInv, EditorTypes, AskAt, EditorAsk
    <3>4. ask' \in [Editor!Mount -> EditorAsk]
      BY EditorAssumption DEF EditorInv, EditorTypes, EditorAsk, Editor!NoRequest, EditorPage,
                              Editor!NoRun
    <3>5. UNCHANGED <<server, stored, mount, flow, orphan>>
      OBVIOUS
    <3>. QED
      BY ONLY EditorInv, <3>1, <3>2, <3>3, <3>4, <3>5 DEF EditorInv, EditorTypes
  <2>2. \A g \in Editor!Flow : FlowAt(g)'
    BY EditorNames DEF EditorInv, EditorTypes, EditorPage, EditorFlow, EditorAsk, FlowAt,
                       Editor!RunState, Editor!NoFlow
  <2>3. Following'
    BY EditorNames DEF EditorInv, EditorTypes, EditorPage, EditorFlow, EditorAsk, FlowAt,
                       Following, FollowedBy, Mine, PageAt, AskAt, Editor!Mounted
  <2>4. PageAt'
    BY EditorNames DEF EditorInv, EditorTypes, EditorPage, EditorFlow, EditorAsk, FlowAt,
                       Following, FollowedBy, Mine, PageAt, AskAt, Editor!Mounted
  <2>5. \A n \in Editor!Mount : AskAt(n)'
    BY EditorNames DEF EditorInv, EditorTypes, EditorPage, EditorFlow, EditorAsk, PageAt, AskAt,
                       Following, FollowedBy, Mine
  <2>6. ReviewAt'
    <3> SUFFICES ASSUME page'.paused # Editor!NoReview, page'.active \notin missed'
                 PROVE  server[page.active].status = "paused" \/ (ask'[mount].ok /\ ~ask'[mount].running)
      BY DEF ReviewAt, EditorInv, EditorTypes, EditorPage
    <3>1. page.paused # Editor!NoReview /\ page.active \notin missed /\ page'.active = page.active
      BY DEF EditorInv, EditorTypes, EditorPage
    <3>2. page.on /\ mount \in Editor!Mount
      BY <3>1 DEF EditorInv, PageAt, Editor!Closed, Editor!NoReview
    <3>3. server[page.active].status = "paused" \/ (ask[mount].ok /\ ~ask[mount].running)
      BY <3>1 DEF EditorInv, ReviewAt
    <3>4. m = mount => ~(ask[mount].ok /\ ~ask[mount].running)
      BY <3>1, <3>2 DEF EditorInv, AskAt, EditorTypes, EditorPage, EditorAsk
    <3>5. m # mount => ask'[mount] = ask[mount]
      BY <3>2 DEF EditorInv, EditorTypes
    <3>. QED
      BY <3>3, <3>4, <3>5
  <2>7. Editor!NoRunForgotten'
    BY EditorNames DEF EditorInv, EditorTypes, EditorPage, EditorFlow, EditorAsk, FlowAt, PageAt,
                       Following, FollowedBy, Mine, Editor!NoRunForgotten, Editor!Tracked,
                       Editor!Live, Editor!Mounted
  <2>. QED
    BY ONLY <2>1, <2>2, <2>3, <2>4, <2>5, <2>6, <2>7 DEF EditorInv
<1>5. ASSUME Editor!Reconnect PROVE EditorInv'
  <2> USE <1>5 DEF Editor!Reconnect, Editor!Rendered
  <2>1. EditorTypes'
    BY EditorNames DEF EditorInv, EditorTypes, EditorPage, EditorFlow, EditorAsk, Editor!RunState
  <2>2. \A g \in Editor!Flow : FlowAt(g)'
    BY EditorNames DEF EditorInv, EditorTypes, EditorPage, EditorFlow, EditorAsk, FlowAt,
                       Editor!RunState, Editor!NoFlow
  <2>3. Following'
    BY EditorNames DEF EditorInv, EditorTypes, EditorPage, EditorFlow, EditorAsk, FlowAt,
                       Following, FollowedBy, Mine, PageAt, AskAt, Editor!Mounted
  <2>4. PageAt'
    BY EditorNames DEF EditorInv, EditorTypes, EditorPage, EditorFlow, EditorAsk, FlowAt,
                       Following, FollowedBy, Mine, PageAt, AskAt, Editor!Mounted
  <2>5. \A n \in Editor!Mount : AskAt(n)'
    BY EditorNames DEF EditorInv, EditorTypes, EditorPage, EditorFlow, EditorAsk, PageAt, AskAt,
                       Following, FollowedBy, Mine
  <2>6. ReviewAt'
    BY EditorNames DEF EditorInv, EditorTypes, EditorPage, EditorFlow, EditorAsk, PageAt, AskAt,
                       ReviewAt, Following, FollowedBy, Mine, Editor!Mounted
  <2>7. Editor!NoRunForgotten'
    BY EditorNames DEF EditorInv, EditorTypes, EditorPage, EditorFlow, EditorAsk, FlowAt, PageAt,
                       Following, FollowedBy, Mine, Editor!NoRunForgotten, Editor!Tracked,
                       Editor!Live, Editor!Mounted
  <2>. QED
    BY ONLY <2>1, <2>2, <2>3, <2>4, <2>5, <2>6, <2>7 DEF EditorInv
<1>6. ASSUME Editor!RequestCancel PROVE EditorInv'
  <2> USE <1>6 DEF Editor!RequestCancel, Editor!Rendered, Editor!NoRequest
  <2>1. EditorTypes'
    <3>1. page' \in EditorPage
      BY EditorAssumption DEF EditorInv, EditorTypes, EditorPage, EditorFlow, Editor!RunState,
                              EditorAsk, FlowAt, AskAt, Editor!NoRun
    <3>2. ask' \in [Editor!Mount -> EditorAsk]
      <4>1. Editor!NoRequest \in EditorAsk
        BY NothingTyped
      <4>2. [Editor!NoRequest EXCEPT !.pc = "sent", !.run = page.active,
          !.running = page.running] \in EditorAsk
        BY <4>1 DEF EditorInv, EditorTypes, EditorAsk, EditorPage
      <4>. QED
        BY <4>2 DEF EditorInv, EditorTypes
    <3>3. UNCHANGED <<server, stored, mount, lost, flow, orphan, missed>>
      OBVIOUS
    <3>. QED
      BY ONLY EditorInv, <3>1, <3>2, <3>3 DEF EditorInv, EditorTypes
  <2>2. \A g \in Editor!Flow : FlowAt(g)'
    BY EditorNames DEF EditorInv, EditorTypes, EditorPage, EditorFlow, EditorAsk, FlowAt,
                       Editor!RunState, Editor!NoFlow
  <2>3. Following'
    BY EditorNames DEF EditorInv, EditorTypes, EditorPage, EditorFlow, EditorAsk, FlowAt,
                       Following, FollowedBy, Mine, PageAt, AskAt, Editor!Mounted
  <2>4. PageAt'
    BY EditorNames DEF EditorInv, EditorTypes, EditorPage, EditorFlow, EditorAsk, FlowAt,
                       Following, FollowedBy, Mine, PageAt, AskAt, Editor!Mounted
  <2>5. \A n \in Editor!Mount : AskAt(n)'
    BY EditorNames DEF EditorInv, EditorTypes, EditorPage, EditorFlow, EditorAsk, PageAt, AskAt,
                       Following, FollowedBy, Mine
  <2>6. ReviewAt'
    BY EditorNames DEF EditorInv, EditorTypes, EditorPage, EditorFlow, EditorAsk, PageAt, AskAt,
                       ReviewAt, Following, FollowedBy, Mine, Editor!Mounted
  <2>7. Editor!NoRunForgotten'
    BY EditorNames DEF EditorInv, EditorTypes, EditorPage, EditorFlow, EditorAsk, FlowAt, PageAt,
                       Following, FollowedBy, Mine, Editor!NoRunForgotten, Editor!Tracked,
                       Editor!Live, Editor!Mounted
  <2>. QED
    BY ONLY <2>1, <2>2, <2>3, <2>4, <2>5, <2>6, <2>7 DEF EditorInv
<1>7. ASSUME Editor!RequestResume PROVE EditorInv'
  <2> USE <1>7 DEF Editor!RequestResume, Editor!Rendered, Editor!NoRequest
  <2>1. EditorTypes'
    BY EditorNames DEF EditorInv, EditorTypes, EditorPage, EditorFlow, EditorAsk, Editor!RunState
  <2>2. \A g \in Editor!Flow : FlowAt(g)'
    BY EditorNames DEF EditorInv, EditorTypes, EditorPage, EditorFlow, EditorAsk, FlowAt,
                       Editor!RunState, Editor!NoFlow
  <2>3. Following'
    BY EditorNames DEF EditorInv, EditorTypes, EditorPage, EditorFlow, EditorAsk, FlowAt,
                       Following, FollowedBy, Mine, PageAt, AskAt, Editor!Mounted
  <2>4. PageAt'
    BY EditorNames DEF EditorInv, EditorTypes, EditorPage, EditorFlow, EditorAsk, FlowAt,
                       Following, FollowedBy, Mine, PageAt, AskAt, Editor!Mounted
  <2>5. \A n \in Editor!Mount : AskAt(n)'
    BY EditorNames DEF EditorInv, EditorTypes, EditorPage, EditorFlow, EditorAsk, PageAt, AskAt,
                       Following, FollowedBy, Mine
  <2>6. ReviewAt'
    BY EditorNames DEF EditorInv, EditorTypes, EditorPage, EditorFlow, EditorAsk, PageAt, AskAt,
                       ReviewAt, Following, FollowedBy, Mine, Editor!Mounted
  <2>7. Editor!NoRunForgotten'
    BY EditorNames DEF EditorInv, EditorTypes, EditorPage, EditorFlow, EditorAsk, FlowAt, PageAt,
                       Following, FollowedBy, Mine, Editor!NoRunForgotten, Editor!Tracked,
                       Editor!Live, Editor!Mounted
  <2>. QED
    BY ONLY <2>1, <2>2, <2>3, <2>4, <2>5, <2>6, <2>7 DEF EditorInv
<1>8. ASSUME NEW m \in Editor!Mount, Editor!AskAtServer(m) PROVE EditorInv'
  <2>1. CASE Editor!Outcome(ask[m]) = {} /\ ask' = [ask EXCEPT ![m].pc = "answered"]
             /\ UNCHANGED <<server, missed>>
    BY <1>1, <1>8, <2>1 DEF Editor!AskAtServer
  <2>2. ASSUME NEW end \in Editor!Outcome(ask[m]),
               server' = [server EXCEPT ![ask[m].run].status = end],
               ask' = [ask EXCEPT ![m].pc = "answered", ![m].ok = TRUE],
               missed' = IF ask[m].running \/ ~page.on \/ m # mount
                         THEN missed \cup {ask[m].run} ELSE missed
        PROVE  EditorInv'
    <3>1. end \in {"active", "ended"} /\ server[ask[m].run].status \in {"active", "paused"}
      BY <2>2 DEF Editor!Outcome
    <3>2. ask[m].pc = "sent" /\ UNCHANGED <<page, stored, mount, flow, lost, orphan>>
      BY <1>8 DEF Editor!AskAtServer
    <3>. QED
      BY ONLY <1>2, <2>2, <3>1, <3>2, m \in Editor!Mount
  <2>. QED
    BY <1>8, <2>1, <2>2 DEF Editor!AskAtServer
<1>. QED
    BY <1>1, <1>2, <1>3, <1>4, <1>5, <1>6, <1>7, <1>8

\* The page is saved, opened, left and reloaded.
LEMMA PageKeeps ==
    ASSUME EditorInv
    PROVE  Editor!Autosave \/ Editor!Open \/ Editor!Leave \/ Editor!Reload => EditorInv'
<1>1. ASSUME Editor!Autosave PROVE EditorInv'
  <2> USE <1>1 DEF Editor!Autosave
  <2>1. EditorTypes'
    BY EditorNames DEF EditorInv, EditorTypes, EditorPage, EditorFlow, EditorAsk, Editor!RunState
  <2>2. \A g \in Editor!Flow : FlowAt(g)'
    BY EditorNames DEF EditorInv, EditorTypes, EditorPage, EditorFlow, EditorAsk, FlowAt,
                       Editor!RunState, Editor!NoFlow
  <2>3. Following'
    BY EditorNames DEF EditorInv, EditorTypes, EditorPage, EditorFlow, EditorAsk, FlowAt,
                       Following, FollowedBy, Mine, PageAt, AskAt, Editor!Mounted
  <2>4. PageAt'
    BY EditorNames DEF EditorInv, EditorTypes, EditorPage, EditorFlow, EditorAsk, FlowAt,
                       Following, FollowedBy, Mine, PageAt, AskAt, Editor!Mounted
  <2>5. \A n \in Editor!Mount : AskAt(n)'
    BY EditorNames DEF EditorInv, EditorTypes, EditorPage, EditorFlow, EditorAsk, PageAt, AskAt,
                       Following, FollowedBy, Mine
  <2>6. ReviewAt'
    BY EditorNames DEF EditorInv, EditorTypes, EditorPage, EditorFlow, EditorAsk, PageAt, AskAt,
                       ReviewAt, Following, FollowedBy, Mine, Editor!Mounted
  <2>7. Editor!NoRunForgotten'
    BY EditorNames DEF EditorInv, EditorTypes, EditorPage, EditorFlow, EditorAsk, FlowAt, PageAt,
                       Following, FollowedBy, Mine, Editor!NoRunForgotten, Editor!Tracked,
                       Editor!Live, Editor!Mounted
  <2>. QED
    BY ONLY <2>1, <2>2, <2>3, <2>4, <2>5, <2>6, <2>7 DEF EditorInv
<1>2. ASSUME Editor!Open PROVE EditorInv'
  <2> USE <1>2 DEF Editor!Open, Editor!Closed, Editor!NoReview
  <2>0. /\ mount' = mount + 1 /\ mount' \in Editor!Mount /\ mount \in 0..MaxMounts
        /\ stored \in Editor!Run \cup {Editor!NoRun}
    BY EditorAssumption DEF EditorInv, EditorTypes, Editor!Mount
  <2>1. EditorTypes'
    <3>1. mount' \in 0..MaxMounts
      BY EditorAssumption DEF EditorInv, EditorTypes, Editor!Mount
    <3>2. page' \in EditorPage
      BY NothingTyped DEF EditorInv, EditorTypes, EditorPage
    <3>3. UNCHANGED <<server, stored, lost, flow, ask, orphan, missed>>
      OBVIOUS
    <3>. QED
      BY ONLY EditorInv, <3>1, <3>2, <3>3 DEF EditorInv, EditorTypes
  <2>2. \A g \in Editor!Flow : FlowAt(g)'
    BY EditorNames DEF EditorInv, EditorTypes, EditorPage, EditorFlow, EditorAsk, FlowAt,
                       Editor!RunState, Editor!NoFlow
  <2>3. Following'
    BY EditorNames DEF EditorInv, EditorTypes, EditorPage, EditorFlow, EditorAsk, FlowAt,
                       Following, FollowedBy, Mine, PageAt, AskAt, Editor!Mounted
  <2>4. PageAt'
    BY EditorNames, <2>0, NothingTyped DEF PageAt, EditorPage
  <2>5. \A n \in Editor!Mount : AskAt(n)'
    <3> SUFFICES ASSUME NEW n \in Editor!Mount PROVE AskAt(n)'
      OBVIOUS
    <3>1. ask[n].pc # "off" => n <= mount /\ ask[n].run \in Editor!Run
      BY DEF EditorInv, AskAt
    <3>2. n \in Nat
      BY DEF Editor!Mount
    <3>. QED
      BY <2>0, <3>1, <3>2 DEF AskAt, EditorInv
  <2>6. ReviewAt'
    BY EditorNames DEF EditorInv, EditorTypes, EditorPage, EditorFlow, EditorAsk, PageAt, AskAt,
                       ReviewAt, Following, FollowedBy, Mine, Editor!Mounted
  <2>7. Editor!NoRunForgotten'
    BY EditorNames DEF EditorInv, EditorTypes, EditorPage, EditorFlow, EditorAsk, FlowAt, PageAt,
                       Following, FollowedBy, Mine, Editor!NoRunForgotten, Editor!Tracked,
                       Editor!Live, Editor!Mounted
  <2>. QED
    BY ONLY <2>1, <2>2, <2>3, <2>4, <2>5, <2>6, <2>7 DEF EditorInv
<1>3. ASSUME Editor!Leave PROVE EditorInv'
  <2> USE <1>3 DEF Editor!Leave, Editor!Closed, Editor!NoReview, Editor!Aborted, Editor!NoFlow,
                   Editor!Unrecorded
  <2>1. EditorTypes'
    <3>1. page' \in EditorPage
      BY EditorAssumption DEF EditorInv, EditorTypes, EditorPage, EditorFlow, Editor!RunState,
                              EditorAsk, FlowAt, AskAt, Editor!NoRun
    <3>2. stored' \in Editor!Run \cup {Editor!NoRun}
      BY EditorAssumption DEF EditorInv, EditorTypes, EditorPage
    <3>3. flow' \in [Editor!Flow -> EditorFlow]
      BY EditorAssumption DEF EditorInv, EditorTypes, EditorFlow, Editor!NoFlow, Editor!RunState,
                              EditorPage, FlowAt, Editor!NoRun
    <3>4. orphan' \subseteq Editor!Run
      BY EditorAssumption DEF EditorInv, EditorTypes, FlowAt, EditorPage, Editor!Flow
    <3>5. missed' \subseteq Editor!Run
      BY EditorAssumption DEF EditorInv, EditorTypes, AskAt, EditorAsk
    <3>6. UNCHANGED <<server, mount, lost, ask>>
      OBVIOUS
    <3>. QED
      BY ONLY EditorInv, <3>1, <3>2, <3>3, <3>4, <3>5, <3>6 DEF EditorInv, EditorTypes
  <2>2. \A g \in Editor!Flow : FlowAt(g)'
    BY EditorNames DEF EditorInv, EditorTypes, EditorPage, EditorFlow, EditorAsk, FlowAt,
                       Editor!RunState, Editor!NoFlow
  <2>3. Following'
    BY EditorNames DEF EditorInv, EditorTypes, EditorPage, EditorFlow, EditorAsk, FlowAt,
                       Following, FollowedBy, Mine, PageAt, AskAt, Editor!Mounted
  <2>4. PageAt'
    BY EditorNames DEF EditorInv, EditorTypes, EditorPage, EditorFlow, EditorAsk, FlowAt,
                       Following, FollowedBy, Mine, PageAt, AskAt, Editor!Mounted
  <2>5. \A n \in Editor!Mount : AskAt(n)'
    BY EditorNames DEF EditorInv, EditorTypes, EditorPage, EditorFlow, EditorAsk, PageAt, AskAt,
                       Following, FollowedBy, Mine
  <2>6. ReviewAt'
    BY EditorNames DEF EditorInv, EditorTypes, EditorPage, EditorFlow, EditorAsk, PageAt, AskAt,
                       ReviewAt, Following, FollowedBy, Mine, Editor!Mounted
  <2>7. Editor!NoRunForgotten'
    BY EditorNames DEF EditorInv, EditorTypes, EditorPage, EditorFlow, EditorAsk, FlowAt, PageAt,
                       Following, FollowedBy, Mine, Editor!NoRunForgotten, Editor!Tracked,
                       Editor!Live, Editor!Mounted
  <2>. QED
    BY ONLY <2>1, <2>2, <2>3, <2>4, <2>5, <2>6, <2>7 DEF EditorInv
<1>4. ASSUME Editor!Reload PROVE EditorInv'
  <2> USE <1>4 DEF Editor!Reload, Editor!Closed, Editor!NoReview, Editor!NoFlow, Editor!NoRequest,
                   Editor!Unrecorded
  <2>1. EditorTypes'
    <3>1. page' \in EditorPage
      BY EditorAssumption DEF EditorInv, EditorTypes, EditorPage, EditorFlow, Editor!RunState,
                              EditorAsk, FlowAt, AskAt, Editor!NoRun
    <3>2. stored' \in Editor!Run \cup {Editor!NoRun}
      BY EditorAssumption DEF EditorInv, EditorTypes, EditorPage
    <3>3. orphan' \subseteq Editor!Run
      <4>1. /\ orphan \subseteq Editor!Run /\ Editor!Unrecorded \subseteq Editor!Run
            /\ {page.active} \ {stored, Editor!NoRun} \subseteq Editor!Run
        BY DEF EditorInv, EditorTypes, FlowAt, EditorPage
      <4>2. \/ orphan' = orphan \cup Editor!Unrecorded
            \/ orphan' = orphan \cup Editor!Unrecorded
                          \cup ({page.active} \ {stored, Editor!NoRun})
        OBVIOUS
      <4>. QED
        BY ONLY <4>1, <4>2
    <3>4. flow' \in [Editor!Flow -> EditorFlow]
      BY EditorAssumption DEF EditorInv, EditorTypes, EditorFlow, Editor!NoFlow, Editor!RunState,
                              EditorPage, FlowAt, Editor!NoRun
    <3>5. ask' \in [Editor!Mount -> EditorAsk]
      BY EditorAssumption DEF EditorInv, EditorTypes, EditorAsk, Editor!NoRequest, EditorPage,
                              Editor!NoRun
    <3>6. UNCHANGED <<server, mount, lost, missed>>
      OBVIOUS
    <3>. QED
      BY ONLY EditorInv, <3>1, <3>2, <3>3, <3>4, <3>5, <3>6 DEF EditorInv, EditorTypes
  <2>2. \A g \in Editor!Flow : FlowAt(g)'
    BY EditorNames DEF EditorInv, EditorTypes, EditorPage, EditorFlow, EditorAsk, FlowAt,
                       Editor!RunState, Editor!NoFlow
  <2>3. Following'
    BY EditorNames DEF EditorInv, EditorTypes, EditorPage, EditorFlow, EditorAsk, FlowAt,
                       Following, FollowedBy, Mine, PageAt, AskAt, Editor!Mounted
  <2>4. PageAt'
    BY EditorNames DEF EditorInv, EditorTypes, EditorPage, EditorFlow, EditorAsk, FlowAt,
                       Following, FollowedBy, Mine, PageAt, AskAt, Editor!Mounted
  <2>5. \A n \in Editor!Mount : AskAt(n)'
    BY EditorNames DEF EditorInv, EditorTypes, EditorPage, EditorFlow, EditorAsk, PageAt, AskAt,
                       Following, FollowedBy, Mine
  <2>6. ReviewAt'
    BY EditorNames DEF EditorInv, EditorTypes, EditorPage, EditorFlow, EditorAsk, PageAt, AskAt,
                       ReviewAt, Following, FollowedBy, Mine, Editor!Mounted
  <2>7. Editor!NoRunForgotten'
    BY EditorNames DEF EditorInv, EditorTypes, EditorPage, EditorFlow, EditorAsk, FlowAt, PageAt,
                       Following, FollowedBy, Mine, Editor!NoRunForgotten, Editor!Tracked,
                       Editor!Live, Editor!Mounted
  <2>. QED
    BY ONLY <2>1, <2>2, <2>3, <2>4, <2>5, <2>6, <2>7 DEF EditorInv
<1>. QED
    BY <1>1, <1>2, <1>3, <1>4

LEMMA EditorSteps == EditorInv /\ [Editor!Next]_(Editor!vars) => EditorInv'
<1> SUFFICES ASSUME EditorInv, [Editor!Next]_(Editor!vars) PROVE EditorInv'
    OBVIOUS
<1>1. CASE UNCHANGED Editor!vars
  <2> USE <1>1 DEF Editor!vars
  <2>1. EditorTypes'
    BY DEF EditorInv, EditorTypes
  <2>2. \A f \in Editor!Flow : FlowAt(f)' /\ (FollowedBy(f) => FollowedBy(f)') /\ (Mine(f)' <=> Mine(f))
    BY DEF EditorInv, FlowAt, FollowedBy, Mine, Editor!Mounted
  <2>3. Following'
    BY <2>2 DEF EditorInv, Following
  <2>4. PageAt' /\ ReviewAt' /\ Editor!NoRunForgotten'
    BY DEF EditorInv, PageAt, ReviewAt, Editor!NoRunForgotten, Editor!Tracked, Editor!Live,
           Editor!Mounted
  <2>5. \A m \in Editor!Mount : AskAt(m)'
    BY DEF EditorInv, AskAt
  <2>. QED
    BY <2>1, <2>2, <2>3, <2>4, <2>5 DEF EditorInv
<1>2. CASE Editor!Next
  <2>1. ASSUME NEW r \in Editor!Run, Editor!Pause(r) \/ Editor!End(r) \/ Editor!Forget(r)
        PROVE  EditorInv'
    BY <2>1, ServerKeeps
  <2>2. ASSUME NEW f \in Editor!Flow,
               \/ Editor!RunWorkflow(f) \/ Editor!RunRefused(f) \/ Editor!StartAnswered(f)
               \/ Editor!StartLost(f) \/ Editor!Poll(f) \/ Editor!Answered(f) \/ Editor!Close(f)
               \/ Editor!PollLost(f) \/ Editor!ResumeTracking(f)
               \/ \E r \in Editor!Run : Editor!StartAtServer(f, r)
        PROVE  EditorInv'
    BY <2>2, FlowKeeps
  <2>3. ASSUME NEW m \in Editor!Mount,
               Editor!AskAtServer(m) \/ Editor!AskAnswered(m) \/ Editor!AskLost(m)
        PROVE  EditorInv'
    BY <2>3, AskKeeps
  <2>4. CASE Editor!Reconnect \/ Editor!RequestCancel \/ Editor!RequestResume
    BY <2>4, AskKeeps
  <2>5. CASE Editor!Autosave \/ Editor!Open \/ Editor!Leave \/ Editor!Reload
    BY <2>5, PageKeeps
  <2>. QED
    BY <1>2, <2>1, <2>2, <2>3, <2>4, <2>5 DEF Editor!Next
<1>. QED
    BY <1>1, <1>2

LEMMA EditorStarts == Editor!Init => EditorInv
<1> SUFFICES ASSUME Editor!Init PROVE EditorInv
    OBVIOUS
<1> USE DEF Editor!Init
<1>1. EditorTypes
  <2>1. [status |-> "none",
      token |-> 0] \in Editor!RunState /\ mount \in 0..MaxMounts /\ lost \in 0..MaxLost
    BY EditorAssumption DEF Editor!RunState
  <2>. QED
    BY <2>1, NothingTyped DEF EditorTypes
<1>2. \A f \in Editor!Flow : FlowAt(f) /\ ~Mine(f)
    BY DEF FlowAt, Mine, Editor!NoFlow
<1>3. Following /\ PageAt /\ ReviewAt
    BY <1>2 DEF Following, PageAt, ReviewAt, Editor!Closed
<1>4. \A m \in Editor!Mount : AskAt(m)
    BY DEF AskAt, Editor!NoRequest
<1>5. Editor!NoRunForgotten
    BY DEF Editor!NoRunForgotten, Editor!Live
<1>. QED
    BY <1>1, <1>2, <1>3, <1>4, <1>5 DEF EditorInv

\* A set of which any two members are the same has one at most.
LEMMA OneAtMost ==
    ASSUME NEW S, \A a, b \in S : a = b
    PROVE  Editor!Cardinality(S) <= 1
<1>1. Editor!Cardinality(S) = Cardinality(S)
    BY DEF Editor!Cardinality, Cardinality
<1>2. CASE S = {}
    BY <1>1, <1>2, FS_EmptySet
<1>3. CASE S # {}
  <2>1. PICK a \in S : TRUE
    BY <1>3
  <2>2. S = {a}
    BY <2>1
  <2>3. Cardinality(S) = 1
    BY <2>2, FS_Singleton
  <2>. QED
    BY <1>1, <2>3
<1>. QED
    BY <1>2, <1>3

LEMMA EditorHolds == EditorInv => Editor!EditorIsTrue
<1> SUFFICES ASSUME EditorInv PROVE Editor!EditorIsTrue
    OBVIOUS
<1>1. Editor!OneMonitor
  <2> DEFINE mine == {f \in Editor!Flow : flow[f].pc # "off" /\ Editor!Mounted(f)}
  <2>1. \A f \in mine : f \in Editor!Flow /\ Mine(f) /\ FollowedBy(f)
    BY DEF EditorInv, Following, Mine
  <2>2. Editor!Cardinality(mine) <= 1
    <3>1. \A f, g \in mine : f = g
      BY <2>1 DEF EditorInv, Following
    <3> HIDE DEF mine
    <3>. QED
      BY <3>1, OneAtMost
  <2>3. page.on => (page.running <=> mine # {})
    BY <2>1 DEF EditorInv, Following, Mine, FollowedBy
  <2>4. \A f \in mine : flow[f].pc \in {"poll", "read", "closing"} => flow[f].run = page.active
    BY <2>1 DEF FollowedBy
  <2>. QED
    BY <2>2, <2>3, <2>4 DEF Editor!OneMonitor
<1>2. Editor!NoRunForgotten
    BY DEF EditorInv
<1>3. Editor!OneRunAtATime
  <2> DEFINE live == {r \in Editor!Run \ orphan : Editor!Live(r)}
  <2>1. ASSUME NEW q \in live, NEW r \in live PROVE q = r
    <3>1. Editor!Tracked(q) /\ Editor!Tracked(r) /\ q \in Editor!Run /\ r \in Editor!Run
      BY <1>2 DEF Editor!NoRunForgotten
    <3>2. \A f \in Editor!Flow : flow[f].pc = "started" /\ Editor!Mounted(f) =>
            page.on /\ page.active = Editor!NoRun /\ Mine(f)
      BY DEF EditorInv, Following, FollowedBy, Mine, Editor!Mounted
    <3>3. ~page.on => page.active = Editor!NoRun
      BY DEF EditorInv, PageAt, Editor!Closed
    <3>. QED
      BY <3>1, <3>2, <3>3, EditorNames DEF Editor!Tracked, EditorInv, Following
  <2> HIDE DEF live
  <2>2. Editor!Cardinality(live) <= 1
    BY <2>1, OneAtMost
  <2>. QED
    BY <2>2 DEF live, Editor!OneRunAtATime
<1>4. Editor!ReviewIsTracked
    BY DEF EditorInv, PageAt, Editor!ReviewIsTracked
<1>5. Editor!EndIsNoticed
  <2> SUFFICES ASSUME page.on, ~page.pending, ~Editor!Live(page.active), page.active \notin missed
               PROVE  page.paused = Editor!NoReview
    BY DEF Editor!EndIsNoticed, Editor!Rendered
  <2>1. mount \in Editor!Mount /\ ~ask[mount].ok
    BY DEF EditorInv, PageAt, AskAt
  <2>. QED
    BY <2>1 DEF EditorInv, ReviewAt, Editor!Live
<1>. QED
    BY <1>1, <1>2, <1>3, <1>4, <1>5 DEF Editor!EditorIsTrue

\* The editor, for any number of runs, reviews, openings of the page and lost requests: one
\* run at a time, followed by one function, found again after a reload, and its review
\* shown as long as it waits.
THEOREM EditorIsAlwaysTrue == NodesSpec => []EditorIsTrue
<1> DEFINE Inv == which = "editor" => EditorInv
<1>1. NodesInit => Inv
    BY EditorStarts DEF NodesInit, CompilerInit, EditorInit, ToolsInit, ModelsInit, HttpInit
<1>2. Inv /\ [NodesNext]_all => Inv'
  <2> SUFFICES ASSUME Inv, [NodesNext]_all, which' = "editor" PROVE EditorInv'
    OBVIOUS
  <2>1. CASE EditorNext
    BY <2>1, EditorSteps DEF EditorNext
  <2>2. CASE UNCHANGED all
    BY <2>2, EditorSteps DEF all, Editor!vars
  <2>. QED
    BY <2>1, <2>2
    DEF NodesNext, CompilerNext, ToolsNext, HttpNext, ModelsNext, Stopped
<1>3. Inv => EditorIsTrue
    BY EditorHolds DEF EditorIsTrue
<1>. QED
    BY <1>1, <1>2, <1>3, PTL DEF NodesSpec

------------------------------------------------------------------------------
(* compiler.py: the compiler *)

\* Connections into n from nodes that are not in the order.
Unordered(n) == {e \in Edges : e.to = n /\ e.from \notin RangeOf(order)}

\* No node is twice in a list.
Once(s) == \A i, j \in DOMAIN s : i # j => s[i] # s[j]

\* The step of a plan that runs n.
StepOf(n) == [node |-> n, bindings |-> {[kind |-> e.kind, source |-> e.from] :
                                           e \in {x \in conns : x.to = n}}]

DataPairs  == Pairs({e \in Edges : e.kind = "data"})
Answers(c) == Closure({c}, DataPairs) \cap Terminals

\* What the compiler has not begun is empty.
PlanTypes ==
    /\ nodes \subseteq Node /\ edges \subseteq Connection
    /\ skipped \subseteq nodes /\ twice \subseteq nodes
    /\ active \subseteq nodes /\ conns \subseteq edges
    /\ phase \in {"start", "check", "order", "chat", "walk", "plan", "compiled", "invalid"}
    /\ indegree \in [Node -> Nat] /\ queue \in Seq(active) /\ order \in Seq(active)
    /\ chats \subseteq Chats /\ frontier \in Seq(active) /\ reached \subseteq active
    /\ terminal \in Seq([chat : active, output : active \cup {0}])
    /\ phase = "start" => active = {} /\ conns = {}
    /\ phase \in {"start", "check"} => queue = <<>> /\ order = <<>> /\ errors = {}
    /\ phase \in {"start", "check", "order"} =>
         chats = {} /\ frontier = <<>> /\ reached = {} /\ terminal = <<>>

\* Kahn's algorithm: the nodes without unordered sources are those in the order or in the
\* queue, each of them once.
OrderAt ==
    /\ phase \notin {"start", "check"} =>
         /\ \A n \in Node : indegree[n] = Cardinality(Unordered(n))
         /\ \A n \in active : n \in RangeOf(order) \cup RangeOf(queue) <=> indegree[n] = 0
    /\ phase \notin {"start", "check", "order"} => queue = <<>>
    /\ Once(order) /\ Once(queue) /\ RangeOf(order) \cap RangeOf(queue) = {}
    /\ OrderRespectsConnections

\* What is wrong with the definition is among the errors, and a plan has none.
ErrorsAt ==
    /\ phase \notin {"start", "check"} => ConnectionErrors \cup NodeErrors \subseteq errors
    /\ phase = "order" => "graph_cycle" \notin errors
    /\ phase \notin {"start", "check", "order"} =>
         /\ GraphErrors \subseteq errors
         /\ "graph_cycle" \in errors
              <=> Len(order) # Cardinality(active) + Cardinality(Repeated)
    /\ phase \in {"plan", "compiled"} => errors = {} /\ chats = {}

\* The search from a chat node: what it has reached can be reached, and the targets of what
\* it has reached are reached or in the frontier.
WalkAt ==
    phase = "walk" =>
        /\ terminal # <<>>
        /\ LET c == terminal[Len(terminal)].chat IN
             /\ c \in Chats \ chats
             /\ reached \subseteq Closure({c}, DataPairs)
             /\ RangeOf(frontier) \subseteq reached \cup {c}
             /\ \A n \in reached \cup {c} : n \in RangeOf(frontier) \/ DataTargets(n) \subseteq reached

\* The chat nodes that were searched from have their one output.
Answered(c) ==
    \E k \in DOMAIN terminal :
        /\ phase = "walk" => k < Len(terminal)
        /\ terminal[k].chat = c /\ Answers(c) = {terminal[k].output}

AnswersAt ==
    phase \notin {"start", "check", "order"} /\ errors = {} =>
        \A c \in Chats \ chats :
            Answered(c) \/ (phase = "walk" /\ c = terminal[Len(terminal)].chat)

\* The plan follows the order.
StepsAt ==
    /\ phase \notin {"plan", "compiled"} => plan = <<>>
    /\ Len(plan) \in 0..Len(order) /\ plan = [i \in 1..Len(plan) |-> StepOf(order[i])]
    /\ phase = "compiled" => Len(plan) = Len(order)

PlanInv == PlanTypes /\ OrderAt /\ ErrorsAt /\ WalkAt /\ AnswersAt /\ StepsAt

------------------------------------------------------------------------------
(* compiler.py: the nodes reached along connections *)

\* What holds of zero, and of a number's successor when it holds of the number, holds of
\* all numbers: a set of exceptions would have a least one.
LEMMA NumbersFollow ==
    ASSUME NEW T, 0 \in T, \A n \in Nat : n \in T => n + 1 \in T
    PROVE  Nat \subseteq T
<1> SUFFICES ASSUME Nat \ T # {} PROVE FALSE
    OBVIOUS
<1>1. PICK x \in Nat \ T : \A y \in Nat \ T : ~(<<y, x>> \in OpToRel(<, Nat))
  <2>1. Nat \ T \subseteq Nat
    OBVIOUS
  <2>. QED
    BY <2>1, NatLessThanWellFounded, WFMin
<1>2. \A y \in Nat \ T : ~(y < x)
    BY <1>1 DEF OpToRel
<1>3. x # 0 /\ x - 1 \in Nat /\ x - 1 < x /\ (x - 1) + 1 = x
    OBVIOUS
<1>4. x - 1 \in T
    BY <1>2, <1>3
<1>. QED
    BY <1>3, <1>4

\* One round of Closure.
After(B, pairs) == B \cup {p[2] : p \in {q \in pairs : q[1] \in B}}

\* f lists the first m rounds from S.
Rounds(f, S, pairs, m) ==
    f = [k \in 0..m |-> IF k = 0 THEN S ELSE After(f[k - 1], pairs)]

LEMMA RoundsExist ==
    ASSUME NEW S, NEW pairs, NEW m \in Nat
    PROVE  \E f : Rounds(f, S, pairs, m)
<1> DEFINE T == {n \in Nat : \E f : Rounds(f, S, pairs, n)}
<1>1. 0 \in T
  <2> DEFINE f == [k \in 0..0 |-> S]
  <2>1. Rounds(f, S, pairs, 0)
    BY DEF Rounds
  <2>. QED
    BY <2>1
<1>2. ASSUME NEW n \in Nat, n \in T PROVE n + 1 \in T
  <2>1. PICK f : Rounds(f, S, pairs, n)
    BY <1>2
  <2> DEFINE g == [k \in 0..n + 1 |-> IF k <= n THEN f[k] ELSE After(f[n], pairs)]
  <2>2. \A k \in 0..n : f[k] = IF k = 0 THEN S ELSE After(f[k - 1], pairs)
    BY <2>1 DEF Rounds
  <2>3. ASSUME NEW k \in 0..n + 1 PROVE g[k] = IF k = 0 THEN S ELSE After(g[k - 1], pairs)
    <3>1. CASE k = 0
      BY <2>2, <3>1
    <3>2. CASE k \in 1..n
      <4>1. k - 1 \in 0..n /\ k \in 0..n /\ k # 0
        BY <3>2
      <4>2. g[k] = f[k] /\ g[k - 1] = f[k - 1]
        BY <4>1
      <4>3. f[k] = After(f[k - 1], pairs)
        BY <2>2, <4>1
      <4>. QED
        BY <4>1, <4>2, <4>3
    <3>3. CASE k = n + 1
      <4>1. g[k] = After(f[n], pairs) /\ g[k - 1] = f[n] /\ k # 0
        BY <3>3
      <4>. QED
        BY <4>1
    <3>. QED
      BY <3>1, <3>2, <3>3
  <2>4. g = [k \in 0..n + 1 |-> IF k = 0 THEN S ELSE After(g[k - 1], pairs)]
    <3>1. g = [k \in 0..n + 1 |-> g[k]]
      OBVIOUS
    <3> HIDE DEF g
    <3>. QED
      BY <2>3, <3>1
  <2>5. Rounds(g, S, pairs, n + 1)
    BY <2>4 DEF Rounds
  <2>. QED
    BY <2>5
<1>3. m \in T
  <2> HIDE DEF T
  <2>. QED
    BY <1>1, <1>2, NumbersFollow
<1>. QED
    BY <1>3

\* The rounds of Closure.
LEMMA ClosureRounds ==
    ASSUME NEW S, NEW pairs
    PROVE  /\ Cardinality(Node) \in Nat
           /\ \E f : /\ f[0] = S
                     /\ \A k \in 1..Cardinality(Node) : f[k] = After(f[k - 1], pairs)
                     /\ Closure(S, pairs) = f[Cardinality(Node)]
<1> DEFINE top == Cardinality(Node)
           reach == CHOOSE f : Rounds(f, S, pairs, top)
<1>1. top \in Nat
    BY NodeAssumption, FS_CardinalityType
<1>2. Rounds(reach, S, pairs, top)
    BY <1>1, RoundsExist
<1>3. Closure(S, pairs) = reach[top]
    BY DEF Closure, Rounds, After
<1>4. \A k \in 0..top : reach[k] = IF k = 0 THEN S ELSE After(reach[k - 1], pairs)
  <2> HIDE DEF reach
  <2>. QED
    BY <1>2 DEF Rounds
<1>5. 0 \in 0..top /\ \A k \in 1..top : k \in 0..top /\ k # 0
    BY <1>1
<1> HIDE DEF reach, top
<1>6. reach[0] = S /\ \A k \in 1..top : reach[k] = After(reach[k - 1], pairs)
    BY <1>4, <1>5
<1>. QED
    BY <1>1, <1>3, <1>6 DEF top

\* Closure holds its start and nothing that a set with the start and with the targets of
\* its members lacks.
LEMMA ClosureIsLeast ==
    ASSUME NEW S, NEW pairs, NEW B, S \subseteq B, \A p \in pairs : p[1] \in B => p[2] \in B
    PROVE  Closure(S, pairs) \subseteq B
<1> DEFINE top == Cardinality(Node)
<1>1. PICK f : /\ f[0] = S
               /\ \A k \in 1..top : f[k] = After(f[k - 1], pairs)
               /\ Closure(S, pairs) = f[top]
    BY ClosureRounds
<1> DEFINE T == {k \in Nat : k <= top => f[k] \subseteq B}
<1>2. top \in Nat
    BY ClosureRounds
<1> HIDE DEF top
<1>3. 0 \in T
    BY <1>1
<1>4. ASSUME NEW k \in Nat, k \in T PROVE k + 1 \in T
  <2> SUFFICES ASSUME k + 1 <= top PROVE f[k + 1] \subseteq B
    OBVIOUS
  <2>1. k + 1 \in 1..top /\ (k + 1) - 1 = k /\ k <= top
    BY <1>2
  <2>2. f[k + 1] = After(f[k], pairs) /\ f[k] \subseteq B
    BY <1>1, <1>4, <2>1
  <2>. QED
    BY <2>2 DEF After
<1>5. top \in T
  <2> HIDE DEF T
  <2>. QED
    BY <1>2, <1>3, <1>4, NumbersFollow
<1>. QED
    BY <1>1, <1>2, <1>5

LEMMA ClosureHasStart ==
    ASSUME NEW S, NEW pairs
    PROVE  S \subseteq Closure(S, pairs)
<1> DEFINE top == Cardinality(Node)
<1>1. PICK f : /\ f[0] = S
               /\ \A k \in 1..top : f[k] = After(f[k - 1], pairs)
               /\ Closure(S, pairs) = f[top]
    BY ClosureRounds
<1> DEFINE T == {k \in Nat : k <= top => S \subseteq f[k]}
<1>2. top \in Nat
    BY ClosureRounds
<1> HIDE DEF top
<1>3. 0 \in T
    BY <1>1
<1>4. ASSUME NEW k \in Nat, k \in T PROVE k + 1 \in T
  <2> SUFFICES ASSUME k + 1 <= top PROVE S \subseteq f[k + 1]
    OBVIOUS
  <2>1. k + 1 \in 1..top /\ (k + 1) - 1 = k /\ k <= top
    BY <1>2
  <2>2. f[k + 1] = After(f[k], pairs) /\ S \subseteq f[k]
    BY <1>1, <1>4, <2>1
  <2>. QED
    BY <2>2 DEF After
<1>5. top \in T
  <2> HIDE DEF T
  <2>. QED
    BY <1>2, <1>3, <1>4, NumbersFollow
<1>. QED
    BY <1>1, <1>2, <1>5

\* There are as many rounds as nodes, and a round that does not add a node is the last to
\* be looked at: among nodes, Closure holds the targets of its members.
LEMMA ClosureIsClosed ==
    ASSUME NEW S \in SUBSET Node, NEW pairs, \A p \in pairs : p[2] \in Node
    PROVE  /\ Closure(S, pairs) \in SUBSET Node
           /\ \A p \in pairs : p[1] \in Closure(S, pairs) => p[2] \in Closure(S, pairs)
<1> DEFINE top == Cardinality(Node)
           Closed(B) == \A p \in pairs : p[1] \in B => p[2] \in B
<1>1. PICK f : /\ f[0] = S
               /\ \A k \in 1..top : f[k] = After(f[k - 1], pairs)
               /\ Closure(S, pairs) = f[top]
    BY ClosureRounds
<1> DEFINE T == {k \in Nat : k <= top =>
                    /\ f[k] \in SUBSET Node
                    /\ Closed(f[k]) \/ k <= Cardinality(f[k])}
<1>2. top \in Nat
    BY ClosureRounds
<1>3. \A B \in SUBSET Node : IsFiniteSet(B) /\ Cardinality(B) \in Nat
    BY NodeAssumption, FS_Subset, FS_CardinalityType
<1> HIDE DEF top
<1>4. 0 \in T
    BY <1>1, <1>3
<1>5. ASSUME NEW k \in Nat, k \in T PROVE k + 1 \in T
  <2> SUFFICES ASSUME k + 1 <= top
               PROVE  f[k + 1] \in SUBSET Node /\ (Closed(f[k + 1]) \/ k + 1 <= Cardinality(f[k + 1]))
    OBVIOUS
  <2>1. k + 1 \in 1..top /\ (k + 1) - 1 = k /\ k <= top
    BY <1>2
  <2>2. f[k + 1] = After(f[k], pairs) /\ f[k] \in SUBSET Node
        /\ (Closed(f[k]) \/ k <= Cardinality(f[k]))
    BY <1>1, <1>5, <2>1
  <2>3. f[k + 1] \in SUBSET Node /\ f[k] \subseteq f[k + 1]
    BY <2>2 DEF After
  <2>4. CASE Closed(f[k])
    <3>1. f[k + 1] = f[k]
      BY <2>2, <2>4 DEF After
    <3> HIDE DEF Closed
    <3>. QED
      BY <2>3, <2>4, <3>1
  <2>5. CASE ~Closed(f[k])
    <3>1. f[k + 1] # f[k]
      BY <2>2, <2>5 DEF After
    <3>2. k <= Cardinality(f[k])
      BY <2>2, <2>5
    <3>3. Cardinality(f[k]) <= Cardinality(f[k + 1]) /\ Cardinality(f[k]) # Cardinality(f[k + 1])
      BY <1>3, <2>3, <3>1, FS_Subset
    <3>4. Cardinality(f[k]) \in Nat /\ Cardinality(f[k + 1]) \in Nat
      BY <1>3, <2>2, <2>3
    <3> HIDE DEF Closed
    <3>. QED
      BY <2>3, <3>2, <3>3, <3>4
  <2>. QED
    BY <2>4, <2>5
<1>6. top \in T
  <2> HIDE DEF T
  <2>. QED
    BY <1>2, <1>4, <1>5, NumbersFollow
<1>7. f[top] \in SUBSET Node /\ (Closed(f[top]) \/ top <= Cardinality(f[top]))
    BY <1>2, <1>6
<1>8. CASE top <= Cardinality(f[top])
  <2>1. f[top] = Node
    BY <1>2, <1>3, <1>7, <1>8, NodeAssumption, FS_Subset DEF top
  <2>. QED
    BY <1>1, <2>1
<1>. QED
    BY <1>1, <1>7, <1>8

LEMMA SameDefinition ==
    ASSUME UNCHANGED <<active, conns, twice>>
    PROVE  /\ Repeated' = Repeated
           /\ Edges' = Edges /\ Terminals' = Terminals /\ Chats' = Chats /\ DataPairs' = DataPairs
           /\ ConnectionErrors' = ConnectionErrors /\ NodeErrors' = NodeErrors
           /\ GraphErrors' = GraphErrors
           /\ \A c : Answers(c)' = Answers(c)
           /\ \A n : StepOf(n)' = StepOf(n) /\ DataTargets(n)' = DataTargets(n)
<1>1. Edges' = Edges /\ Terminals' = Terminals /\ Chats' = Chats /\ Repeated' = Repeated
    BY DEF Edges, Terminals, Chats, Repeated
<1>2. DataPairs' = DataPairs /\ BothWays' = BothWays
    BY <1>1 DEF DataPairs, BothWays, Pairs
<1>3. ConnectionErrors' = ConnectionErrors
    BY <1>1 DEF ConnectionErrors, Inbound
<1>4. NodeErrors' = NodeErrors
    BY <1>1 DEF NodeErrors, Unbound, Inbound
<1>5. GraphErrors' = GraphErrors
    BY <1>1, <1>2 DEF GraphErrors
<1>6. \A c : Answers(c)' = Answers(c)
    BY <1>1, <1>2 DEF Answers
<1>7. \A n : StepOf(n)' = StepOf(n) /\ DataTargets(n)' = DataTargets(n)
    BY <1>1 DEF StepOf, DataTargets
<1>. QED
    BY <1>1, <1>2, <1>3, <1>4, <1>5, <1>6, <1>7

LEMMA SetsAreFinite ==
    ASSUME PlanTypes
    PROVE  /\ \A B \in SUBSET Edges : IsFiniteSet(B) /\ Cardinality(B) \in Nat
                                       /\ (Cardinality(B) = 0 <=> B = {})
           /\ \A B \in SUBSET Node : IsFiniteSet(B) /\ Cardinality(B) \in Nat
           /\ active \in SUBSET Node
<1>1. Edges \in SUBSET Connection
    BY DEF PlanTypes, Edges
<1>2. IsFiniteSet(Edges)
    BY <1>1, ConnectionAssumption, FS_Subset
<1>3. \A B \in SUBSET Edges : IsFiniteSet(B) /\ Cardinality(B) \in Nat /\ (Cardinality(B) = 0 <=> B = {})
    BY <1>2, FS_Subset, FS_CardinalityType, FS_EmptySet
<1>4. \A B \in SUBSET Node : IsFiniteSet(B) /\ Cardinality(B) \in Nat
    BY NodeAssumption, FS_Subset, FS_CardinalityType
<1>5. active \in SUBSET Node
    BY DEF PlanTypes
<1>. QED
    BY <1>3, <1>4, <1>5

\* A listing of a set of nodes has each of them once.
LEMMA AscendingLists ==
    ASSUME NEW S \in SUBSET Node, NEW s \in Ascending(S)
    PROVE  s \in Seq(S) /\ RangeOf(s) = S /\ Once(s)
<1>1. IsFiniteSet(S) /\ Cardinality(S) \in Nat
    BY NodeAssumption, FS_Subset, FS_CardinalityType
<1> DEFINE top == Cardinality(S)
<1>2. s \in [1..top -> S] /\ \A i, j \in 1..top : i < j => s[i] < s[j]
    BY DEF Ascending
<1>3. \A i, j \in 1..top : i # j => s[i] # s[j]
  <2> SUFFICES ASSUME NEW i \in 1..top, NEW j \in 1..top, i # j PROVE s[i] # s[j]
    OBVIOUS
  <2>1. s[i] \in Nat /\ s[j] \in Nat
    BY <1>2, NodeAssumption
  <2>2. i < j \/ j < i
    OBVIOUS
  <2>. QED
    BY <1>2, <2>1, <2>2
<1>4. s \in Injection(1..top, S)
    BY <1>2, <1>3 DEF Injection, IsInjective
<1>5. Cardinality(1..top) = top
  <2>1. 1 \in Int /\ top \in Int /\ top \in Nat
    BY <1>1
  <2>2. Cardinality(1..top) = IF 1 > top THEN 0 ELSE top - 1 + 1
    BY <2>1, FS_Interval, Zenon
  <2> HIDE DEF top
  <2>. QED
    BY <2>1, <2>2
<1>6. s \in Surjection(1..top, S)
    BY <1>1, <1>4, <1>5, FS_Injection
<1>7. DOMAIN s = 1..top
    BY <1>2
<1>8. RangeOf(s) = S
    BY <1>2, <1>6, <1>7 DEF Surjection, RangeOf
<1>9. s \in Seq(S)
  <2> HIDE DEF top
  <2>. QED
    BY <1>1, <1>2 DEF top
<1>. QED
    BY <1>3, <1>7, <1>8, <1>9 DEF Once

\* Nodes that all have a source among them lie behind a cycle.
LEMMA LeftoverHasCycle ==
    ASSUME NEW R \in SUBSET Node, R # {}, NEW pairs, \A p \in pairs : p[2] \in Node,
           \A x \in R : \E p \in pairs : p[2] = x /\ p[1] \in R
    PROVE  \E p \in pairs : p[1] \in Closure({p[2]}, pairs)
<1> DEFINE Reach(x) == Closure({x}, pairs)
           Lack == {Node \ Reach(x) : x \in R}
<1>1. \A x \in R : x \in Reach(x) /\ \A p \in pairs : p[1] \in Reach(x) => p[2] \in Reach(x)
    BY ClosureHasStart, ClosureIsClosed
<1>2. ASSUME NEW x \in R, NEW y \in R, x \in Reach(y) PROVE Reach(x) \subseteq Reach(y)
  <2>1. {x} \subseteq Reach(y) /\ \A p \in pairs : p[1] \in Reach(y) => p[2] \in Reach(y)
    BY <1>1, <1>2
  <2>. QED
    BY <2>1, ClosureIsLeast
<1> HIDE DEF Reach
<1>3. Lack \subseteq FiniteSubsetsOf(Node) /\ Lack # {}
  <2>1. \A x \in R : Node \ Reach(x) \subseteq Node /\ IsFiniteSet(Node \ Reach(x))
    BY NodeAssumption, FS_Subset
  <2>. QED
    BY <2>1 DEF FiniteSubsetsOf
<1>4. PICK A \in Lack : \A B \in Lack : ~(<<B, A>> \in StrictSubsetOrdering(Node))
  <2> HIDE DEF Lack
  <2>. QED
    BY <1>3, FS_StrictSubsetOrderingWellFounded, WFMin
<1>5. PICK x \in R : A = Node \ Reach(x)
    OBVIOUS
<1>6. PICK p \in pairs : p[2] = x /\ p[1] \in R
    OBVIOUS
<1>7. x \in Reach(p[1])
    BY <1>1, <1>6
<1>8. Reach(x) \subseteq Reach(p[1]) /\ p[1] \in Reach(p[1])
    BY <1>1, <1>2, <1>6, <1>7
<1>9. p[1] \in Reach(x)
  <2> SUFFICES ASSUME p[1] \notin Reach(x) PROVE FALSE
    OBVIOUS
  <2> DEFINE B == Node \ Reach(p[1])
  <2>1. B \in Lack
    BY <1>6
  <2>2. B \subseteq A /\ p[1] \in A /\ p[1] \notin B /\ A \subseteq Node
    BY <1>5, <1>6, <1>8
  <2>3. <<B, A>> \in StrictSubsetOrdering(Node)
    BY <2>2 DEF StrictSubsetOrdering
  <2>. QED
    BY <1>4, <2>1, <2>3
<1>. QED
    BY <1>6, <1>9 DEF Reach

LEMMA Listed ==
    ASSUME NEW S, NEW s \in Seq(S), NEW t \in Seq(S)
    PROVE  /\ RangeOf(s) \subseteq S
           /\ \A x \in S : /\ Append(s, x) \in Seq(S)
                           /\ RangeOf(Append(s, x)) = RangeOf(s) \cup {x}
           /\ s \o t \in Seq(S) /\ RangeOf(s \o t) = RangeOf(s) \cup RangeOf(t)
           /\ s # <<>> => /\ Head(s) \in S /\ Tail(s) \in Seq(S)
                          /\ RangeOf(s) = {Head(s)} \cup RangeOf(Tail(s))
<1>1. RangeOf(s) \subseteq S
    BY DEF RangeOf
<1>2. ASSUME NEW x \in S
      PROVE  Append(s, x) \in Seq(S) /\ RangeOf(Append(s, x)) = RangeOf(s) \cup {x}
  <2>1. /\ Append(s, x) \in Seq(S) /\ Len(Append(s, x)) = Len(s) + 1
        /\ \A i \in 1..Len(s) : Append(s, x)[i] = s[i]
        /\ Append(s, x)[Len(s) + 1] = x
    OBVIOUS
  <2>2. DOMAIN s = 1..Len(s) /\ DOMAIN Append(s, x) = 1..(Len(s) + 1) /\ Len(s) \in Nat
    BY <2>1
  <2>3. \A i \in 1..(Len(s) + 1) : i \in 1..Len(s) \/ i = Len(s) + 1
    BY <2>2
  <2>4. \A i \in 1..Len(s) : i \in 1..(Len(s) + 1)
    BY <2>2
  <2>5. Len(s) + 1 \in 1..(Len(s) + 1)
    BY <2>2
  <2>6. \A y \in RangeOf(Append(s, x)) : y \in RangeOf(s) \cup {x}
    BY ONLY <2>1, <2>2, <2>3 DEF RangeOf
  <2>7. \A y \in RangeOf(s) : y \in RangeOf(Append(s, x))
    BY ONLY <2>1, <2>2, <2>4 DEF RangeOf
  <2>8. x \in RangeOf(Append(s, x))
    BY ONLY <2>1, <2>2, <2>5 DEF RangeOf
  <2>. QED
    BY <2>1, <2>6, <2>7, <2>8
<1>3. s \o t \in Seq(S) /\ RangeOf(s \o t) = RangeOf(s) \cup RangeOf(t)
  <2>1. /\ s \o t \in Seq(S) /\ Len(s \o t) = Len(s) + Len(t)
        /\ \A i \in 1..Len(s) : (s \o t)[i] = s[i]
        /\ \A i \in 1..Len(t) : (s \o t)[Len(s) + i] = t[i]
    OBVIOUS
  <2>2. /\ DOMAIN s = 1..Len(s) /\ DOMAIN t = 1..Len(t)
        /\ DOMAIN (s \o t) = 1..(Len(s) + Len(t)) /\ Len(s) \in Nat /\ Len(t) \in Nat
    BY <2>1
  <2>3. \A i \in 1..(Len(s) + Len(t)) :
           i \in 1..Len(s) \/ (i - Len(s) \in 1..Len(t) /\ Len(s) + (i - Len(s)) = i)
    BY <2>2
  <2>4. \A i \in 1..Len(s) : i \in 1..(Len(s) + Len(t))
    BY <2>2
  <2>5. \A i \in 1..Len(t) : Len(s) + i \in 1..(Len(s) + Len(t))
    BY <2>2
  <2>6. \A y \in RangeOf(s \o t) : y \in RangeOf(s) \cup RangeOf(t)
    <3> SUFFICES ASSUME NEW i \in 1..(Len(s) + Len(t))
                 PROVE  (s \o t)[i] \in RangeOf(s) \cup RangeOf(t)
      BY <2>2 DEF RangeOf
    <3>1. CASE i \in 1..Len(s)
      BY <2>1, <2>2, <3>1 DEF RangeOf
    <3>2. CASE i - Len(s) \in 1..Len(t) /\ Len(s) + (i - Len(s)) = i
      <4>1. (s \o t)[i] = t[i - Len(s)]
        BY <2>1, <3>2
      <4>. QED
        BY <2>2, <3>2, <4>1 DEF RangeOf
    <3>. QED
      BY <2>3, <3>1, <3>2
  <2>7. \A y \in RangeOf(s) : y \in RangeOf(s \o t)
    BY ONLY <2>1, <2>2, <2>4 DEF RangeOf
  <2>8. \A y \in RangeOf(t) : y \in RangeOf(s \o t)
    BY ONLY <2>1, <2>2, <2>5 DEF RangeOf
  <2>. QED
    BY <2>1, <2>6, <2>7, <2>8
<1>4. ASSUME s # <<>>
      PROVE  /\ Head(s) \in S /\ Tail(s) \in Seq(S)
             /\ RangeOf(s) = {Head(s)} \cup RangeOf(Tail(s))
  <2>1. /\ Head(s) \in S /\ Tail(s) \in Seq(S) /\ Len(s) \in Nat \ {0}
        /\ Head(s) = s[1] /\ Len(Tail(s)) = Len(s) - 1
        /\ \A i \in 1..(Len(s) - 1) : Tail(s)[i] = s[i + 1]
    BY <1>4
  <2>2. DOMAIN s = 1..Len(s) /\ DOMAIN Tail(s) = 1..(Len(s) - 1)
    BY <2>1
  <2>3. \A i \in 1..Len(s) : i = 1 \/ (i - 1 \in 1..(Len(s) - 1) /\ (i - 1) + 1 = i)
    BY <2>1
  <2>4. \A i \in 1..(Len(s) - 1) : i + 1 \in 1..Len(s)
    BY <2>1
  <2>5. 1 \in 1..Len(s)
    BY <2>1
  <2>6. \A y \in RangeOf(s) : y \in {Head(s)} \cup RangeOf(Tail(s))
    <3> SUFFICES ASSUME NEW i \in 1..Len(s) PROVE s[i] \in {Head(s)} \cup RangeOf(Tail(s))
      BY <2>2 DEF RangeOf
    <3>1. CASE i = 1
      BY <2>1, <3>1
    <3>2. CASE i - 1 \in 1..(Len(s) - 1) /\ (i - 1) + 1 = i
      <4>1. s[i] = Tail(s)[i - 1]
        BY <2>1, <3>2
      <4>. QED
        BY <2>2, <3>2, <4>1 DEF RangeOf
    <3>. QED
      BY <2>3, <3>1, <3>2
  <2>7. \A y \in RangeOf(Tail(s)) : y \in RangeOf(s)
    BY ONLY <2>1, <2>2, <2>4 DEF RangeOf
  <2>8. Head(s) \in RangeOf(s)
    BY ONLY <2>1, <2>2, <2>5 DEF RangeOf
  <2>. QED
    BY <2>1, <2>6, <2>7, <2>8
<1>. QED
    BY <1>1, <1>2, <1>3, <1>4

LEMMA PlanStarts ==
    ASSUME Init
    PROVE  PlanInv
<1>1. PlanTypes
  <2>1. indegree \in [Node -> Nat]
    BY DEF Init
  <2>. QED
    BY <2>1 DEF Init, PlanTypes
<1>2. OrderAt
  <2>1. Once(<<>>) /\ RangeOf(<<>>) = {} /\ OrderRespectsConnections
    BY DEF Init, Once, RangeOf, OrderRespectsConnections
  <2>. QED
    BY <2>1 DEF Init, OrderAt
<1>3. ErrorsAt /\ WalkAt /\ AnswersAt
    BY DEF Init, ErrorsAt, WalkAt, AnswersAt
<1>4. StepsAt
    BY DEF Init, StepsAt
<1>. QED
    BY <1>1, <1>2, <1>3, <1>4 DEF PlanInv

LEMMA ListedOnce ==
    ASSUME NEW S, NEW s \in Seq(S), NEW t \in Seq(S), Once(s)
    PROVE  /\ \A x \in S : x \notin RangeOf(s) => Once(Append(s, x))
           /\ Once(t) /\ RangeOf(s) \cap RangeOf(t) = {} => Once(s \o t)
           /\ s # <<>> => Once(Tail(s)) /\ Head(s) \notin RangeOf(Tail(s))
<1>0. DOMAIN s = 1..Len(s) /\ DOMAIN t = 1..Len(t) /\ Len(s) \in Nat /\ Len(t) \in Nat
    OBVIOUS
<1>1. ASSUME NEW x \in S, x \notin RangeOf(s) PROVE Once(Append(s, x))
  <2>1. /\ DOMAIN Append(s, x) = 1..(Len(s) + 1)
        /\ \A i \in 1..Len(s) : Append(s, x)[i] = s[i]
        /\ Append(s, x)[Len(s) + 1] = x
    OBVIOUS
  <2>2. \A i \in 1..Len(s) : s[i] # x
    BY <1>0, <1>1 DEF RangeOf
  <2>3. \A i \in 1..(Len(s) + 1) : i \in 1..Len(s) \/ i = Len(s) + 1
    BY <1>0
  <2>. QED
    BY ONLY <1>0, <2>1, <2>2, <2>3, Once(s) DEF Once
<1>2. ASSUME Once(t), RangeOf(s) \cap RangeOf(t) = {} PROVE Once(s \o t)
  <2>1. /\ DOMAIN (s \o t) = 1..(Len(s) + Len(t))
        /\ \A i \in 1..Len(s) : (s \o t)[i] = s[i]
        /\ \A i \in 1..(Len(s) + Len(t)) : i \notin 1..Len(s) => (s \o t)[i] = t[i - Len(s)]
    OBVIOUS
  <2>2. \A i \in 1..Len(s), j \in 1..Len(t) : s[i] # t[j]
    BY <1>0, <1>2 DEF RangeOf
  <2>3. \A i \in 1..(Len(s) + Len(t)) : i \in 1..Len(s) \/ i - Len(s) \in 1..Len(t)
    BY <1>0
  <2>4. \A i, j \in 1..(Len(s) + Len(t)) : i # j => i - Len(s) # j - Len(s)
    BY <1>0
  <2> SUFFICES ASSUME NEW i \in 1..(Len(s) + Len(t)), NEW j \in 1..(Len(s) + Len(t)), i # j
               PROVE  (s \o t)[i] # (s \o t)[j]
    BY <2>1 DEF Once
  <2>5. CASE i \in 1..Len(s) /\ j \in 1..Len(s)
    BY <1>0, <2>1, <2>5 DEF Once
  <2>6. CASE i \notin 1..Len(s) /\ j \notin 1..Len(s)
    <3>1. (s \o t)[i] = t[i - Len(s)] /\ (s \o t)[j] = t[j - Len(s)]
      BY <2>1, <2>6
    <3>2. i - Len(s) \in 1..Len(t) /\ j - Len(s) \in 1..Len(t) /\ i - Len(s) # j - Len(s)
      BY <2>3, <2>4, <2>6
    <3>. QED
      BY <1>0, <1>2, <3>1, <3>2 DEF Once
  <2>7. CASE (i \in 1..Len(s)) # (j \in 1..Len(s))
    BY <2>1, <2>2, <2>3, <2>7
  <2>. QED
    BY <2>5, <2>6, <2>7
<1>3. ASSUME s # <<>> PROVE Once(Tail(s)) /\ Head(s) \notin RangeOf(Tail(s))
  <2>1. /\ Len(s) \in Nat \ {0} /\ Head(s) = s[1] /\ DOMAIN Tail(s) = 1..(Len(s) - 1)
        /\ \A i \in 1..(Len(s) - 1) : Tail(s)[i] = s[i + 1]
    BY <1>3
  <2>2. /\ 1 \in 1..Len(s)
        /\ \A i \in 1..(Len(s) - 1) : i + 1 \in 1..Len(s) /\ i + 1 # 1
        /\ \A i, j \in 1..(Len(s) - 1) : i # j => i + 1 # j + 1
    BY <2>1
  <2>3. Once(Tail(s))
    BY <1>0, <2>1, <2>2 DEF Once
  <2>4. \A i \in 1..(Len(s) - 1) : Tail(s)[i] # s[1]
    BY <1>0, <2>1, <2>2 DEF Once
  <2>. QED
    BY <2>1, <2>3, <2>4 DEF RangeOf
<1>. QED
    BY <1>1, <1>2, <1>3

\* What a step that leaves the order as it is has to show of it.
LEMMA OrderStays ==
    ASSUME OrderAt, UNCHANGED <<active, conns, twice, ordering>>,
           phase' \notin {"start", "check"} => phase \notin {"start", "check"},
           phase' \notin {"start", "check", "order"} => queue = <<>>
    PROVE  OrderAt'
<1>1. Edges' = Edges
    BY SameDefinition
<1>2. \A n : Unordered(n)' = Unordered(n)
    BY <1>1 DEF Unordered, ordering
<1>3. OrderRespectsConnections'
    BY <1>1 DEF OrderAt, OrderRespectsConnections, ordering
<1>. QED
    BY <1>1, <1>2, <1>3 DEF OrderAt, ordering

LEMMA StepsStay ==
    ASSUME StepsAt, UNCHANGED <<active, conns, twice, order, plan>>,
           phase' \notin {"plan", "compiled"} => plan = <<>>,
           phase' = "compiled" => Len(plan) = Len(order)
    PROVE  StepsAt'
<1>1. \A n : StepOf(n)' = StepOf(n)
    BY SameDefinition
<1>. QED
    BY <1>1 DEF StepsAt

LEMMA ActivateKeeps ==
    ASSUME PlanInv, Activate
    PROVE  PlanInv'
<1>1. /\ queue = <<>> /\ order = <<>> /\ errors = {} /\ chats = {} /\ frontier = <<>>
      /\ reached = {} /\ terminal = <<>> /\ plan = <<>>
    BY DEF PlanInv, PlanTypes, StepsAt, Activate
<1>2. PlanTypes'
  <2>1. /\ nodes' = nodes /\ skipped' = skipped /\ twice' = twice /\ edges' = edges
        /\ indegree' = indegree /\ queue' = <<>> /\ order' = <<>> /\ chats' = {}
        /\ frontier' = <<>> /\ reached' = {} /\ errors' = {} /\ terminal' = <<>>
    BY <1>1 DEF Activate, definition, ordering, walking
  <2>2. active' \subseteq nodes' /\ conns' \subseteq edges'
    <3>1. PICK half \in SUBSET (skipped \cap twice) : active' = (nodes \ skipped) \cup half
      BY DEF Activate
    <3>2. skipped \subseteq nodes
      BY DEF PlanInv, PlanTypes
    <3>3. conns' = IF skipped = {} THEN edges
                   ELSE {e \in edges : e.from \in active' /\ e.to \in active'}
      BY DEF Activate
    <3>. QED
      BY <2>1, <3>1, <3>2, <3>3
  <2>3. phase' = "check"
    BY DEF Activate
  <2>4. /\ nodes \subseteq Node /\ edges \subseteq Connection
        /\ skipped \subseteq nodes /\ twice \subseteq nodes
        /\ indegree \in [Node -> Nat]
    BY DEF PlanInv, PlanTypes
  <2>. QED
    BY ONLY <2>1, <2>2, <2>3, <2>4 DEF PlanTypes
<1>3. OrderAt'
  <2>1. order' = <<>> /\ queue' = <<>> /\ phase' = "check"
    BY <1>1 DEF Activate, ordering
  <2>2. (Once(order) /\ Once(queue) /\ RangeOf(order) = {} /\ OrderRespectsConnections)'
    BY <2>1 DEF Once, RangeOf, OrderRespectsConnections
  <2>. QED
    BY <2>1, <2>2 DEF OrderAt
<1>4. ErrorsAt' /\ WalkAt' /\ AnswersAt'
    BY DEF Activate, ErrorsAt, WalkAt, AnswersAt
<1>5. StepsAt'
  <2>1. plan' = <<>> /\ order' = <<>> /\ phase' = "check"
    BY <1>1 DEF Activate, ordering
  <2>. QED
    BY ONLY <2>1 DEF StepsAt
<1>. QED
    BY <1>2, <1>3, <1>4, <1>5 DEF PlanInv

LEMMA CheckKeeps ==
    ASSUME PlanInv, Check
    PROVE  PlanInv'
<1>1. /\ queue = <<>> /\ order = <<>> /\ errors = {} /\ chats = {} /\ frontier = <<>>
      /\ reached = {} /\ terminal = <<>> /\ plan = <<>> /\ PlanTypes
    BY DEF PlanInv, PlanTypes, StepsAt, Check
<1>2. /\ UNCHANGED <<nodes, skipped, twice, edges, active, conns, order, chats, frontier, reached,
                     terminal, plan>>
      /\ phase' = "order" /\ order' = <<>> /\ RangeOf(order)' = {}
    BY <1>1 DEF Check, definition, walking, RangeOf
<1>3. /\ indegree' \in [Node -> Nat]
      /\ \A n \in Node : indegree'[n] = Cardinality(Unordered(n)')
  <2>1. indegree' = [n \in Node |-> Cardinality({e \in Edges : e.to = n})]
    BY DEF Check
  <2>2. \A n \in Node : {e \in Edges : e.to = n} \in SUBSET Edges
    OBVIOUS
  <2>3. \A n \in Node : Cardinality({e \in Edges : e.to = n}) \in Nat
    BY <1>1, <2>2, SetsAreFinite
  <2>4. \A n \in Node : Unordered(n)' = {e \in Edges : e.to = n}
    BY <1>2, SameDefinition DEF Unordered
  <2>. QED
    BY <2>1, <2>3, <2>4
<1>4. /\ queue' \in Seq(active) /\ RangeOf(queue)' = {n \in active : indegree'[n] = 0}
      /\ Once(queue)'
  <2> DEFINE S == {n \in active : indegree'[n] = 0}
  <2>1. S \in SUBSET Node /\ S \subseteq active
    BY <1>1, SetsAreFinite
  <2>2. queue' \in Ascending(S)
    BY DEF Check
  <2> HIDE DEF S
  <2>3. queue' \in Seq(S) /\ RangeOf(queue') = S /\ Once(queue')
    BY <2>1, <2>2, AscendingLists
  <2>4. queue' \in Seq(active)
    BY <2>1, <2>3
  <2>5. RangeOf(queue)' = RangeOf(queue') /\ Once(queue)' = Once(queue')
    BY DEF RangeOf, Once
  <2>. QED
    BY <2>3, <2>4, <2>5 DEF S
<1>5. PlanTypes'
  <2>1. /\ nodes \subseteq Node /\ edges \subseteq Connection
        /\ skipped \subseteq nodes /\ twice \subseteq nodes
        /\ active \subseteq nodes /\ conns \subseteq edges
    BY <1>1 DEF PlanTypes
  <2>. QED
    BY ONLY <1>1, <1>2, <1>3, <1>4, <2>1 DEF PlanTypes
<1>6. OrderAt'
  <2>1. (Once(order) /\ OrderRespectsConnections)'
    BY <1>2 DEF Once, OrderRespectsConnections
  <2>2. (\A n \in active : n \in RangeOf(order) \cup RangeOf(queue) <=> indegree[n] = 0)'
    BY <1>2, <1>4
  <2>3. (\A n \in Node : indegree[n] = Cardinality(Unordered(n)))'
    BY <1>3
  <2>4. (RangeOf(order) \cap RangeOf(queue) = {} /\ Once(queue) /\ phase = "order")'
    BY <1>2, <1>4
  <2>. QED
    BY ONLY <2>1, <2>2, <2>3, <2>4 DEF OrderAt
<1>7. ErrorsAt'
  <2>1. errors' = (ConnectionErrors \cup NodeErrors)'
    BY <1>2, SameDefinition DEF Check
  <2>2. "graph_cycle" \notin errors'
    BY DEF Check, ConnectionErrors, NodeErrors
  <2>. QED
    BY <1>2, <2>1, <2>2 DEF ErrorsAt
<1>8. WalkAt' /\ AnswersAt'
    BY <1>2 DEF WalkAt, AnswersAt
<1>9. StepsAt'
    BY ONLY <1>1, <1>2 DEF StepsAt
<1>. QED
    BY <1>5, <1>6, <1>7, <1>8, <1>9 DEF PlanInv

\* The head of the queue has no unordered source, and the order takes from each node the
\* connections that come from it.
LEMMA OrderStepKeeps ==
    ASSUME PlanInv, OrderStep
    PROVE  PlanInv'
<1> DEFINE h == Head(queue)
           From(n) == {e \in Edges : e.from = h /\ e.to = n}
           R == NewlyReady(indegree', h)
<1>1. /\ PlanTypes /\ OrderAt /\ phase = "order" /\ queue # <<>>
      /\ UNCHANGED <<nodes, skipped, twice, edges, active, conns, phase, chats, frontier, reached,
                     errors, terminal, plan>>
      /\ order' = Append(order, h)
      /\ indegree' = [n \in Node |-> indegree[n] - Cardinality(From(n))]
      /\ \E ready \in Ascending(R) : queue' = Tail(queue) \o ready
    BY DEF PlanInv, OrderStep, definition, walking
<1>2. /\ queue \in Seq(active) /\ order \in Seq(active) /\ indegree \in [Node -> Nat]
      /\ active \subseteq Node
    BY <1>1, SetsAreFinite DEF PlanTypes
<1>3. /\ \A n \in Node : indegree[n] = Cardinality(Unordered(n))
      /\ \A n \in active : n \in RangeOf(order) \cup RangeOf(queue) <=> indegree[n] = 0
      /\ Once(order) /\ Once(queue) /\ RangeOf(order) \cap RangeOf(queue) = {}
      /\ OrderRespectsConnections
    BY <1>1 DEF OrderAt
<1>4. /\ h \in active /\ Tail(queue) \in Seq(active) /\ Once(Tail(queue))
      /\ RangeOf(queue) = {h} \cup RangeOf(Tail(queue)) /\ h \notin RangeOf(Tail(queue))
  <2>1. /\ h \in active /\ Tail(queue) \in Seq(active)
        /\ RangeOf(queue) = {h} \cup RangeOf(Tail(queue))
    <3>1. PICK y : y \in active
      BY <1>1, <1>2
    <3>. QED
      BY <1>1, <1>2, <3>1, Listed
  <2>2. Once(Tail(queue)) /\ h \notin RangeOf(Tail(queue))
    BY <1>1, <1>2, <1>3, <2>1, ListedOnce
  <2>. QED
    BY <2>1, <2>2
<1>5. h \notin RangeOf(order) /\ indegree[h] = 0 /\ Unordered(h) = {}
  <2>1. h \notin RangeOf(order) /\ indegree[h] = 0
    BY <1>3, <1>4
  <2>2. Unordered(h) \in SUBSET Edges /\ Cardinality(Unordered(h)) = 0
    BY <1>2, <1>3, <1>4, <2>1 DEF Unordered
  <2>. QED
    BY <1>1, <2>1, <2>2, SetsAreFinite
<1> HIDE DEF h
<1>6. /\ order' \in Seq(active) /\ RangeOf(order)' = RangeOf(order) \cup {h} /\ Once(order)'
  <2>1. /\ Append(order, h) \in Seq(active) /\ Once(Append(order, h))
        /\ RangeOf(Append(order, h)) = RangeOf(order) \cup {h}
    BY <1>2, <1>3, <1>4, <1>5, Listed, ListedOnce
  <2>2. RangeOf(order)' = RangeOf(order') /\ Once(order)' = Once(order')
    BY DEF RangeOf, Once
  <2>. QED
    BY <1>1, <2>1, <2>2
<1>7. \A n \in Node :
         /\ indegree'[n] = Cardinality(Unordered(n)') /\ indegree'[n] \in Nat
         /\ indegree'[n] <= indegree[n]
  <2> SUFFICES ASSUME NEW n \in Node
               PROVE  /\ indegree'[n] = Cardinality(Unordered(n)') /\ indegree'[n] \in Nat
                      /\ indegree'[n] <= indegree[n]
    OBVIOUS
  <2>1. /\ Unordered(n) \in SUBSET Edges /\ From(n) \in SUBSET Edges
        /\ Unordered(n) \cap From(n) = From(n)
    BY <1>5 DEF Unordered
  <2>2. Unordered(n)' = Unordered(n) \ From(n)
    BY <1>1, <1>6, SameDefinition DEF Unordered
  <2>3. /\ IsFiniteSet(Unordered(n)) /\ Cardinality(Unordered(n)) \in Nat
        /\ Cardinality(From(n)) \in Nat /\ Cardinality(Unordered(n)') \in Nat
    BY <1>1, <2>1, <2>2, SetsAreFinite
  <2>4. Cardinality(Unordered(n)') = Cardinality(Unordered(n)) - Cardinality(From(n))
    BY <2>1, <2>2, <2>3, FS_Difference
  <2>5. indegree'[n] = Cardinality(Unordered(n)) - Cardinality(From(n))
    BY <1>1, <1>3
  <2>. QED
    BY <1>3, <2>3, <2>4, <2>5
<1>8. /\ queue' \in Seq(active) /\ RangeOf(queue)' = RangeOf(Tail(queue)) \cup R /\ Once(queue)'
      /\ R \subseteq active /\ R \cap (RangeOf(order) \cup RangeOf(queue)) = {}
  <2>1. R \in SUBSET Node /\ R \subseteq active /\ \A m \in R : indegree[m] # 0
    BY <1>2 DEF NewlyReady
  <2>2. R \cap (RangeOf(order) \cup RangeOf(queue)) = {}
    BY <1>3, <2>1
  <2>3. PICK ready \in Ascending(R) : queue' = Tail(queue) \o ready
    BY <1>1
  <2> HIDE DEF R
  <2>4. ready \in Seq(R) /\ RangeOf(ready) = R /\ Once(ready)
    BY <2>1, AscendingLists
  <2>5. ready \in Seq(active) /\ RangeOf(Tail(queue)) \cap RangeOf(ready) = {}
    BY <1>4, <2>1, <2>2, <2>4
  <2>6. /\ Tail(queue) \o ready \in Seq(active) /\ Once(Tail(queue) \o ready)
        /\ RangeOf(Tail(queue) \o ready) = RangeOf(Tail(queue)) \cup RangeOf(ready)
    <3>1. /\ Tail(queue) \o ready \in Seq(active)
          /\ RangeOf(Tail(queue) \o ready) = RangeOf(Tail(queue)) \cup RangeOf(ready)
      <4> DEFINE rest == Tail(queue)
      <4>1. rest \in Seq(active) /\ ready \in Seq(active)
        BY <1>4, <2>5
      <4> HIDE DEF rest
      <4>2. rest \o ready \in Seq(active) /\ RangeOf(rest \o ready) = RangeOf(rest) \cup RangeOf(ready)
        BY ONLY <4>1, Listed
      <4>. QED
        BY <4>2 DEF rest
    <3>2. Once(Tail(queue) \o ready)
      BY ONLY <1>4, <2>4, <2>5, ListedOnce
    <3>. QED
      BY <3>1, <3>2
  <2>7. RangeOf(queue)' = RangeOf(queue') /\ Once(queue)' = Once(queue')
    BY DEF RangeOf, Once
  <2>. QED
    BY <2>1, <2>2, <2>3, <2>4, <2>6, <2>7
<1>9. \A m \in active : m \in R <=> indegree[m] # 0 /\ indegree'[m] = 0
    BY <1>2, <1>7 DEF NewlyReady
<1> HIDE DEF R, From
<1>10. indegree' \in [Node -> Nat]
    BY <1>1, <1>7
<1>11. PlanTypes'
  <2>1. /\ nodes \subseteq Node /\ edges \subseteq Connection
        /\ skipped \subseteq nodes /\ twice \subseteq nodes
        /\ active \subseteq nodes /\ conns \subseteq edges
        /\ chats = {} /\ frontier = <<>> /\ reached = {} /\ terminal = <<>>
    BY <1>1 DEF PlanTypes
  <2>. QED
    BY ONLY <1>1, <1>6, <1>8, <1>10, <2>1 DEF PlanTypes
<1>12. OrderRespectsConnections'
  <2> SUFFICES ASSUME NEW i \in DOMAIN order', NEW e \in Edges, e.to = order'[i]
               PROVE  \E j \in 1..(i - 1) : order'[j] = e.from
    BY <1>1, SameDefinition DEF OrderRespectsConnections
  <2>1. /\ Len(order) \in Nat /\ DOMAIN order = 1..Len(order)
        /\ DOMAIN order' = 1..(Len(order) + 1) /\ order'[Len(order) + 1] = h
        /\ \A k \in 1..Len(order) : order'[k] = order[k]
    BY <1>1, <1>2, <1>4
  <2>2. CASE i \in 1..Len(order)
    <3>1. PICK j \in 1..(i - 1) : order[j] = e.from
      BY <1>3, <2>1, <2>2 DEF OrderRespectsConnections
    <3>2. j \in 1..Len(order)
      BY <2>1, <2>2
    <3>. QED
      BY <2>1, <3>1, <3>2
  <2>3. CASE i = Len(order) + 1
    <3>1. e.from \in RangeOf(order)
      BY <1>5, <2>1, <2>3 DEF Unordered
    <3>2. PICK j \in 1..Len(order) : order[j] = e.from
      BY <2>1, <3>1 DEF RangeOf
    <3>3. j \in 1..(i - 1)
      BY <2>1, <2>3
    <3>. QED
      BY <2>1, <3>2, <3>3
  <2>. QED
    BY <2>1, <2>2, <2>3
<1>13. OrderAt'
  <2>1. (\A n \in active : n \in RangeOf(order) \cup RangeOf(queue) <=> indegree[n] = 0)'
    <3> SUFFICES ASSUME NEW n \in active
                 PROVE  n \in RangeOf(order)' \cup RangeOf(queue)' <=> indegree'[n] = 0
      BY <1>1
    <3>1. n \in RangeOf(order)' \cup RangeOf(queue)'
             <=> n \in RangeOf(order) \cup RangeOf(queue) \cup R
      BY <1>4, <1>6, <1>8
    <3>2. indegree[n] \in Nat /\ indegree'[n] \in Nat /\ indegree'[n] <= indegree[n]
      BY <1>2, <1>7
    <3>. QED
      BY <1>3, <1>9, <3>1, <3>2
  <2>2. (RangeOf(order) \cap RangeOf(queue) = {})'
    BY <1>3, <1>4, <1>6, <1>8
  <2>3. (\A n \in Node : indegree[n] = Cardinality(Unordered(n)))'
    BY <1>7
  <2>4. phase' = "order"
    BY <1>1
  <2>. QED
    BY ONLY <1>6, <1>8, <1>12, <2>1, <2>2, <2>3, <2>4 DEF OrderAt
<1>14. ErrorsAt'
    BY <1>1, SameDefinition DEF PlanInv, ErrorsAt
<1>15. WalkAt' /\ AnswersAt'
    BY <1>1 DEF WalkAt, AnswersAt
<1>16. StepsAt'
  <2>1. plan' = <<>> /\ phase' = "order" /\ Len(order') = Len(order) + 1 /\ Len(order) \in Nat
    BY <1>1, <1>2, <1>4 DEF PlanInv, StepsAt
  <2>. QED
    BY ONLY <2>1 DEF StepsAt
<1>. QED
    BY <1>11, <1>13, <1>14, <1>15, <1>16 DEF PlanInv

LEMMA OrderedKeeps ==
    ASSUME PlanInv, Ordered
    PROVE  PlanInv'
<1>1. /\ PlanTypes /\ OrderAt /\ ErrorsAt /\ phase = "order" /\ queue = <<>> /\ plan = <<>>
      /\ UNCHANGED <<nodes, skipped, twice, edges, active, conns, indegree, queue, order, frontier,
                     reached, terminal, plan>>
      /\ UNCHANGED ordering
      /\ chats' = Chats /\ phase' = "chat"
    BY DEF PlanInv, StepsAt, Ordered, definition, ordering
<1>2. PlanTypes'
  <2>1. /\ nodes \subseteq Node /\ edges \subseteq Connection
        /\ skipped \subseteq nodes /\ twice \subseteq nodes
        /\ active \subseteq nodes /\ conns \subseteq edges /\ indegree \in [Node -> Nat]
        /\ queue \in Seq(active) /\ order \in Seq(active)
        /\ frontier = <<>> /\ reached = {} /\ terminal = <<>>
    BY <1>1 DEF PlanTypes
  <2>2. chats' \subseteq Chats'
    BY <1>1, SameDefinition
  <2>. QED
    BY ONLY <1>1, <2>1, <2>2 DEF PlanTypes
<1>3. OrderAt'
    BY <1>1, OrderStays
<1>4. ErrorsAt'
  <2>1. /\ ConnectionErrors \cup NodeErrors \subseteq errors /\ "graph_cycle" \notin errors
    BY <1>1 DEF ErrorsAt
  <2>2. "graph_cycle" \notin GraphErrors
    BY DEF GraphErrors
  <2>3. errors' = errors \cup GraphErrors
                  \cup (IF Len(order) # Cardinality(active) + Cardinality(Repeated)
                        THEN {"graph_cycle"} ELSE {})
    BY DEF Ordered
  <2>4. /\ ConnectionErrors' = ConnectionErrors /\ NodeErrors' = NodeErrors
        /\ GraphErrors' = GraphErrors /\ Repeated' = Repeated
    BY <1>1, SameDefinition
  <2>5. "graph_cycle" \in errors' <=> Len(order) # Cardinality(active) + Cardinality(Repeated)
    BY <2>1, <2>2, <2>3
  <2>6. ConnectionErrors \cup NodeErrors \cup GraphErrors \subseteq errors'
    BY <2>1, <2>3
  <2>. QED
    BY ONLY <1>1, <2>4, <2>5, <2>6 DEF ErrorsAt
<1>5. WalkAt' /\ AnswersAt'
  <2>1. Chats' \ chats' = {} /\ phase' = "chat"
    BY <1>1, SameDefinition
  <2>. QED
    BY ONLY <2>1 DEF WalkAt, AnswersAt
<1>6. StepsAt'
    BY <1>1, StepsStay DEF PlanInv
<1>. QED
    BY <1>2, <1>3, <1>4, <1>5, <1>6 DEF PlanInv

\* What the walks leave as it is.
LEMMA ErrorsStay ==
    ASSUME ErrorsAt, UNCHANGED <<active, conns, twice, order>>, errors \subseteq errors',
           phase \notin {"start", "check", "order"}, phase' \notin {"start", "check", "order"},
           "graph_cycle" \in errors' => "graph_cycle" \in errors,
           phase' \in {"plan", "compiled"} => errors' = {} /\ chats' = {}
    PROVE  ErrorsAt'
<1>1. /\ ConnectionErrors' = ConnectionErrors /\ NodeErrors' = NodeErrors
      /\ GraphErrors' = GraphErrors /\ Repeated' = Repeated
    BY SameDefinition
<1>. QED
    BY <1>1 DEF ErrorsAt

LEMMA StartChatKeeps ==
    ASSUME PlanInv, StartChat
    PROVE  PlanInv'
<1> DEFINE Found == [chat : active, output : active \cup {0}]
<1>1. PICK c \in chats : /\ chats' = chats \ {c} /\ frontier' = <<c>> /\ reached' = {}
                         /\ terminal' = Append(terminal, [chat |-> c, output |-> 0])
    BY DEF StartChat
<1>2. /\ PlanTypes /\ OrderAt /\ ErrorsAt /\ AnswersAt /\ phase = "chat" /\ plan = <<>>
      /\ UNCHANGED <<nodes, skipped, twice, edges, active, conns, indegree, queue, order, errors, plan>>
      /\ UNCHANGED ordering /\ phase' = "walk"
    BY DEF PlanInv, StepsAt, StartChat, definition, ordering
<1>3. c \in Chats /\ c \in active /\ terminal \in Seq(Found)
    BY <1>2 DEF PlanTypes, Chats
<1>4. /\ terminal' \in Seq(Found) /\ Len(terminal) \in Nat /\ Len(terminal') = Len(terminal) + 1
      /\ terminal'[Len(terminal')].chat = c /\ terminal' # <<>>
      /\ \A k \in 1..Len(terminal) :
           k \in 1..Len(terminal') /\ k < Len(terminal') /\ terminal'[k] = terminal[k]
  <2> DEFINE new == [chat |-> c, output |-> 0]
  <2>1. new \in Found /\ new.chat = c
    BY <1>3
  <2> HIDE DEF new, Found
  <2>2. /\ terminal' \in Seq(Found) /\ Len(terminal) \in Nat /\ Len(terminal') = Len(terminal) + 1
        /\ terminal'[Len(terminal) + 1] = new
        /\ \A k \in 1..Len(terminal) : terminal'[k] = terminal[k]
    BY <1>1, <1>3, <2>1 DEF new
  <2>. QED
    BY <2>1, <2>2
<1>5. PlanTypes'
  <2>1. /\ nodes \subseteq Node /\ edges \subseteq Connection
        /\ skipped \subseteq nodes /\ twice \subseteq nodes
        /\ active \subseteq nodes /\ conns \subseteq edges /\ indegree \in [Node -> Nat]
        /\ queue \in Seq(active) /\ order \in Seq(active) /\ chats \subseteq Chats
    BY <1>2 DEF PlanTypes
  <2>2. chats' \subseteq Chats'
    BY <1>1, <1>2, <2>1, SameDefinition
  <2>3. frontier' \in Seq(active) /\ reached' \subseteq active
    BY <1>1, <1>3
  <2>. QED
    BY ONLY <1>2, <1>4, <2>1, <2>2, <2>3 DEF PlanTypes
<1>6. OrderAt'
    BY <1>2, OrderStays DEF OrderAt
<1>7. ErrorsAt'
    BY <1>2, ErrorsStay
<1>8. WalkAt'
  <2>1. c \in Chats' \ chats'
    BY <1>1, <1>2, <1>3, SameDefinition
  <2>2. RangeOf(frontier)' = {c}
    BY <1>1 DEF RangeOf
  <2>. QED
    BY ONLY <1>1, <1>4, <2>1, <2>2 DEF WalkAt
<1>9. AnswersAt'
  <2> SUFFICES ASSUME errors' = {}, NEW d \in Chats' \ chats', d # c
               PROVE  Answered(d)'
    BY <1>2, <1>4 DEF AnswersAt
  <2>1. d \in Chats \ chats /\ errors = {}
    BY <1>1, <1>2, SameDefinition
  <2>2. Answered(d)
    BY <1>2, <2>1 DEF AnswersAt
  <2>3. PICK k \in 1..Len(terminal) : terminal[k].chat = d /\ Answers(d) = {terminal[k].output}
    BY <1>3, <2>2 DEF Answered
  <2>4. Answers(d)' = Answers(d)
    BY <1>2, SameDefinition
  <2>5. DOMAIN terminal' = 1..Len(terminal')
    BY <1>4
  <2>. QED
    BY ONLY <1>4, <2>3, <2>4, <2>5 DEF Answered
<1>10. StepsAt'
    BY <1>2, StepsStay DEF PlanInv
<1>. QED
    BY <1>5, <1>6, <1>7, <1>8, <1>9, <1>10 DEF PlanInv

\* The targets of the connections of a definition are among its nodes.
LEMMA DataStays ==
    ASSUME PlanTypes
    PROVE  /\ \A p \in Pairs(Edges) : p[1] \in active /\ p[2] \in active /\ p[2] \in Node
           /\ \A p \in DataPairs : p \in Pairs(Edges) /\ p[2] \in DataTargets(p[1]) /\ p[2] \in Node
           /\ \A n : /\ DataTargets(n) \subseteq active
                     /\ \A m \in DataTargets(n) : <<n, m>> \in DataPairs
<1>1. \A e \in Edges : e.from \in active /\ e.to \in active /\ e.to \in Node
    BY SetsAreFinite DEF Edges
<1>2. \A p \in Pairs(Edges) : p[1] \in active /\ p[2] \in active /\ p[2] \in Node
    BY <1>1 DEF Pairs
<1>3. \A p \in DataPairs : p \in Pairs(Edges) /\ p[2] \in DataTargets(p[1]) /\ p[2] \in Node
  <2> SUFFICES ASSUME NEW e \in Edges, e.kind = "data"
               PROVE  /\ <<e.from, e.to>> \in Pairs(Edges) /\ e.to \in DataTargets(e.from)
                      /\ e.to \in Node
    BY DEF DataPairs, Pairs
  <2>. QED
    BY <1>1 DEF Pairs, DataTargets
<1>4. \A n : DataTargets(n) \subseteq active
    BY <1>1 DEF DataTargets
<1>5. \A n : \A m \in DataTargets(n) : <<n, m>> \in DataPairs
    BY DEF DataTargets, DataPairs, Pairs
<1>. QED
    BY <1>2, <1>3, <1>4, <1>5

LEMMA WalkStepKeeps ==
    ASSUME PlanInv, WalkStep
    PROVE  PlanInv'
<1> DEFINE h == Head(frontier)
           c == terminal[Len(terminal)].chat
           new == DataTargets(h) \ reached
<1>1. /\ PlanTypes /\ OrderAt /\ ErrorsAt /\ WalkAt /\ AnswersAt /\ plan = <<>>
      /\ phase = "walk" /\ frontier # <<>>
      /\ UNCHANGED <<nodes, skipped, twice, edges, active, conns, phase, indegree, queue, order, chats,
                     errors, terminal, plan>>
      /\ UNCHANGED ordering
      /\ reached' = reached \cup new
      /\ \E next \in Ascending(new) : frontier' = Tail(frontier) \o next
    BY DEF PlanInv, StepsAt, WalkStep, definition, ordering
<1>2. /\ nodes \subseteq Node /\ edges \subseteq Connection
      /\ skipped \subseteq nodes /\ twice \subseteq nodes
      /\ active \subseteq nodes /\ conns \subseteq edges /\ indegree \in [Node -> Nat]
      /\ queue \in Seq(active) /\ order \in Seq(active) /\ chats \subseteq Chats
      /\ frontier \in Seq(active) /\ reached \subseteq active /\ active \subseteq Node
      /\ terminal \in Seq([chat : active, output : active \cup {0}])
    BY <1>1, SetsAreFinite DEF PlanTypes
<1>3. /\ terminal # <<>> /\ c \in Chats \ chats /\ reached \subseteq Closure({c}, DataPairs)
      /\ RangeOf(frontier) \subseteq reached \cup {c}
      /\ \A n \in reached \cup {c} : n \in RangeOf(frontier) \/ DataTargets(n) \subseteq reached
    BY <1>1 DEF WalkAt
<1>4. /\ Tail(frontier) \in Seq(active) /\ RangeOf(frontier) = {h} \cup RangeOf(Tail(frontier))
    BY <1>1, <1>2, Listed
<1>5. new \in SUBSET Node /\ new \subseteq active /\ new \subseteq Closure({c}, DataPairs)
  <2>1. {c} \in SUBSET Node /\ \A p \in DataPairs : p[2] \in Node
    BY <1>1, <1>2, <1>3, DataStays DEF Chats
  <2>2. h \in Closure({c}, DataPairs)
    BY <1>3, <1>4, ClosureHasStart
  <2>3. \A p \in DataPairs : p[1] \in Closure({c}, DataPairs) => p[2] \in Closure({c}, DataPairs)
    BY <2>1, ClosureIsClosed
  <2>4. \A m \in DataTargets(h) : <<h, m>> \in DataPairs /\ m \in active
    BY <1>1, DataStays
  <2> HIDE DEF h, c
  <2>5. \A m \in DataTargets(h) : m \in Closure({c}, DataPairs)
    BY <2>2, <2>3, <2>4
  <2>. QED
    BY <1>2, <2>4, <2>5
<1>6. frontier' \in Seq(active) /\ RangeOf(frontier)' = RangeOf(Tail(frontier)) \cup new
  <2>1. PICK next \in Ascending(new) : frontier' = Tail(frontier) \o next
    BY <1>1
  <2> DEFINE rest == Tail(frontier)
  <2> HIDE DEF new
  <2>2. next \in Seq(new) /\ RangeOf(next) = new
    BY <1>5, <2>1, AscendingLists
  <2>3. next \in Seq(active) /\ rest \in Seq(active)
    BY <1>4, <1>5, <2>2
  <2>4. frontier' = rest \o next
    BY <2>1
  <2> HIDE DEF rest
  <2>5. rest \o next \in Seq(active) /\ RangeOf(rest \o next) = RangeOf(rest) \cup RangeOf(next)
    BY ONLY <2>3, Listed
  <2>6. RangeOf(frontier)' = RangeOf(frontier')
    BY DEF RangeOf
  <2>. QED
    BY <2>2, <2>4, <2>5, <2>6 DEF rest
<1>7. PlanTypes'
  <2>1. chats' \subseteq Chats'
    BY <1>1, <1>2, SameDefinition
  <2>2. reached' \subseteq active'
    BY <1>1, <1>2, <1>5
  <2>. QED
    BY ONLY <1>1, <1>2, <1>6, <2>1, <2>2 DEF PlanTypes
<1>8. OrderAt'
    BY <1>1, OrderStays DEF OrderAt
<1>9. ErrorsAt'
    BY <1>1, ErrorsStay
<1>10. WalkAt'
  <2>1. c' = c /\ Chats' = Chats /\ DataPairs' = DataPairs /\ \A n : DataTargets(n)' = DataTargets(n)
    BY <1>1, SameDefinition
  <2>2. reached' \subseteq Closure({c}, DataPairs)
    BY <1>1, <1>3, <1>5
  <2>3. RangeOf(frontier)' \subseteq reached' \cup {c}
    BY <1>1, <1>3, <1>4, <1>6
  <2>4. \A n \in reached' \cup {c} :
           n \in RangeOf(frontier)' \/ DataTargets(n) \subseteq reached'
    <3> SUFFICES ASSUME NEW n \in reached' \cup {c}, n \notin RangeOf(frontier)'
                 PROVE  DataTargets(n) \subseteq reached'
      OBVIOUS
    <3>1. CASE n = h
      BY <1>1, <3>1
    <3>2. CASE n # h
      <4>1. n \in reached \cup {c} /\ n \notin RangeOf(frontier)
        BY <1>1, <1>4, <1>6, <3>2
      <4>. QED
        BY <1>1, <1>3, <4>1
    <3>. QED
      BY <3>1, <3>2
  <2>5. Closure({c}, DataPairs)' = Closure({c}, DataPairs)
    BY <2>1 DEF Closure
  <2> SUFFICES /\ terminal' # <<>>
               /\ c' \in (Chats \ chats)' /\ reached' \subseteq Closure({c}, DataPairs)'
               /\ RangeOf(frontier)' \subseteq reached' \cup {c'}
               /\ \A n \in reached' \cup {c'} :
                    n \in RangeOf(frontier)' \/ DataTargets(n)' \subseteq reached'
    BY DEF WalkAt
  <2> HIDE DEF c
  <2>. QED
    BY <1>1, <1>3, <2>1, <2>2, <2>3, <2>4, <2>5
<1>11. AnswersAt'
  <2>1. Chats' = Chats /\ \A d : Answers(d)' = Answers(d)
    BY <1>1, SameDefinition
  <2>2. \A d : Answered(d) => Answered(d)'
    BY <1>1, <2>1 DEF Answered
  <2>. QED
    BY <1>1, <2>1, <2>2 DEF AnswersAt
<1>12. StepsAt'
    BY <1>1, StepsStay DEF PlanInv
<1>. QED
    BY <1>7, <1>8, <1>9, <1>10, <1>11, <1>12 DEF PlanInv

LEMMA WalkedKeeps ==
    ASSUME PlanInv, Walked
    PROVE  PlanInv'
<1> DEFINE top == Len(terminal)
           c == terminal[top].chat
           found == reached \cap Terminals
           Found == [chat : active, output : active \cup {0}]
<1>1. /\ PlanTypes /\ OrderAt /\ ErrorsAt /\ WalkAt /\ AnswersAt /\ plan = <<>>
      /\ phase = "walk" /\ frontier = <<>> /\ phase' = "chat"
      /\ UNCHANGED <<nodes, skipped, twice, edges, active, conns, indegree, queue, order, chats,
                     frontier, reached, plan>>
      /\ UNCHANGED ordering
    BY DEF PlanInv, StepsAt, Walked, definition, ordering, walking
<1>2. \/ /\ Cardinality(found) = 1 /\ errors' = errors
         /\ terminal' = [terminal EXCEPT ![top].output = CHOOSE n \in found : TRUE]
      \/ /\ errors' = errors \cup {"chat_terminal_output_count"} /\ terminal' = terminal
    BY DEF Walked
<1>3. /\ nodes \subseteq Node /\ edges \subseteq Connection
      /\ skipped \subseteq nodes /\ twice \subseteq nodes
      /\ active \subseteq nodes /\ conns \subseteq edges /\ indegree \in [Node -> Nat]
      /\ queue \in Seq(active) /\ order \in Seq(active) /\ chats \subseteq Chats
      /\ reached \subseteq active /\ terminal \in Seq(Found)
    BY <1>1 DEF PlanTypes
<1>4. /\ terminal # <<>> /\ c \in Chats \ chats /\ reached \subseteq Closure({c}, DataPairs)
      /\ \A n \in reached \cup {c} : DataTargets(n) \subseteq reached
  <2>1. RangeOf(frontier) = {}
    BY <1>1 DEF RangeOf
  <2>. QED
    BY <1>1, <2>1 DEF WalkAt
<1>5. /\ top \in Nat /\ top >= 1 /\ DOMAIN terminal = 1..top /\ top \in 1..top
      /\ \A k \in 1..top : terminal[k] \in Found
  <2> HIDE DEF Found
  <2>. QED
    BY <1>3, <1>4
<1>6. found = Answers(c)
  <2> HIDE DEF c
  <2>1. \A p \in DataPairs : p[1] \in reached \cup {c} => p[2] \in reached \cup {c}
    BY <1>1, <1>4, DataStays
  <2>2. {c} \subseteq reached \cup {c}
    OBVIOUS
  <2>3. Closure({c}, DataPairs) \subseteq reached \cup {c}
    BY <2>1, <2>2, ClosureIsLeast
  <2>4. c \notin Terminals
    BY <1>4 DEF Chats, Terminals
  <2>. QED
    BY <1>4, <2>3, <2>4 DEF Answers
<1>7. Cardinality(found) = 1 => \E x \in found : found = {x} /\ (CHOOSE n \in found : TRUE) = x
  <2>1. IsFiniteSet(found)
    BY <1>1, <1>3, SetsAreFinite DEF Terminals
  <2> HIDE DEF found
  <2> SUFFICES ASSUME Cardinality(found) = 1
               PROVE  \E x \in found : found = {x} /\ (CHOOSE n \in found : TRUE) = x
    OBVIOUS
  <2>2. PICK x : found = {x}
    BY <2>1, FS_Singleton
  <2>. QED
    BY <2>2
<1>8. Chats' = Chats /\ \A d : Answers(d)' = Answers(d)
    BY <1>1, SameDefinition
<1> HIDE DEF found
<1>9. ASSUME Cardinality(found) = 1, errors' = errors,
             terminal' = [terminal EXCEPT ![top].output = CHOOSE n \in found : TRUE]
      PROVE  /\ terminal' \in Seq(Found) /\ AnswersAt'
  <2>1. PICK x \in found : found = {x} /\ (CHOOSE n \in found : TRUE) = x
    BY <1>7, <1>9
  <2>2. terminal' = [terminal EXCEPT ![top] = [terminal[top] EXCEPT !.output = x]]
    BY <1>9, <2>1
  <2>3. x \in active
    BY <1>3, <2>1 DEF found
  <2>4. /\ [terminal[top] EXCEPT !.output = x] \in Found
        /\ [terminal[top] EXCEPT !.output = x].chat = c
        /\ [terminal[top] EXCEPT !.output = x].output = x
    BY <1>5, <2>3
  <2> HIDE DEF c, Found
  <2>5. /\ terminal' \in Seq(Found) /\ DOMAIN terminal' = 1..top /\ Len(terminal') = top
        /\ terminal'[top] = [terminal[top] EXCEPT !.output = x]
        /\ \A k \in 1..top : k # top => terminal'[k] = terminal[k]
    BY <1>3, <1>5, <2>2, <2>4
  <2>6. \A d \in Chats \ chats : errors = {} => Answered(d)'
    <3> SUFFICES ASSUME NEW d \in Chats \ chats, errors = {} PROVE Answered(d)'
      OBVIOUS
    <3>1. CASE d = c
      <4>1. Answers(d)' = {terminal'[top].output} /\ terminal'[top].chat = d
        BY <1>6, <1>8, <2>1, <2>4, <2>5, <3>1
      <4>. QED
        BY <1>1, <1>5, <2>5, <4>1 DEF Answered
    <3>2. CASE d # c
      <4>1. Answered(d)
        BY <1>1, <3>2 DEF AnswersAt, c
      <4>2. PICK k \in 1..top : /\ k < top /\ terminal[k].chat = d
                                /\ Answers(d) = {terminal[k].output}
        BY <1>1, <1>5, <4>1 DEF Answered
      <4> HIDE DEF top
      <4>3. k # top
        BY <1>5, <4>2
      <4> USE DEF top
      <4>. QED
        BY <1>1, <1>8, <2>5, <4>2, <4>3 DEF Answered
    <3>. QED
      BY <3>1, <3>2
  <2>. QED
    BY <1>1, <1>8, <1>9, <2>5, <2>6 DEF AnswersAt
<1>10. ASSUME errors' = errors \cup {"chat_terminal_output_count"}, terminal' = terminal
       PROVE  /\ terminal' \in Seq(Found) /\ AnswersAt'
    BY <1>3, <1>10 DEF AnswersAt
<1>11. terminal' \in Seq(Found) /\ AnswersAt'
    BY <1>2, <1>9, <1>10
<1>12. PlanTypes'
  <2>1. chats' \subseteq Chats'
    BY <1>1, <1>3, <1>8
  <2>2. terminal' \in Seq([chat : active', output : active' \cup {0}])
    BY <1>1, <1>11
  <2> HIDE DEF Found, c, top
  <2>. QED
    BY ONLY <1>1, <1>3, <2>1, <2>2 DEF PlanTypes
<1>13. OrderAt'
    BY <1>1, OrderStays DEF OrderAt
<1>14. ErrorsAt'
  <2>1. errors \subseteq errors' /\ ("graph_cycle" \in errors' => "graph_cycle" \in errors)
    BY <1>2
  <2>. QED
    BY <1>1, <2>1, ErrorsStay
<1>15. WalkAt'
    BY <1>1 DEF WalkAt
<1>16. StepsAt'
    BY <1>1, StepsStay DEF PlanInv
<1>. QED
    BY <1>11, <1>12, <1>13, <1>14, <1>15, <1>16 DEF PlanInv

LEMMA DecideKeeps ==
    ASSUME PlanInv, Decide
    PROVE  PlanInv'
<1>1. /\ PlanTypes /\ OrderAt /\ ErrorsAt /\ AnswersAt /\ plan = <<>>
      /\ phase = "chat" /\ chats = {}
      /\ phase' = "invalid" \/ (phase' = "plan" /\ errors = {})
      /\ UNCHANGED <<nodes, skipped, twice, edges, active, conns, indegree, queue, order, chats,
                     frontier, reached, errors, terminal, plan>>
      /\ UNCHANGED ordering
    BY DEF PlanInv, StepsAt, Decide, definition, ordering, walking
<1>2. phase' \in {"plan", "invalid"}
    BY <1>1
<1>3. PlanTypes'
  <2>1. chats' \subseteq Chats'
    BY <1>1
  <2>. QED
    BY <1>1, <1>2, <2>1 DEF PlanTypes
<1>4. OrderAt'
    BY <1>1, <1>2, OrderStays DEF OrderAt
<1>5. ErrorsAt'
    BY <1>1, <1>2, ErrorsStay
<1>6. WalkAt' /\ AnswersAt'
  <2>1. Chats' = Chats /\ \A d : Answers(d)' = Answers(d)
    BY <1>1, SameDefinition
  <2>2. \A d : Answered(d) => Answered(d)'
    BY <1>1, <1>2, <2>1 DEF Answered
  <2>. QED
    BY <1>1, <1>2, <2>1, <2>2 DEF WalkAt, AnswersAt
<1>7. StepsAt'
    BY <1>1, <1>2, StepsStay DEF PlanInv
<1>. QED
    BY <1>3, <1>4, <1>5, <1>6, <1>7 DEF PlanInv

\* What the search left stays when the plan is built.
LEMMA PlanningKeeps ==
    ASSUME PlanInv, BindStep \/ Compiled, StepsAt'
    PROVE  PlanInv'
<1>1. /\ PlanTypes /\ OrderAt /\ ErrorsAt /\ AnswersAt /\ phase = "plan"
      /\ phase' \in {"plan", "compiled"}
      /\ UNCHANGED <<nodes, skipped, twice, edges, active, conns, indegree, queue, order, chats,
                     frontier, reached, errors, terminal>>
      /\ UNCHANGED ordering
    BY DEF PlanInv, BindStep, Compiled, definition, ordering, walking
<1>2. PlanTypes'
  <2>1. chats' \subseteq Chats'
    BY <1>1, SameDefinition DEF PlanTypes
  <2>. QED
    BY <1>1, <2>1 DEF PlanTypes
<1>3. OrderAt'
    BY <1>1, OrderStays DEF OrderAt
<1>4. ErrorsAt'
    BY <1>1, ErrorsStay DEF ErrorsAt
<1>5. WalkAt' /\ AnswersAt'
  <2>1. Chats' = Chats /\ \A d : Answers(d)' = Answers(d)
    BY <1>1, SameDefinition
  <2>2. \A d : Answered(d) => Answered(d)'
    BY <1>1, <2>1 DEF Answered
  <2>. QED
    BY <1>1, <2>1, <2>2 DEF WalkAt, AnswersAt
<1>. QED
    BY <1>2, <1>3, <1>4, <1>5 DEF PlanInv

LEMMA BindStepKeeps ==
    ASSUME PlanInv, BindStep
    PROVE  PlanInv'
<1> DEFINE k == Len(plan)
           next == StepOf(order[k + 1])
<1>1. /\ StepsAt /\ phase = "plan" /\ phase' = "plan" /\ k < Len(order) /\ order \in Seq(active)
      /\ UNCHANGED <<active, conns, twice, order>> /\ plan' = Append(plan, next)
    BY DEF PlanInv, PlanTypes, BindStep, StepOf, definition, ordering
<1>2. plan = [i \in 1..k |-> StepOf(order[i])] /\ Len(order) \in Nat
    BY <1>1 DEF StepsAt
<1>3. k \in Nat /\ k + 1 \in 1..Len(order)
    BY <1>1, <1>2 DEF StepsAt
<1> HIDE DEF next
<1> DEFINE Steps == {StepOf(order[i]) : i \in 1..(k + 1)}
<1>4. plan \in Seq(Steps) /\ next \in Steps
  <2>1. k \in Nat /\ (\A i \in 1..k : i \in 1..(k + 1)) /\ k + 1 \in 1..(k + 1)
    BY <1>3
  <2>2. next \in Steps /\ \A i \in 1..k : StepOf(order[i]) \in Steps
    BY <2>1 DEF next
  <2> HIDE DEF Steps, k
  <2>3. plan \in [1..k -> Steps]
    BY <1>2, <2>2
  <2>. QED
    BY <2>1, <2>2, <2>3
<1>5. /\ Len(plan') = k + 1 /\ plan'[k + 1] = next
      /\ plan' = [i \in 1..(k + 1) |-> plan'[i]]
      /\ \A i \in 1..k : plan'[i] = plan[i]
  <2> HIDE DEF Steps
  <2>1. /\ plan' \in Seq(Steps) /\ Len(plan') = Len(plan) + 1 /\ plan'[Len(plan) + 1] = next
        /\ \A i \in 1..Len(plan) : plan'[i] = plan[i]
    BY <1>1, <1>4
  <2>. QED
    BY <2>1
<1>6. \A i \in 1..(k + 1) : plan'[i] = StepOf(order[i])
  <2>1. \A i \in 1..(k + 1) : i \in 1..k \/ i = k + 1
    BY <1>3
  <2>. QED
    BY <1>2, <1>5, <2>1 DEF next
<1>7. \A n : StepOf(n)' = StepOf(n)
    BY <1>1, SameDefinition
<1>8. StepsAt'
  <2>1. k + 1 \in 0..Len(order)
    BY <1>2, <1>3
  <2>2. plan' = [i \in 1..(k + 1) |-> StepOf(order[i])]
    BY <1>5, <1>6
  <2>. QED
    BY <1>1, <1>5, <1>7, <2>1, <2>2 DEF StepsAt
<1>. QED
    BY <1>8, PlanningKeeps

LEMMA CompiledKeeps ==
    ASSUME PlanInv, Compiled
    PROVE  PlanInv'
<1>1. StepsAt'
    BY StepsStay DEF PlanInv, Compiled, definition, ordering
<1>. QED
    BY <1>1, PlanningKeeps

LEMMA DoneKeeps ==
    ASSUME PlanInv, UNCHANGED vars
    PROVE  PlanInv'
<1>1. /\ Chats' = Chats /\ DataPairs' = DataPairs /\ Edges' = Edges
      /\ \A n : Answers(n)' = Answers(n) /\ DataTargets(n)' = DataTargets(n)
    BY SameDefinition DEF vars
<1>2. PlanTypes'
    BY <1>1 DEF PlanInv, PlanTypes, vars
<1>3. OrderAt' /\ ErrorsAt' /\ StepsAt'
  <2>1. UNCHANGED <<active, conns, twice, ordering>> /\ UNCHANGED <<active, conns, twice, order, plan>>
        /\ UNCHANGED <<errors, chats, phase>>
    BY DEF vars, ordering
  <2>2. OrderAt'
    BY <2>1, OrderStays DEF PlanInv, OrderAt
  <2>3. ErrorsAt'
    BY <2>1, SameDefinition DEF PlanInv, ErrorsAt, ordering
  <2>4. StepsAt'
    BY <2>1, StepsStay DEF PlanInv, StepsAt
  <2>. QED
    BY <2>2, <2>3, <2>4
<1>4. WalkAt'
  <2>1. \A c : Closure({c}, DataPairs)' = Closure({c}, DataPairs)
    BY <1>1 DEF Closure
  <2>2. /\ terminal' = terminal /\ chats' = chats /\ reached' = reached /\ phase' = phase
        /\ RangeOf(frontier)' = RangeOf(frontier)
    BY DEF vars, RangeOf
  <2>. QED
    BY <1>1, <2>1, <2>2 DEF PlanInv, WalkAt
<1>5. AnswersAt'
  <2>1. \A c : Answered(c) => Answered(c)'
    BY <1>1 DEF Answered, vars
  <2>. QED
    BY <1>1, <2>1 DEF PlanInv, AnswersAt, vars
<1>. QED
    BY <1>2, <1>3, <1>4, <1>5 DEF PlanInv

LEMMA PlanSteps ==
    ASSUME PlanInv, Next \/ UNCHANGED vars
    PROVE  PlanInv'
<1>1. \/ Activate \/ Check \/ OrderStep \/ Ordered \/ StartChat \/ WalkStep \/ Walked
      \/ Decide \/ BindStep \/ Compiled \/ UNCHANGED vars
    BY DEF Next, Done
<1>. QED
    BY <1>1, ActivateKeeps, CheckKeeps, OrderStepKeeps, OrderedKeeps, StartChatKeeps,
       WalkStepKeeps, WalkedKeeps, DecideKeeps, BindStepKeeps, CompiledKeeps, DoneKeeps

LEMMA OrderIsWhole ==
    ASSUME PlanTypes, OrderAt
    PROVE  /\ Len(order) \in Nat /\ DOMAIN order = 1..Len(order)
           /\ \A i \in 1..Len(order) : order[i] \in active
           /\ Len(order) = Cardinality(active) <=> RangeOf(order) = active
           /\ Len(order) <= Cardinality(active)
           /\ Cardinality(active) \in Nat /\ Cardinality(Repeated) \in Nat
           /\ Cardinality(Repeated) = 0 <=> Repeated = {}
<1> DEFINE top == Len(order)
<1>1. order \in Seq(active) /\ Once(order)
    BY DEF PlanTypes, OrderAt
<1>2. top \in Nat /\ DOMAIN order = 1..top /\ order \in [1..top -> active]
    BY <1>1
<1>3. IsFiniteSet(active) /\ Cardinality(active) \in Nat
    BY SetsAreFinite
<1>4. order \in Injection(1..top, active)
    BY <1>1, <1>2 DEF Injection, IsInjective, Once
<1>5. IsFiniteSet(1..top) /\ Cardinality(1..top) = top
  <2>1. 1 \in Int /\ top \in Int /\ top \in Nat
    BY <1>2
  <2>2. /\ IsFiniteSet(1..top)
        /\ Cardinality(1..top) = IF 1 > top THEN 0 ELSE top - 1 + 1
    BY <2>1, FS_Interval, Zenon
  <2> HIDE DEF top
  <2>. QED
    BY <2>1, <2>2
<1>6. top = Cardinality(active) <=> order \in Surjection(1..top, active)
    BY <1>3, <1>4, <1>5, FS_Injection
<1>7. order \in Surjection(1..top, active) <=> RangeOf(order) = active
    BY <1>2 DEF Surjection, RangeOf
<1>8. top <= Cardinality(active)
    BY <1>3, <1>4, <1>5, FS_Injection
<1>9. Cardinality(Repeated) \in Nat /\ (Cardinality(Repeated) = 0 <=> Repeated = {})
  <2>1. IsFiniteSet(Repeated)
    BY <1>3, FS_Subset DEF Repeated
  <2>. QED
    BY <2>1, FS_CardinalityType, FS_EmptySet
<1>. QED
    BY <1>2, <1>3, <1>6, <1>7, <1>8, <1>9

\* In an order of all nodes, what comes later is reached only by what comes before it.
LEMMA LaterIsClosed ==
    ASSUME PlanTypes, OrderAt, RangeOf(order) = active, NEW i \in 1..Len(order)
    PROVE  \A p \in Pairs(Edges) :
              p[1] \in {order[j] : j \in i..Len(order)} => p[2] \in {order[j] : j \in i..Len(order)}
<1>1. Len(order) \in Nat /\ DOMAIN order = 1..Len(order) /\ Once(order)
    BY OrderIsWhole DEF OrderAt
<1> SUFFICES ASSUME NEW e \in Edges, NEW j \in i..Len(order), e.from = order[j]
             PROVE  \E m \in i..Len(order) : e.to = order[m]
    BY DEF Pairs
<1>2. PICK m \in 1..Len(order) : e.to = order[m]
    BY <1>1 DEF Edges, RangeOf
<1>3. PICK k \in 1..(m - 1) : order[k] = e.from
    BY <1>1, <1>2 DEF OrderAt, OrderRespectsConnections
<1>4. k \in 1..Len(order) /\ j \in 1..Len(order)
    BY <1>1, <1>2, <1>3
<1>5. k = j
    BY <1>1, <1>3, <1>4 DEF Once
<1>6. m \in i..Len(order)
    BY <1>1, <1>2, <1>3, <1>5
<1>. QED
    BY <1>2, <1>6

LEMMA CyclesAreFound ==
    ASSUME PlanInv
    PROVE  CycleExactly
<1> SUFFICES ASSUME phase \in {"compiled", "invalid"}
             PROVE  "graph_cycle" \in errors <=> HasCycle \/ Repeated # {}
    BY DEF CycleExactly
<1>1. PlanTypes /\ OrderAt /\ ErrorsAt
    BY DEF PlanInv
<1>2. /\ "graph_cycle" \in errors <=> RangeOf(order) # active \/ Repeated # {}
      /\ Len(order) \in Nat /\ DOMAIN order = 1..Len(order) /\ Once(order)
      /\ queue = <<>>
  <2>1. "graph_cycle" \in errors <=> Len(order) # Cardinality(active) + Cardinality(Repeated)
    BY <1>1 DEF ErrorsAt
  <2>2. /\ Len(order) \in Nat /\ DOMAIN order = 1..Len(order) /\ Once(order) /\ queue = <<>>
        /\ Len(order) = Cardinality(active) <=> RangeOf(order) = active
        /\ Len(order) <= Cardinality(active)
        /\ Cardinality(active) \in Nat /\ Cardinality(Repeated) \in Nat
        /\ Cardinality(Repeated) = 0 <=> Repeated = {}
    BY <1>1, OrderIsWhole DEF OrderAt
  <2>. QED
    BY <2>1, <2>2
<1>3. ASSUME RangeOf(order) = active, NEW e \in Edges
      PROVE  e.from \notin Closure({e.to}, Pairs(Edges))
  <2>1. PICK i \in 1..Len(order) : e.to = order[i]
    BY <1>2, <1>3 DEF Edges, RangeOf
  <2> DEFINE Later == {order[j] : j \in i..Len(order)}
  <2>2. \A p \in Pairs(Edges) : p[1] \in Later => p[2] \in Later
    BY <1>1, <1>3, <2>1, LaterIsClosed
  <2>3. {e.to} \subseteq Later
    BY <1>2, <2>1
  <2>4. e.from \notin Later
    <3>1. PICK k \in 1..(i - 1) : order[k] = e.from
      BY <1>1, <1>2, <2>1 DEF OrderAt, OrderRespectsConnections
    <3>2. k \in 1..Len(order) /\ \A j \in i..Len(order) : j \in 1..Len(order) /\ j # k
      BY <1>2, <2>1, <3>1
    <3>. QED
      BY <1>2, <3>1, <3>2 DEF Once
  <2> HIDE DEF Later
  <2>5. Closure({e.to}, Pairs(Edges)) \subseteq Later
    BY <2>2, <2>3, ClosureIsLeast
  <2>. QED
    BY <2>4, <2>5
<1>4. ASSUME RangeOf(order) # active
      PROVE  \E e \in Edges : e.from \in Closure({e.to}, Pairs(Edges))
  <2> DEFINE R == active \ RangeOf(order)
  <2>1. R \in SUBSET Node /\ R # {}
    <3>1. RangeOf(order) \subseteq active
      BY <1>1, <1>2, OrderIsWhole DEF RangeOf
    <3>. QED
      BY <1>1, <1>4, <3>1, SetsAreFinite
  <2>2. \A p \in Pairs(Edges) : p[2] \in Node
    BY <1>1, DataStays
  <2>3. ASSUME NEW x \in R PROVE \E p \in Pairs(Edges) : p[2] = x /\ p[1] \in R
    <3>1. x \in Node /\ indegree[x] # 0 /\ indegree[x] = Cardinality(Unordered(x))
      <4>1. x \notin RangeOf(queue)
        BY <1>2 DEF RangeOf
      <4>. QED
        BY <1>1, <2>1, <4>1 DEF OrderAt
    <3>2. Unordered(x) # {}
      BY <1>1, <3>1, SetsAreFinite
    <3>3. PICK e \in Edges : e.to = x /\ e.from \notin RangeOf(order)
      BY <3>2 DEF Unordered
    <3>4. <<e.from, e.to>> \in Pairs(Edges) /\ e.from \in R
      BY <3>3 DEF Pairs, Edges
    <3>. QED
      BY <3>3, <3>4
  <2> HIDE DEF R
  <2>4. PICK p \in Pairs(Edges) : p[1] \in Closure({p[2]}, Pairs(Edges))
    BY <2>1, <2>2, <2>3, LeftoverHasCycle
  <2>5. PICK e \in Edges : p = <<e.from, e.to>>
    BY DEF Pairs
  <2>6. p[1] = e.from /\ p[2] = e.to
    BY <2>5
  <2>. QED
    BY <2>4, <2>6
<1>. QED
    BY <1>2, <1>3, <1>4 DEF HasCycle

\* A definition without errors has only sound connections between its nodes, and the steps of
\* its plan are those of the order.
LEMMA PlanningIsClean ==
    ASSUME PlanInv, phase \in {"plan", "compiled"}
    PROVE  /\ conns = Edges /\ \A e \in Edges : Sound(e)
           /\ ConnectionErrors = {} /\ NodeErrors = {} /\ GraphErrors = {} /\ errors = {} /\ chats = {}
           /\ RangeOf(order) = active
           /\ Len(plan) \in 0..Len(order) /\ DOMAIN plan = 1..Len(plan)
           /\ \A i \in 1..Len(plan) : plan[i] = StepOf(order[i])
<1>1. PlanTypes /\ OrderAt /\ ErrorsAt /\ StepsAt
    BY DEF PlanInv
<1>2. /\ ConnectionErrors = {} /\ NodeErrors = {} /\ GraphErrors = {} /\ errors = {} /\ chats = {}
      /\ Len(order) = Cardinality(active)
  <2>1. /\ ConnectionErrors = {} /\ NodeErrors = {} /\ GraphErrors = {} /\ errors = {} /\ chats = {}
        /\ Len(order) = Cardinality(active) + Cardinality(Repeated)
    BY <1>1 DEF ErrorsAt
  <2>2. Repeated = {}
    BY <2>1 DEF NodeErrors
  <2>. QED
    BY <1>1, <2>1, <2>2, OrderIsWhole
<1>3. conns = Edges
  <2>1. conns \ Edges = {}
    BY <1>2 DEF ConnectionErrors
  <2>. QED
    BY <2>1 DEF Edges
<1>4. \A e \in Edges : Sound(e)
  <2>1. \A e \in Edges : e.from # e.to
    BY <1>2 DEF ConnectionErrors
  <2>2. {x \in Edges : x.from # x.to /\ ~Sound(x)} = {}
    BY <1>2 DEF ConnectionErrors
  <2>. QED
    BY <2>1, <2>2
<1>5. RangeOf(order) = active
    BY <1>1, <1>2, OrderIsWhole
<1>6. /\ Len(plan) \in 0..Len(order) /\ DOMAIN plan = 1..Len(plan)
      /\ \A i \in 1..Len(plan) : plan[i] = StepOf(order[i])
    BY <1>1 DEF StepsAt
<1>. QED
    BY <1>2, <1>3, <1>4, <1>5, <1>6

LEMMA PlansAreClosed ==
    ASSUME PlanInv
    PROVE  PlanIsClosed
<1>0. \A n : StepOf(n).node = n
    BY DEF StepOf
<1>1. PlanTypes /\ OrderAt /\ (phase \notin {"plan", "compiled"} => plan = <<>>)
      /\ (phase = "compiled" => Len(plan) = Len(order))
    BY DEF PlanInv, StepsAt
<1>2. Len(order) \in Nat /\ DOMAIN order = 1..Len(order)
    BY <1>1, OrderIsWhole
<1>3. ASSUME NEW i \in DOMAIN plan, NEW b \in plan[i].bindings
      PROVE  \E j \in 1..(i - 1) : plan[j].node = b.source
  <2>1. phase \in {"plan", "compiled"}
    BY <1>1, <1>3
  <2>2. /\ conns = Edges /\ Len(plan) \in 0..Len(order) /\ i \in 1..Len(plan)
        /\ \A k \in 1..Len(plan) : plan[k] = StepOf(order[k])
    BY <1>3, <2>1, PlanningIsClean
  <2>3. b \in StepOf(order[i]).bindings
    BY <1>3, <2>2
  <2>4. PICK e \in Edges : e.to = order[i] /\ b.source = e.from
    BY <2>2, <2>3 DEF StepOf
  <2>5. i \in 1..Len(order)
    BY <1>2, <2>2
  <2>6. PICK j \in 1..(i - 1) : order[j] = e.from
    BY <1>1, <1>2, <2>4, <2>5 DEF OrderAt, OrderRespectsConnections
  <2>7. j \in 1..Len(plan)
    BY <1>2, <2>2, <2>6
  <2>. QED
    BY <1>0, <2>2, <2>4, <2>6, <2>7
<1>4. ASSUME phase = "compiled" PROVE {plan[i].node : i \in DOMAIN plan} = active
  <2>1. /\ RangeOf(order) = active /\ DOMAIN plan = 1..Len(plan)
        /\ \A i \in 1..Len(plan) : plan[i] = StepOf(order[i])
    BY <1>4, PlanningIsClean
  <2>2. DOMAIN plan = DOMAIN order /\ \A i \in DOMAIN order : plan[i].node = order[i]
    BY <1>0, <1>1, <1>2, <1>4, <2>1
  <2>. QED
    BY <2>1, <2>2 DEF RangeOf
<1>. QED
    BY <1>3, <1>4 DEF PlanIsClosed

LEMMA PortsAreAlwaysBound ==
    ASSUME PlanInv
    PROVE  PortsAreBound
<1> SUFFICES ASSUME NEW i \in DOMAIN plan, NEW kind \in {"data", "controller"}
             PROVE  LET n == plan[i].node
                        Of == {b \in plan[i].bindings : b.kind = kind} IN
                    /\ kind \in Manifest[n].required => Of # {}
                    /\ ~Manifest[n].multiple => Cardinality(Of) <= 1
                    /\ \A b \in Of : Gives(b.source, kind) # "none"
    BY DEF PortsAreBound
<1> DEFINE n == plan[i].node
           Of == {b \in plan[i].bindings : b.kind = kind}
           In == Inbound(n, kind)
           Bound(e) == [kind |-> e.kind, source |-> e.from]
<1>1. phase \in {"plan", "compiled"} /\ PlanTypes /\ OrderAt
    BY DEF PlanInv, StepsAt
<1>2. /\ conns = Edges /\ \A e \in Edges : Sound(e)
      /\ ConnectionErrors = {} /\ NodeErrors = {}
      /\ RangeOf(order) = active /\ i \in 1..Len(order) /\ plan[i] = StepOf(order[i])
      /\ DOMAIN order = 1..Len(order)
  <2>1. Len(order) \in Nat
    BY <1>1, OrderIsWhole
  <2>. QED
    BY <1>1, <2>1, PlanningIsClean, OrderIsWhole
<1>3. n \in active /\ n = order[i] /\ plan[i].bindings = {Bound(e) : e \in {x \in Edges : x.to = n}}
    BY <1>2 DEF StepOf, RangeOf
<1>4. /\ In \in SUBSET Edges /\ In = {e \in Inbound(n, kind) : Sound(e)}
      /\ \A e \in In : Sound(e) /\ e.kind = kind
    BY <1>2 DEF Inbound
<1>5. \A b \in Of : \E e \in In : b = Bound(e)
    BY <1>3 DEF Inbound
<1>6. \A e \in In : Bound(e) \in Of
    BY <1>3 DEF Inbound
<1> HIDE DEF n, Of, In
<1>7. ASSUME kind \in Manifest[n].required PROVE Of # {}
  <2>1. ~Unbound(n, kind)
    <3>1. /\ {x \in active : "data" \in Manifest[x].required /\ Unbound(x, "data")} = {}
          /\ {x \in active :
                "controller" \in Manifest[x].required /\ Unbound(x, "controller")} = {}
      BY <1>2 DEF NodeErrors
    <3>2. CASE kind = "data"
      BY <1>3, <1>7, <3>1, <3>2
    <3>3. CASE kind = "controller"
      BY <1>3, <1>7, <3>1, <3>3
    <3>. QED
      BY <3>2, <3>3
  <2>2. In # {}
    BY <1>4, <2>1 DEF Unbound
  <2>. QED
    BY <1>6, <2>2
<1>8. ASSUME ~Manifest[n].multiple PROVE Cardinality(Of) <= 1
  <2>1. ~(Cardinality({e \in Inbound(n, kind) : Sound(e)}) > 1)
    BY <1>2, <1>3, <1>8 DEF ConnectionErrors
  <2>2. Cardinality(In) \in Nat /\ IsFiniteSet(In) /\ (Cardinality(In) = 0 <=> In = {})
    BY <1>1, <1>4, SetsAreFinite
  <2>3. Cardinality(In) = 0 \/ Cardinality(In) = 1
    BY <1>4, <2>1, <2>2
  <2>4. CASE In = {}
    <3>1. Of = {}
      BY <1>5, <2>4
    <3>. QED
      BY <3>1, FS_EmptySet
  <2>5. CASE Cardinality(In) = 1
    <3>1. PICK e : In = {e}
      BY <2>2, <2>5, FS_Singleton
    <3>2. Of = {Bound(e)}
      BY <1>5, <1>6, <3>1
    <3> HIDE DEF Bound
    <3>3. Cardinality({Bound(e)}) = 1
      BY FS_Singleton
    <3>. QED
      BY <3>2, <3>3
  <2>. QED
    BY <2>2, <2>3, <2>4, <2>5
<1>9. ASSUME NEW b \in Of PROVE Gives(b.source, kind) # "none"
  <2>1. PICK e \in In : b = Bound(e)
    BY <1>5
  <2>2. b.source = e.from
    BY <2>1
  <2>. QED
    BY <1>4, <2>2 DEF Sound
<1>. QED
    BY <1>7, <1>8, <1>9 DEF n, Of

LEMMA ChatsHaveTheirAnswer ==
    ASSUME PlanInv
    PROVE  ChatHasItsAnswer
<1> SUFFICES ASSUME phase = "compiled", NEW c \in Chats
             PROVE  \E k \in DOMAIN terminal :
                       /\ terminal[k].chat = c /\ Answers(c) = {terminal[k].output}
                       /\ \E i, j \in DOMAIN order :
                            i < j /\ order[i] = c /\ order[j] = terminal[k].output
    BY DEF ChatHasItsAnswer, Answers, DataPairs
<1>1. PlanTypes /\ OrderAt /\ AnswersAt
    BY DEF PlanInv
<1>2. errors = {} /\ chats = {} /\ RangeOf(order) = active
    BY PlanningIsClean
<1>3. Len(order) \in Nat /\ DOMAIN order = 1..Len(order)
    BY <1>1, OrderIsWhole
<1>4. PICK k \in DOMAIN terminal : terminal[k].chat = c /\ Answers(c) = {terminal[k].output}
    BY <1>1, <1>2 DEF AnswersAt, Answered
<1> DEFINE o == terminal[k].output
<1>5. PICK i \in 1..Len(order) : order[i] = c
    BY <1>2, <1>3 DEF Chats, RangeOf
<1> DEFINE Later == {order[j] : j \in i..Len(order)}
<1>6. \A p \in DataPairs : p[1] \in Later => p[2] \in Later
  <2>1. \A p \in Pairs(Edges) : p[1] \in Later => p[2] \in Later
    BY <1>1, <1>2, LaterIsClosed
  <2> HIDE DEF Later
  <2>. QED
    BY <1>1, <2>1, DataStays
<1>7. {c} \subseteq Later
    BY <1>3, <1>5
<1> HIDE DEF Later
<1>8. Closure({c}, DataPairs) \subseteq Later
    BY <1>6, <1>7, ClosureIsLeast
<1>9. o \in Closure({c}, DataPairs) /\ o \in Terminals
    BY <1>4 DEF Answers
<1>10. o # c
    BY <1>9 DEF Chats, Terminals
<1>11. PICK j \in i..Len(order) : order[j] = o
    BY <1>8, <1>9 DEF Later
<1>12. i < j /\ i \in DOMAIN order /\ j \in DOMAIN order
    BY <1>3, <1>5, <1>10, <1>11
<1>. QED
    BY <1>4, <1>5, <1>11, <1>12

LEMMA PlansAreConnected ==
    ASSUME PlanInv
    PROVE  PlanIsConnected
<1> SUFFICES ASSUME phase = "compiled", NEW S \in SUBSET active, S # {}, S # active,
                    \A e \in Edges : (e.from \in S) = (e.to \in S)
             PROVE  FALSE
    BY DEF PlanIsConnected
<1>1. PICK x : x \in S
    OBVIOUS
<1>2. Closure({x}, BothWays) = active
    BY <1>1, PlanningIsClean DEF GraphErrors
<1>3. \A p \in BothWays : p[1] \in S => p[2] \in S
    BY DEF BothWays, Pairs
<1>4. Closure({x}, BothWays) \subseteq S
    BY <1>1, <1>3, ClosureIsLeast
<1>. QED
    BY <1>2, <1>4

LEMMA PlanHolds ==
    ASSUME PlanInv
    PROVE  OrderRespectsConnections /\ PlanIsSound
<1>1. OrderRespectsConnections
    BY DEF PlanInv, OrderAt
<1>. QED
    BY <1>1, CyclesAreFound, PlansAreClosed, PortsAreAlwaysBound, ChatsHaveTheirAnswer,
       PlansAreConnected DEF PlanIsSound

\* The compiler, for any nodes, manifests and connections: the order puts every node after
\* those it is connected from, a cycle is reported exactly when there is one or the id of an
\* active node is listed twice, and a plan is closed, connected and bound and has the one
\* answer of every chat.
THEOREM PlansAreAlwaysSound == NodesSpec => []PlansAreSound
<1> DEFINE Inv == which = "plan" => PlanInv
<1>1. NodesInit => Inv
    BY PlanStarts DEF NodesInit, CompilerInit, EditorInit, ToolsInit, ModelsInit, HttpInit
<1>2. Inv /\ [NodesNext]_all => Inv'
  <2> SUFFICES ASSUME Inv, [NodesNext]_all, which' = "plan" PROVE PlanInv'
    OBVIOUS
  <2>1. CASE CompilerNext
    BY <2>1, PlanSteps DEF CompilerNext
  <2>2. CASE UNCHANGED all
    BY <2>2, PlanSteps DEF all, vars
  <2>. QED
    BY <2>1, <2>2
    DEF NodesNext, EditorNext, ToolsNext, HttpNext, ModelsNext, Stopped
<1>3. Inv => PlansAreSound
    BY PlanHolds DEF PlansAreSound
<1>. QED
    BY <1>1, <1>2, <1>3, PTL DEF NodesSpec

------------------------------------------------------------------------------
(* provider/service.py and llm/providers.py *)

\* What was sent has the form of its client, and whoever is about to call has been accepted.
ModelInv ==
    /\ Models!TypeOK
    /\ pc = "sent" /\ request.kind = "chat" =>
         \E k \in 0..Len(Models!Messages) : sent = Models!Convert(k)
    /\ pc = "call" /\ request.kind = "chat" /\ ~touched => Models!Keyed /\ Models!Known
    /\ Models!AcceptedIsServed /\ Models!OfferedIsEmbedded

\* The messages are instructions of the node and then one of the user.
LEMMA MessagesOfNode ==
    /\ \E S : Models!Instructions \in Seq(S) /\ \A m \in S : m.role = "system"
    /\ Models!FromUser.role = "user"
<1> DEFINE Told == {[role |-> "system", blocks |-> <<w>>] :
                       w \in {"history", "prompt", "reasoning", "schema"}}
<1>1. /\ Models!Instruction("history") \in Seq(Told) /\ Models!Instruction("prompt") \in Seq(Told)
      /\ Models!Instruction("reasoning") \in Seq(Told) /\ Models!Instruction("schema") \in Seq(Told)
  <2>1. /\ [role |-> "system", blocks |-> <<"history">>] \in Told
        /\ [role |-> "system", blocks |-> <<"prompt">>] \in Told
        /\ [role |-> "system", blocks |-> <<"reasoning">>] \in Told
        /\ [role |-> "system", blocks |-> <<"schema">>] \in Told
    OBVIOUS
  <2> HIDE DEF Told
  <2>2. \A m \in Told : <<m>> \in Seq(Told)
    OBVIOUS
  <2>3. <<>> \in Seq(Told)
    OBVIOUS
  <2>. QED
    BY <2>1, <2>2, <2>3 DEF Models!Instruction
<1> HIDE DEF Told
<1>2. Models!Instructions \in Seq(Told)
    BY <1>1 DEF Models!Instructions
<1>3. Models!FromUser.role = "user"
    BY DEF Models!FromUser
<1>4. \A m \in Told : m.role = "system"
    BY DEF Told
<1>. QED
    BY <1>2, <1>3, <1>4

\* Taking the system messages apart loses nothing: they come before the user's.
LEMMA ApartIsWhole ==
    Models!Apart.system \o Models!Apart.contents = Models!Messages
<1> DEFINE told == Models!Instructions
           all_of == Models!Messages
           top == Len(told)
           Step(g, i) == IF i = 0 THEN [system |-> <<>>, contents |-> <<>>]
                         ELSE IF all_of[i].role = "system"
                              THEN [g[i - 1] EXCEPT !.system = Append(@, all_of[i])]
                              ELSE [g[i - 1] EXCEPT !.contents = Append(@, all_of[i])]
           Split(g, n) == g = [i \in 0..n |-> Step(g, i)]
           First(i) == [j \in 1..i |-> told[j]]
           Whole(i) == IF i <= top THEN [system |-> First(i), contents |-> <<>>]
                       ELSE [system |-> told, contents |-> <<Models!FromUser>>]
<1>1. PICK S : told \in Seq(S) /\ \A m \in S : m.role = "system"
    BY MessagesOfNode
<1>2. /\ top \in Nat /\ all_of = Append(told, Models!FromUser) /\ Len(all_of) = top + 1
      /\ all_of[top + 1] = Models!FromUser /\ Models!FromUser.role = "user"
      /\ \A i \in 1..top : all_of[i] = told[i] /\ told[i] \in S /\ told[i].role = "system"
    <2>1. told \in Seq(S \cup {Models!FromUser}) /\ Models!FromUser \in S \cup {Models!FromUser}
      BY <1>1
    <2>2. all_of = Append(told, Models!FromUser)
      BY DEF Models!Messages
    <2>3. Models!FromUser.role = "user"
      BY MessagesOfNode
    <2> HIDE DEF told, all_of
    <2>. QED
      BY <1>1, <2>1, <2>2, <2>3
<1> HIDE DEF told, all_of
<1>3. /\ First(0) = <<>> /\ First(top) = told
      /\ \A i \in 1..top : Append(First(i - 1), told[i]) = First(i)
  <2>1. First(0) = <<>>
    OBVIOUS
  <2>2. First(top) = told
    BY <1>1, <1>2
  <2>3. ASSUME NEW i \in 1..top PROVE Append(First(i - 1), told[i]) = First(i)
    <3> DEFINE before == First(i - 1)
    <3>1. i - 1 \in Nat /\ (\A j \in 1..(i - 1) : j \in 1..top) /\ i \in Nat /\ (i - 1) + 1 = i
      BY <1>2
    <3>2. before \in [1..(i - 1) -> S]
      BY <1>2, <3>1
    <3>3. before \in Seq(S) /\ Len(before) = i - 1 /\ \A j \in 1..(i - 1) : before[j] = told[j]
      BY <3>1, <3>2
    <3> HIDE DEF before
    <3>4. /\ Append(before, told[i]) \in Seq(S) /\ Len(Append(before, told[i])) = i
          /\ \A j \in 1..(i - 1) : Append(before, told[i])[j] = told[j]
          /\ Append(before, told[i])[i] = told[i]
      BY <1>2, <3>1, <3>3
    <3>5. \A j \in 1..i : j \in 1..(i - 1) \/ j = i
      BY <3>1
    <3> DEFINE after == Append(before, told[i])
    <3>6. after = [j \in 1..i |-> after[j]]
      BY <3>4
    <3> HIDE DEF after
    <3>7. after = [j \in 1..i |-> told[j]]
      BY <3>4, <3>5, <3>6 DEF after
    <3>. QED
      BY <3>7 DEF before, after
  <2>. QED
    BY <2>1, <2>2, <2>3
<1> HIDE DEF First
<1>4. Split([i \in 0..(top + 1) |-> Whole(i)], top + 1)
  <2> DEFINE g == [i \in 0..(top + 1) |-> Whole(i)]
  <2>1. ASSUME NEW i \in 0..(top + 1) PROVE g[i] = Step(g, i)
    <3>1. CASE i = 0
      BY <1>2, <1>3, <3>1
    <3>2. CASE i \in 1..top
      <4>1. /\ i # 0 /\ i <= top /\ i - 1 \in 0..(top + 1) /\ i - 1 <= top
            /\ all_of[i].role = "system" /\ all_of[i] = told[i]
        BY <1>2, <3>2
      <4>2. g[i - 1] = [system |-> First(i - 1), contents |-> <<>>]
        BY <4>1
      <4>3. Step(g, i) = [system |-> Append(First(i - 1), told[i]), contents |-> <<>>]
        BY <4>1, <4>2
      <4>4. g[i] = [system |-> First(i), contents |-> <<>>]
        BY <4>1
      <4>. QED
        BY <1>3, <3>2, <4>3, <4>4
    <3>3. CASE i = top + 1
      <4>1. /\ i # 0 /\ ~(i <= top) /\ i - 1 = top /\ top \in 0..(top + 1) /\ top <= top
            /\ all_of[i].role # "system" /\ all_of[i] = Models!FromUser
        BY <1>2, <3>3
      <4>2. g[i - 1] = [system |-> told, contents |-> <<>>]
        BY <1>3, <4>1
      <4>3. Step(g, i) = [system |-> told, contents |-> Append(<<>>, Models!FromUser)]
        BY <4>1, <4>2
      <4>4. g[i] = [system |-> told, contents |-> <<Models!FromUser>>]
        BY <4>1
      <4>. QED
        BY <4>3, <4>4
    <3>4. i = 0 \/ i \in 1..top \/ i = top + 1
      BY <1>2
    <3> HIDE DEF g, Step
    <3>. QED
      BY <3>1, <3>2, <3>3, <3>4
  <2> HIDE DEF Step
  <2>2. g = [i \in 0..(top + 1) |-> g[i]]
    OBVIOUS
  <2> HIDE DEF g
  <2>3. g = [i \in 0..(top + 1) |-> Step(g, i)]
    BY <2>1, <2>2
  <2>. QED
    BY <2>3 DEF g
<1> DEFINE split == CHOOSE f : Split(f, top + 1)
<1>5. Split(split, top + 1)
  <2> HIDE DEF Split
  <2>. QED
    BY <1>4
<1>6. Models!Apart = split[top + 1]
  BY <1>2 DEF Models!Apart, all_of
<1> HIDE DEF split
<1>7. split[top + 1] = Whole(top + 1)
  <2> DEFINE T == {i \in Nat : i <= top + 1 => split[i] = Whole(i)}
             g == [i \in 0..(top + 1) |-> Whole(i)]
  <2>1. /\ \A i \in 0..(top + 1) : split[i] = Step(split, i) /\ g[i] = Step(g, i)
    BY <1>4, <1>5
  <2>2. \A i \in 0..(top + 1) : g[i] = Whole(i)
    OBVIOUS
  <2> HIDE DEF g, Whole
  <2>3. 0 \in T
    <3>1. 0 \in 0..(top + 1)
      BY <1>2
    <3>2. Step(split, 0) = Step(g, 0)
      OBVIOUS
    <3> HIDE DEF Step
    <3>. QED
      BY <2>1, <2>2, <3>1, <3>2
  <2>4. ASSUME NEW i \in Nat, i \in T PROVE i + 1 \in T
    <3> SUFFICES ASSUME i + 1 <= top + 1 PROVE split[i + 1] = Whole(i + 1)
      OBVIOUS
    <3>1. /\ i \in 0..(top + 1) /\ i + 1 \in 0..(top + 1) /\ i <= top + 1
          /\ i + 1 # 0 /\ (i + 1) - 1 = i
      BY <1>2
    <3>2. split[i] = g[i]
      BY <2>2, <2>4, <3>1
    <3>3. Step(split, i + 1) = Step(g, i + 1)
      BY <3>1, <3>2
    <3> HIDE DEF Step
    <3>. QED
      BY <2>1, <2>2, <3>1, <3>3
  <2>5. top + 1 \in T
    <3> HIDE DEF T
    <3>. QED
      BY <1>2, <2>3, <2>4, NumbersFollow
  <2>. QED
    BY <1>2, <2>5
<1>8. Models!Apart.system = told /\ Models!Apart.contents = <<Models!FromUser>>
  <2>1. ~(top + 1 <= top)
    BY <1>2
  <2>. QED
    BY <1>6, <1>7, <2>1
<1>9. told \o <<Models!FromUser>> = Append(told, Models!FromUser)
  <2>1. told \in Seq(S \cup {Models!FromUser}) /\ Models!FromUser \in S \cup {Models!FromUser}
    BY <1>1
  <2>. QED
    BY <2>1
<1>. QED
  BY <1>2, <1>8, <1>9 DEF all_of

LEMMA ModelStarts == Models!Init => ModelInv
<1> SUFFICES ASSUME Models!Init PROVE ModelInv
    OBVIOUS
<1>1. around \in [key : BOOLEAN, listed : BOOLEAN, public : BOOLEAN, image : BOOLEAN]
  <2> DEFINE B == {"image" \in request.user}
  <2>1. B \subseteq BOOLEAN
    <3>1. CASE "image" \in request.user
      <4>1. ("image" \in request.user) = TRUE
        BY <3>1
      <4>. QED
        BY <4>1
    <3>2. CASE "image" \notin request.user
      <4>1. ("image" \in request.user) = FALSE
        BY <3>2
      <4>. QED
        BY <4>1
    <3>. QED
      BY <3>1, <3>2
  <2> DEFINE A == IF request.provider = "huggingface" THEN BOOLEAN ELSE {FALSE}
  <2>2. around \in [key : BOOLEAN, listed : BOOLEAN, public : A, image : B]
    BY DEF Models!Init
  <2>3. A \subseteq BOOLEAN
    OBVIOUS
  <2> HIDE DEF A, B
  <2>. QED
    BY <2>1, <2>2, <2>3
<1>2. Models!TypeOK
  <2>1. pc = "compile" /\ sent = Models!Nothing /\ changes = 0 /\ touched = FALSE /\ request \in Models!Request
    BY DEF Models!Init
  <2>2. changes \in 0..MaxChanges /\ touched \in BOOLEAN
    <3>1. changes \in 0..MaxChanges
      BY <2>1, ChangesAssumption
    <3>2. touched \in BOOLEAN
      BY <2>1, Zenon
    <3>. QED
      BY <3>1, <3>2
  <2>. QED
    BY ONLY <1>1, <2>1, <2>2 DEF Models!TypeOK
<1>. QED
    BY <1>2 DEF Models!Init, ModelInv, Models!AcceptedIsServed, Models!OfferedIsEmbedded

\* What depends on the request alone does not change with its surroundings.
LEMMA SameRequest ==
    ASSUME UNCHANGED request
    PROVE  /\ Models!Messages' = Models!Messages /\ Models!Embedder' = Models!Embedder
           /\ \A k : Models!Convert(k)' = Models!Convert(k)
<1>1. Models!P' = Models!P /\ Models!Messages' = Models!Messages
    BY DEF Models!P, Models!Messages, Models!Instructions, Models!FromUser, Models!Instruction,
           Models!Block
<1>2. Models!Apart' = Models!Apart
    BY <1>1 DEF Models!Apart
<1>. QED
    BY <1>1, <1>2 DEF Models!Convert, Models!Embedder, Models!OpenAIForm, Models!DeepSeekForm,
       Models!LocalForm, Models!OllamaForm, Models!GeminiForm, Models!ClaudeForm,
       Models!HuggingFaceForm, Models!After

LEMMA ModelSteps ==
    ASSUME ModelInv, Models!Next \/ UNCHANGED Models!vars
    PROVE  ModelInv'
<1>1. ASSUME NEW from, NEW to, Models!Validate(from, to),
             <<from, to>> \in {<<"compile", "select">>, <<"validate", "call">>}
      PROVE  ModelInv'
  <2>1. /\ pc = from /\ pc' \in {to, "refused"} /\ touched' = FALSE
        /\ UNCHANGED <<request, around, sent, changes>>
        /\ from \in {"compile", "validate"} /\ to \in {"select", "call"}
    BY <1>1 DEF Models!Validate
  <2>2. Models!TypeOK'
    BY <2>1 DEF ModelInv, Models!TypeOK
  <2>3. pc' = "call" /\ request.kind = "chat" => Models!Keyed' /\ Models!Known'
    BY <1>1, <2>1 DEF Models!Validate, Models!Acceptable, Models!Keyed, Models!Known, Models!P
  <2>. QED
    BY <2>1, <2>2, <2>3 DEF ModelInv, Models!AcceptedIsServed, Models!OfferedIsEmbedded
<1>2. ASSUME Models!Select PROVE ModelInv'
  <2>1. /\ pc = "select" /\ pc' \in {"validate", "refused"}
        /\ UNCHANGED <<request, around, sent, changes, touched>>
    BY <1>2 DEF Models!Select
  <2>2. Models!TypeOK'
    BY <2>1 DEF ModelInv, Models!TypeOK
  <2>. QED
    BY <2>1, <2>2 DEF ModelInv, Models!AcceptedIsServed, Models!OfferedIsEmbedded
<1>3. ASSUME Models!Chat PROVE ModelInv'
  <2>1. /\ pc = "call" /\ request.kind = "chat" /\ UNCHANGED <<request, around, changes, touched>>
        /\ \/ pc' = "sent" /\ \E k \in 0..Len(Models!Messages) : sent' = Models!Convert(k)
           \/ pc' = "failed" /\ sent' = sent /\ ~Models!Serves
    BY <1>3, Zenon DEF Models!Chat
  <2>2. Models!TypeOK'
    BY <2>1 DEF ModelInv, Models!TypeOK
  <2>3. pc' # "sent" \/ \E k \in 0..Len(Models!Messages) : sent' = Models!Convert(k)
    BY <2>1, Zenon
  <2>4. ~Models!Serves =>
           \/ touched \/ ~around.image
           \/ Models!P = "huggingface" /\ around.listed /\ ~around.key /\ ~around.public
    <3>1. ~touched => Models!Keyed /\ Models!Known
      BY <2>1 DEF ModelInv
    <3>. QED
      BY <3>1 DEF Models!Serves, Models!Keyed, Models!Known, Models!RequiresKey, Models!Cloud,
         Models!ListsLive, Models!OwnServer
  <2>5. Models!AcceptedIsServed'
    <3>1. Models!P' = Models!P
      BY <2>1 DEF Models!P
    <3>2. pc' = "failed" => ~Models!Serves
      BY <2>1
    <3>. QED
      BY <2>1, <2>4, <3>1, <3>2 DEF Models!AcceptedIsServed
  <2>6. Models!OfferedIsEmbedded'
    BY <2>1 DEF Models!OfferedIsEmbedded
  <2>7. (pc = "sent" /\ request.kind = "chat" =>
            \E k \in 0..Len(Models!Messages) : sent = Models!Convert(k))'
    BY <2>1, <2>3, SameRequest, Zenon
  <2>8. pc' # "call"
    BY <2>1
  <2>. QED
    BY <2>2, <2>5, <2>6, <2>7, <2>8 DEF ModelInv
<1>4. ASSUME Models!Embed PROVE ModelInv'
  <2>1. /\ pc = "call" /\ request.kind = "embed"
        /\ UNCHANGED <<request, around, sent, changes, touched>>
        /\ \/ pc' = "sent"
           \/ pc' = "failed" /\ ~(Models!Embedder # "unsupported" /\ Models!Serves)
    BY <1>4 DEF Models!Embed
  <2>2. Models!TypeOK'
    BY <2>1 DEF ModelInv, Models!TypeOK
  <2>3. Models!P \in Models!SupportsEmbeddings => Models!Embedder # "unsupported"
    BY DEF Models!SupportsEmbeddings, Models!Embedder, Models!Provider, Models!Cloud,
           Models!OwnServer
  <2>4. Models!P' = Models!P /\ Models!Serves' = Models!Serves
    BY <2>1 DEF Models!P, Models!Serves
  <2>5. Models!OfferedIsEmbedded'
    BY <2>1, <2>3, <2>4 DEF Models!OfferedIsEmbedded
  <2>. QED
    BY <2>1, <2>2, <2>5 DEF ModelInv, Models!AcceptedIsServed
<1>5. ASSUME Models!Change PROVE ModelInv'
  <2>1. /\ pc \in {"compile", "select", "validate", "call"} /\ touched' = TRUE
        /\ changes' = changes + 1 /\ changes < MaxChanges /\ UNCHANGED <<request, pc, sent>>
        /\ around' \in [key : BOOLEAN, listed : BOOLEAN, public : BOOLEAN, image : BOOLEAN]
    <3>1. PICK field \in {"key", "listed", "public", "image"} :
              around' = [around EXCEPT ![field] = ~@]
      <4> DEFINE Fields == {"key", "listed", "image"}
                           \cup (IF Models!P = "huggingface" THEN {"public"} ELSE {})
      <4>1. \E field \in Fields : around' = [around EXCEPT ![field] = ~@]
        BY <1>5 DEF Models!Change
      <4>2. Fields \subseteq {"key", "listed", "public", "image"}
        OBVIOUS
      <4> HIDE DEF Fields
      <4>. QED
        BY <4>1, <4>2
    <3>2. around \in [key : BOOLEAN, listed : BOOLEAN, public : BOOLEAN, image : BOOLEAN]
      BY DEF ModelInv, Models!TypeOK
    <3>3. around' \in [key : BOOLEAN, listed : BOOLEAN, public : BOOLEAN, image : BOOLEAN]
      BY <3>1, <3>2
    <3>. QED
      BY <1>5, <3>3 DEF Models!Change
  <2>2. Models!TypeOK'
    BY <2>1, ChangesAssumption DEF ModelInv, Models!TypeOK
  <2>. QED
    BY <2>1, <2>2 DEF ModelInv, Models!AcceptedIsServed, Models!OfferedIsEmbedded
<1>6. ASSUME UNCHANGED Models!vars PROVE ModelInv'
  <2>1. UNCHANGED <<request, around, pc, sent, changes, touched>>
    BY <1>6 DEF Models!vars
  <2>2. Models!TypeOK'
    BY <2>1 DEF ModelInv, Models!TypeOK
  <2>. QED
    BY <2>1, <2>2, SameRequest DEF ModelInv, Models!AcceptedIsServed, Models!OfferedIsEmbedded,
       Models!Keyed, Models!Known, Models!Serves, Models!P
<1>. QED
    BY <1>1, <1>2, <1>3, <1>4, <1>5, <1>6 DEF Models!Next, Models!Compile, Models!Check

LEMMA ModelHolds == ModelInv => Models!RequestsAreServed
<1> SUFFICES ASSUME ModelInv PROVE Models!RequestsAreServed
    OBVIOUS
<1>1. ASSUME pc = "sent", request.kind = "chat"
      PROVE  \/ sent.system \o sent.contents = Models!Messages
             \/ /\ Models!P = "huggingface" /\ request.window
                /\ \E k \in 0..Len(Models!Messages) :
                      sent.system \o sent.contents = Models!After(k)
  <2>1. request.provider \in Models!Provider
    BY DEF ModelInv, Models!TypeOK, Models!Request
  <2>2. /\ <<>> \o Models!Messages = Models!Messages
        /\ \A k \in 0..Len(Models!Messages) : <<>> \o Models!After(k) = Models!After(k)
    <3>1. PICK S : Models!Instructions \in Seq(S)
      BY MessagesOfNode
    <3>2. Models!Instructions \in Seq(S \cup {Models!FromUser})
      BY <3>1
    <3> DEFINE T == S \cup {Models!FromUser}
               m == Models!Messages
    <3>3. m \in Seq(T)
      BY <3>2 DEF Models!Messages
    <3> HIDE DEF T, m
    <3>4. \A k \in 0..Len(m) : SubSeq(m, k + 1, Len(m)) \in Seq(T)
      BY <3>3
    <3>5. \A s \in Seq(T) : <<>> \o s = s
      OBVIOUS
    <3>. QED
      BY <3>3, <3>4, <3>5 DEF m, Models!After
  <2>3. \A json : Models!Form(<<>>, Models!Messages, json).system
                     \o Models!Form(<<>>, Models!Messages, json).contents = Models!Messages
    BY <2>2 DEF Models!Form
  <2>4. \A json : Models!Form(Models!Apart.system, Models!Apart.contents, json).system
                     \o Models!Form(Models!Apart.system, Models!Apart.contents, json).contents
                     = Models!Messages
    BY ApartIsWhole DEF Models!Form
  <2>5. PICK k \in 0..Len(Models!Messages) : sent = Models!Convert(k)
    BY <1>1 DEF ModelInv
  <2>6. CASE Models!P # "huggingface"
    <3>1. sent \in {Models!OpenAIForm, Models!DeepSeekForm, Models!LocalForm,
                    Models!OllamaForm, Models!GeminiForm, Models!ClaudeForm}
      BY <2>1, <2>5, <2>6
      DEF Models!Convert, Models!P, Models!Provider, Models!Cloud, Models!OwnServer
    <3>. QED
      BY <2>3, <2>4, <3>1 DEF Models!OpenAIForm, Models!DeepSeekForm, Models!LocalForm,
         Models!OllamaForm, Models!GeminiForm, Models!ClaudeForm
  <2>7. CASE Models!P = "huggingface"
    <3>1. sent = Models!HuggingFaceForm(k)
      BY <2>5, <2>7 DEF Models!Convert, Models!OwnServer
    <3>2. CASE request.window
      <4>1. sent.system = <<>> /\ sent.contents = Models!After(k)
        BY <3>1, <3>2 DEF Models!HuggingFaceForm, Models!Form
      <4>. QED
        BY <2>2, <2>7, <3>2, <4>1
    <3>3. CASE ~request.window
      BY <2>3, <3>1, <3>3 DEF Models!HuggingFaceForm
    <3>. QED
      BY <3>2, <3>3
  <2>. QED
    BY <2>6, <2>7
<1>. QED
    BY <1>1 DEF ModelInv, Models!RequestsAreServed, Models!NothingIsLost

\* The requests to model providers, whatever changes around them: what was accepted is
\* served, but for a downloaded Hugging Face model that is not public and has no key; no
\* part of what the node says is lost on the way to its provider, but for the beginning
\* that the context window of the local pipeline cuts off; and who is offered for
\* embeddings embeds.
THEOREM RequestsAreAlwaysServed == NodesSpec => []RequestsAreServed
<1> DEFINE Inv == which = "models" => ModelInv
<1>1. NodesInit => Inv
    BY ModelStarts DEF NodesInit, CompilerInit, EditorInit, ToolsInit, ModelsInit, HttpInit
<1>2. Inv /\ [NodesNext]_all => Inv'
  <2> SUFFICES ASSUME Inv, [NodesNext]_all, which' = "models" PROVE ModelInv'
    OBVIOUS
  <2>1. CASE ModelsNext
    BY <2>1, ModelSteps DEF ModelsNext
  <2>2. CASE UNCHANGED all
    BY <2>2, ModelSteps DEF all, Models!vars
  <2>. QED
    BY <2>1, <2>2
    DEF NodesNext, CompilerNext, EditorNext, HttpNext, ToolsNext, Stopped
<1>3. Inv => RequestsAreServed
    BY ModelHolds DEF RequestsAreServed
<1>. QED
    BY <1>1, <1>2, <1>3, PTL DEF NodesSpec

------------------------------------------------------------------------------
(* The types of all *)

LEMMA PlanIsTyped ==
    ASSUME PlanInv
    PROVE  TypeOK
<1>1. PlanTypes /\ Once(order)
    BY DEF PlanInv, OrderAt
<1>. QED
    BY <1>1 DEF PlanTypes, Once, TypeOK

LEMMA EditorIsTyped ==
    ASSUME EditorInv
    PROVE  Editor!TypeOK
<1>1. /\ EditorTypes
      /\ \A f \in Editor!Flow : flow[f].mount <= mount /\ (flow[f].pc = "off" => flow[f] = Editor!NoFlow)
    BY DEF EditorInv, FlowAt
<1>2. \A f \in Editor!Flow :
         /\ flow[f].pc \in {"off", "compile", "started", "poll", "read", "closing"}
         /\ flow[f].run \in Editor!Run \cup {Editor!NoRun} /\ flow[f].mount \in 0..mount
  <2> SUFFICES ASSUME NEW f \in Editor!Flow
               PROVE  /\ flow[f].pc \in {"off", "compile", "started", "poll", "read", "closing"}
                      /\ flow[f].run \in Editor!Run \cup {Editor!NoRun}
                      /\ flow[f].mount \in 0..mount
    OBVIOUS
  <2>1. flow[f] \in EditorFlow /\ mount \in 0..MaxMounts /\ flow[f].mount <= mount
    BY <1>1 DEF EditorTypes
  <2>. QED
    BY <2>1, EditorAssumption DEF EditorFlow
<1>3. \A m \in Editor!Mount :
         ask[m].pc \in {"off", "sent", "answered"} /\ ask[m].run \in Editor!Run \cup {Editor!NoRun}
    BY <1>1 DEF EditorTypes, EditorAsk
<1>4. /\ server \in [Editor!Run -> Editor!RunState]
      /\ stored \in Editor!Run \cup {Editor!NoRun} /\ mount \in 0..MaxMounts /\ lost \in 0..MaxLost
      /\ orphan \subseteq Editor!Run /\ missed \subseteq Editor!Run
    BY <1>1 DEF EditorTypes
<1>5. /\ page.on \in BOOLEAN /\ page.active \in Editor!Run \cup {Editor!NoRun}
      /\ page.paused \in [run : Editor!Run \cup {Editor!NoRun}, token : 0..MaxPauses]
      /\ page.snapshot \in Editor!Run \cup {Editor!NoRun}
      /\ page.running \in BOOLEAN /\ page.pending \in BOOLEAN
    BY <1>1 DEF EditorTypes, EditorPage
<1>. QED
    BY <1>1, <1>2, <1>3, <1>4, <1>5 DEF Editor!TypeOK

\* Every variable has its type, in every component and for all bounds.
THEOREM NodesAreTyped == NodesSpec => []TypesOK
<1> DEFINE Inv == /\ which = "plan" => PlanInv
                  /\ which = "editor" => EditorInv
                  /\ which = "tools" => ToolInv
                  /\ which = "models" => ModelInv
                  /\ which = "http" => HttpInv
<1>1. NodesInit => Inv
    BY PlanStarts, EditorStarts, ToolStarts, ModelStarts, HttpStarts
    DEF NodesInit, CompilerInit, EditorInit, ToolsInit, ModelsInit, HttpInit
<1>2. Inv /\ [NodesNext]_all => Inv'
  <2> SUFFICES ASSUME Inv, [NodesNext]_all PROVE Inv'
    OBVIOUS
  <2>1. CASE CompilerNext
    BY <2>1, PlanSteps DEF CompilerNext
  <2>2. CASE EditorNext
    BY <2>2, EditorSteps DEF EditorNext
  <2>3. CASE ToolsNext
    BY <2>3, ToolSteps DEF ToolsNext
  <2>4. CASE ModelsNext
    BY <2>4, ModelSteps DEF ModelsNext
  <2>5. CASE HttpNext
    BY <2>5, HttpSteps DEF HttpNext
  <2>6. CASE UNCHANGED all
    <3>1. /\ UNCHANGED which /\ UNCHANGED vars /\ UNCHANGED Editor!vars /\ UNCHANGED Tools!vars
          /\ UNCHANGED Models!vars /\ UNCHANGED Http!vars
      BY <2>6 DEF all, vars, Editor!vars, Tools!vars, Models!vars, Http!vars
    <3>. QED
      BY <3>1, PlanSteps, EditorSteps, ToolSteps, ModelSteps, HttpSteps
  <2>. QED
    BY <2>1, <2>2, <2>3, <2>4, <2>5, <2>6 DEF NodesNext, Stopped
<1>3. Inv => TypesOK
    BY PlanIsTyped, EditorIsTyped DEF TypesOK, ToolInv, ModelInv, HttpInv
<1>. QED
    BY <1>1, <1>2, <1>3, PTL DEF NodesSpec
==============================================================================
