--------------------------- MODULE HttpTransport ---------------------------
(***************************************************************************)
(* services/workflow/http_transport.py: one call of the HTTP nodes.  It    *)
(* sends a request, follows redirects hop by hop, reads the response under *)
(* a limit, writes a download beside its place and moves it there, retries *)
(* after an error or a status of its list, and gives up on a cancellation  *)
(* or when the time of the whole call is over.                             *)
(*                                                                         *)
(* The server, the network, the clock and the cancellation are the         *)
(* environment: a request that breaks may have been processed.             *)
(***************************************************************************)
EXTENDS Naturals, FiniteSets

CONSTANTS
    MaxAttempts,   \* bound of parameters.max_attempts
    MaxRedirects,  \* bound of parameters.max_redirects
    Limit          \* the size limit of a response, in chunks

Attempt == 1..MaxAttempts

VARIABLES
    request,    \* the parameters of the node
    pc,
    attempt, hops,
    scheme,     \* of the current URL
    body,       \* the opened file of the request: "none", "start", "end", "closed"
    status,     \* the response's: "accepted", "retry", "other"
    size,       \* chunks read of it
    partials,   \* the attempts whose partial download is on disk
    download,   \* what is at the place of the download: "old" or "new"
    cancelled, late,  \* the run was cancelled, the overall timeout elapsed
    outcome,
    processed,  \* history: how often a server carried a request out
    short       \* history: a request was sent without its whole body

vars == <<request, pc, attempt, hops, scheme, body, status, size, partials, download,
          cancelled, late, outcome, processed, short>>

Outcomes == {"ok", "cancelled", "overall_timeout", "invalid_target", "redirect_limit",
             "redirect_downgrade", "response_too_large", "http_status", "invalid_json",
             "transport_error"}

TypeOK ==
    /\ request \in [safe : BOOLEAN, resend : BOOLEAN, attempts : Attempt,
                    redirects : 0..MaxRedirects, downgrade : BOOLEAN,
                    upload : BOOLEAN, file : BOOLEAN, json : BOOLEAN]
    /\ pc \in {"attempt", "hop", "redirect", "read", "broken", "wait", "slept", "done"}
    /\ attempt \in 1..request.attempts /\ hops \in 0..request.redirects
    /\ scheme \in {"http", "https"} /\ body \in {"none", "start", "end", "closed"}
    /\ body = "closed" <=> (pc = "done" /\ request.upload)
    /\ status \in {"accepted", "retry", "other"} /\ size \in 0..Limit + 1
    /\ partials \subseteq {attempt} /\ download \in {"old", "new"}
    /\ cancelled \in BOOLEAN /\ late \in BOOLEAN
    /\ outcome \in Outcomes \cup {"none"} /\ (outcome = "none" <=> pc # "done")
    /\ processed \in Nat /\ short \in BOOLEAN

\* The parameters the model accepts: POST and PATCH are retried only with an
\* idempotency key or the explicit opt-in.
Valid(r) == ~(r.file /\ r.json) /\ (r.attempts > 1 => r.safe \/ r.resend)

Init ==
    /\ request \in [safe : BOOLEAN, resend : BOOLEAN, attempts : Attempt,
                    redirects : 0..MaxRedirects, downgrade : BOOLEAN,
                    upload : BOOLEAN, file : BOOLEAN, json : BOOLEAN]
    /\ Valid(request)
    /\ pc = "attempt" /\ attempt = 1 /\ hops = 0 /\ scheme = "https"
    /\ body = (IF request.upload THEN "start" ELSE "none")
    /\ status = "other" /\ size = 0 /\ partials = {} /\ download = "old"
    /\ cancelled = FALSE /\ late = FALSE
    /\ outcome = "none" /\ processed = 0 /\ short = FALSE

-----------------------------------------------------------------------------

\* The call ends: the request's file is closed, the partial download removed.
End(o) ==
    /\ pc' = "done" /\ outcome' = o
    /\ body' = (IF request.upload THEN "closed" ELSE "none")
    /\ partials' = partials \ {attempt}

GoOn(to) == pc' = to /\ UNCHANGED <<outcome, body>>

\* What a look at the cancellation and at the clock ends the call with.
Interrupted == cancelled \/ late
Interrupt   == End(IF cancelled THEN "cancelled" ELSE "overall_timeout")

Begin ==
    /\ pc = "attempt"
    /\ IF Interrupted
       THEN Interrupt /\ UNCHANGED <<hops, scheme>>
       ELSE GoOn("hop") /\ hops' = 0 /\ scheme' = "https" /\ UNCHANGED partials
    /\ UNCHANGED <<request, attempt, status, size, download, cancelled, late, processed, short>>

\* _validate_and_pin: the target is malformed, has no address or a blocked one.
BadTarget ==
    /\ pc \in {"hop", "redirect"}
    /\ End("invalid_target")
    /\ UNCHANGED <<request, attempt, hops, scheme, status, size, download, cancelled, late,
                   processed, short>>

\* Mutant: the file of the body is rewound for the first request alone.
RewoundOnce == IF attempt = 1 /\ hops = 0 /\ body # "none" THEN "start" ELSE body

\* _rewind_request_bodies
Rewound == IF body = "none" THEN "none" ELSE "start"

\* The request is sent; its connection breaks, or a server redirects or answers it.  A
\* server may have carried out what it redirects: whichever redirect it is (a 303 too),
\* the method and the body are sent again to its target.
Send ==
    /\ pc = "hop"
    /\ body' = (IF Rewound = "none" THEN "none" ELSE "end")
    /\ short' = (short \/ Rewound = "end")
    /\ \/ /\ pc' = "broken" /\ processed' \in {processed, processed + 1}
          /\ UNCHANGED <<status, size, partials>>
       \/ /\ pc' = "redirect" /\ processed' \in {processed, processed + 1}
          /\ UNCHANGED <<status, size, partials>>
       \/ /\ pc' = "read" /\ processed' = processed + 1
          /\ status' \in {"accepted", "retry", "other"} /\ size' = 0
          /\ partials' = (IF request.file THEN partials \cup {attempt} ELSE partials)
    /\ UNCHANGED <<request, attempt, hops, scheme, download, cancelled, late, outcome>>

\* Mutant: a redirect does not count.
FollowUncounted(target) ==
    /\ pc = "redirect"
    /\ IF hops >= request.redirects
       THEN End("redirect_limit") /\ UNCHANGED scheme
       ELSE IF scheme = "https" /\ target = "http" /\ ~request.downgrade
       THEN End("redirect_downgrade") /\ UNCHANGED scheme
       ELSE GoOn("hop") /\ scheme' = target /\ UNCHANGED partials
    /\ UNCHANGED <<request, attempt, hops, status, size, download, cancelled, late, processed, short>>

Follow(target) ==
    /\ pc = "redirect"
    /\ IF hops >= request.redirects
       THEN End("redirect_limit") /\ UNCHANGED <<hops, scheme>>
       ELSE IF scheme = "https" /\ target = "http" /\ ~request.downgrade
       THEN End("redirect_downgrade") /\ UNCHANGED <<hops, scheme>>
       ELSE GoOn("hop") /\ hops' = hops + 1 /\ scheme' = target /\ UNCHANGED partials
    /\ UNCHANGED <<request, attempt, status, size, download, cancelled, late, processed, short>>

\* A chunk counts before it is kept; the cancellation and the clock are looked at after.
ReadChunk ==
    /\ pc = "read" /\ size <= Limit
    /\ size' = size + 1
    /\ IF size' > Limit THEN End("response_too_large")
       ELSE IF Interrupted THEN Interrupt
       ELSE GoOn("read") /\ UNCHANGED partials
    /\ UNCHANGED <<request, attempt, hops, scheme, status, download, cancelled, late,
                   processed, short>>

ReadBreaks ==
    /\ pc = "read" /\ GoOn("broken")
    /\ UNCHANGED <<request, attempt, hops, scheme, status, size, partials, download,
                   cancelled, late, processed, short>>

\* The response is read: it is taken, refused, or waited for again.
Judge ==
    /\ pc = "read"
    /\ IF status = "accepted"
       THEN \E o \in {"ok"} \cup (IF request.json THEN {"invalid_json"} ELSE {}) :
              End(o) /\ download' = (IF request.file THEN "new" ELSE download)
       ELSE /\ IF status = "retry" /\ attempt < request.attempts
               THEN GoOn("wait") /\ partials' = partials \ {attempt}
               ELSE End("http_status")
            /\ UNCHANGED download
    /\ UNCHANGED <<request, attempt, hops, scheme, status, size, cancelled, late, processed, short>>

\* Mutant: the partial download of the broken attempt is left.
RetryLeavingPartial ==
    /\ pc = "broken"
    /\ IF attempt >= request.attempts \/ ~(request.safe \/ request.resend)
       THEN End("transport_error")
       ELSE GoOn("wait") /\ UNCHANGED partials
    /\ UNCHANGED <<request, attempt, hops, scheme, status, size, download, cancelled, late,
                   processed, short>>

Retry ==
    /\ pc = "broken"
    /\ IF attempt >= request.attempts \/ ~(request.safe \/ request.resend)
       THEN End("transport_error")
       ELSE GoOn("wait") /\ partials' = partials \ {attempt}
    /\ UNCHANGED <<request, attempt, hops, scheme, status, size, download, cancelled, late,
                   processed, short>>

\* _wait_before_retry looks at both before and after it sleeps.
Wait ==
    /\ pc \in {"wait", "slept"}
    /\ IF Interrupted THEN Interrupt /\ UNCHANGED attempt
       ELSE /\ GoOn(IF pc = "wait" THEN "slept" ELSE "attempt") /\ UNCHANGED partials
            /\ attempt' = IF pc = "wait" THEN attempt ELSE attempt + 1
    /\ UNCHANGED <<request, hops, scheme, status, size, download, cancelled, late,
                   processed, short>>

Step == Begin \/ BadTarget \/ Send \/ (\E target \in {"http", "https"} : Follow(target))
        \/ ReadChunk \/ ReadBreaks \/ Judge \/ Retry \/ Wait

\* The environment: a cancellation, the clock.
Environment ==
    /\ pc # "done"
    /\ \/ ~cancelled /\ cancelled' = TRUE /\ UNCHANGED late
       \/ ~late /\ late' = TRUE /\ UNCHANGED cancelled
    /\ UNCHANGED <<request, pc, attempt, hops, scheme, body, status, size, partials, download,
                   outcome, processed, short>>

Rest == pc = "done" /\ UNCHANGED vars

Next == Step \/ Environment \/ Rest

\* Every wait of the call ends: the client's timeouts turn silence into an error.
Spec == Init /\ [][Next]_vars /\ WF_vars(Step)

-----------------------------------------------------------------------------
(* Properties *)

\* A request that is not safe to repeat is carried out at most once, over breaks and
\* statuses, unless the node opted in, and at most once more for each redirect that was
\* followed (by default none is): the server that redirects may have carried it out.
UnsafeOnce == ~request.safe /\ ~request.resend => processed <= 1 + hops

\* Every request of a call, after a redirect or a retry too, carries its whole body.
BodyIsWhole == ~short

\* A download is at its place exactly when the call succeeded, and no end of the call
\* leaves a partial one behind.
DownloadIsAllOrNothing ==
    /\ pc = "done" => partials = {} /\ (download = "new" <=> outcome = "ok" /\ request.file)
    /\ pc # "done" => download = "old"

CallIsSafe == UnsafeOnce /\ BodyIsWhole /\ DownloadIsAllOrNothing

\* Every call ends, whatever servers, clock and cancellation do.
CallEnds == <>(pc = "done")
=============================================================================
