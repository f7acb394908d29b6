----------------------------- MODULE HttpRequest -----------------------------
(***************************************************************************)
(* Requests of one AsyncHttpClient.  Each runs in a thread of the pool as  *)
(* an AsyncHttpRequest and posts its progress to a response handler, whose *)
(* messages one Looper delivers in the order they are sent.  A failed      *)
(* attempt is repeated by two loops, one inside HttpClient and one around  *)
(* it, that both ask the same RetryHandler.  All requests share one        *)
(* HttpContext, so what the RetryHandler reads of "the current request" is *)
(* the request that was executed last.                                     *)
(***************************************************************************)
EXTENDS Naturals, Sequences, FiniteSets

CONSTANTS
    Requests,      \* the requests the application makes
    Posts,         \* those whose method is POST
    MaxRetries     \* DEFAULT_MAX_RETRIES

ASSUME RequestsAssumption ==
    /\ Posts \subseteq Requests
    /\ MaxRetries \in Nat

VARIABLES
    pc,             \* where each request stands
    execCount,      \* attempts of the present execute(), counted by HttpClient
    executionCount, \* failed calls of makeRequest()
    error,          \* the kind of the last exception
    currentReq,     \* HTTP_REQUEST in the shared context: one request, or none
    interrupted,    \* the interrupt flag of the request's thread
    messages,       \* messages sent to the response handler
    attempts,       \* history: how often the request was tried
    lastAttempts    \* history: attempts when the flag was raised

vars == <<pc, execCount, executionCount, error, currentReq, interrupted,
          messages, attempts, lastAttempts>>

\* SocketException and UnknownHostException; SocketTimeoutException; the rest
\* of what RetryHandler never repeats; NullPointerException; every other one.
Errors == {"host", "timeout", "blacklisted", "npe", "dropped"}

Init ==
    /\ pc = [r \in Requests |-> "new"]
    /\ execCount = [r \in Requests |-> 0]
    /\ executionCount = [r \in Requests |-> 0]
    /\ error = [r \in Requests |-> "none"]
    /\ currentReq = {}
    /\ interrupted = [r \in Requests |-> FALSE]
    /\ messages = [r \in Requests |-> <<>>]
    /\ attempts = [r \in Requests |-> 0]
    /\ lastAttempts = [r \in Requests |-> 0]

Goto(r, from, to) == pc[r] = from /\ pc' = [pc EXCEPT ![r] = to]
Send(r, msgs) == messages' = [messages EXCEPT ![r] = @ \o msgs]
Try(r) == attempts' = [attempts EXCEPT ![r] = @ + 1]

(* Plausible errors of the operators that follow. *)
RetriesPosts(e, count) ==
    /\ count <= MaxRetries
    /\ e \notin {"timeout", "blacklisted"}
RetriesOnceMore(e, count) ==
    /\ count <= MaxRetries + 1
    /\ e \notin {"timeout", "blacklisted"}
    /\ currentReq \cap Posts = {}

\* retryRequest(): retry starts as true, so whether the request was already
\* sent, and the whitelist, make no difference.
RetryRequest(e, count) ==
    /\ count <= MaxRetries
    /\ e \notin {"timeout", "blacklisted"}
    /\ currentReq \cap Posts = {}

-----------------------------------------------------------------------------
(* The thread that makes and cancels requests.                             *)

\* sendRequest(): into the pool and into the request map.
SendRequest(r) ==
    /\ Goto(r, "new", "submitted")
    /\ UNCHANGED <<execCount, executionCount, error, currentReq, interrupted,
                   messages, attempts, lastAttempts>>

\* cancelRequests(context, true) for one of its requests: a future that has
\* not started never will, a running one has its thread interrupted.
CancelRequest(r) ==
    /\ pc[r] \notin {"new", "ended", "cancelled"} /\ ~interrupted[r]
    /\ IF pc[r] = "submitted"
       THEN Goto(r, "submitted", "cancelled") /\ UNCHANGED <<interrupted, lastAttempts>>
       ELSE /\ interrupted' = [interrupted EXCEPT ![r] = TRUE]
            /\ lastAttempts' = [lastAttempts EXCEPT ![r] = attempts[r]]
            /\ UNCHANGED pc
    /\ UNCHANGED <<execCount, executionCount, error, currentReq, messages, attempts>>

-----------------------------------------------------------------------------
(* The thread that runs a request.                                         *)

\* run()
Start(r) ==
    /\ Goto(r, "submitted", "round")
    /\ Send(r, <<"start">>)
    /\ UNCHANGED <<execCount, executionCount, error, currentReq, interrupted,
                   attempts, lastAttempts>>

\* (A plausible error.)  makeRequest() does not look at the flag.
RoundIgnoresInterrupt(r) ==
    /\ Goto(r, "round", "trying")
    /\ currentReq' = {r}
    /\ execCount' = [execCount EXCEPT ![r] = 1]
    /\ Try(r)
    /\ UNCHANGED <<executionCount, error, interrupted, messages, lastAttempts>>

\* makeRequest() up to the first attempt: execute() puts its request into the
\* context, which is every request's.
MakeRequest(r) ==
    /\ IF interrupted[r]
       THEN Goto(r, "round", "returned") /\ UNCHANGED <<currentReq, execCount, attempts>>
       ELSE /\ Goto(r, "round", "trying")
            /\ currentReq' = {r}
            /\ execCount' = [execCount EXCEPT ![r] = 1]
            /\ Try(r)
    /\ UNCHANGED <<executionCount, error, interrupted, messages, lastAttempts>>

\* An attempt is answered, or fails.  A NullPointerException passes the loop
\* inside HttpClient.
AttemptEnds(r) ==
    /\ \/ Goto(r, "trying", "answered") /\ UNCHANGED error
       \/ \E e \in Errors :
            /\ Goto(r, "trying", IF e = "npe" THEN "failed" ELSE "retry")
            /\ error' = [error EXCEPT ![r] = e]
    /\ UNCHANGED <<execCount, executionCount, currentReq, interrupted, messages,
                   attempts, lastAttempts>>

\* The loop inside HttpClient; its sleep keeps the interrupt flag.
HttpClientRetries(r) ==
    /\ IF RetryRequest(error[r], execCount[r])
       THEN /\ Goto(r, "retry", "trying")
            /\ execCount' = [execCount EXCEPT ![r] = @ + 1]
            /\ Try(r)
       ELSE Goto(r, "retry", "thrown") /\ UNCHANGED <<execCount, attempts>>
    /\ UNCHANGED <<executionCount, error, currentReq, interrupted, messages, lastAttempts>>

\* makeRequest() swallows the exception of an interrupted request.
MakeRequestThrows(r) ==
    /\ Goto(r, "thrown", IF interrupted[r] THEN "returned" ELSE "failed")
    /\ UNCHANGED <<execCount, executionCount, error, currentReq, interrupted,
                   messages, attempts, lastAttempts>>

\* (A plausible error.)  The count is read and not advanced.
RetriesForgetCount(r) ==
    /\ IF error[r] \in {"host", "timeout"}
       THEN Goto(r, "failed", "returned") /\ Send(r, <<"failure">>)
       ELSE IF RetryRequest(error[r], executionCount[r] + 1)
            THEN Goto(r, "failed", "round") /\ UNCHANGED messages
            ELSE Goto(r, "failed", "ended") /\ Send(r, <<"finish", "failure">>)
    /\ UNCHANGED <<execCount, executionCount, error, currentReq, interrupted,
                   attempts, lastAttempts>>

\* (A plausible error.)  The catch block of an unknown host rethrows.
HostRethrown(r) ==
    /\ executionCount' = [executionCount EXCEPT ![r] = @ + 1]
    /\ IF error[r] # "timeout" /\ RetryRequest(error[r], executionCount[r] + 1)
       THEN Goto(r, "failed", "round") /\ UNCHANGED messages
       ELSE Goto(r, "failed", "ended") /\ Send(r, <<"finish", "failure">>)
    /\ UNCHANGED <<execCount, error, currentReq, interrupted, attempts, lastAttempts>>

\* The catch blocks of makeRequestWithRetries() and, once no retry is left,
\* that of run().
MakeRequestWithRetries(r) ==
    /\ IF error[r] \in {"host", "timeout"}
       THEN /\ Goto(r, "failed", "returned")
            /\ Send(r, <<"failure">>)
            /\ UNCHANGED executionCount
       ELSE /\ executionCount' = [executionCount EXCEPT ![r] = @ + 1]
            /\ IF RetryRequest(error[r], executionCount[r] + 1)
               THEN Goto(r, "failed", "round") /\ UNCHANGED messages
               ELSE Goto(r, "failed", "ended") /\ Send(r, <<"finish", "failure">>)
    /\ UNCHANGED <<execCount, error, currentReq, interrupted, attempts, lastAttempts>>

\* (A plausible error.)  A cancelled request's answer raises an exception that
\* run() does not catch, and the thread dies.
ResponseRaises(r) ==
    /\ ~interrupted[r] /\ Goto(r, "answered", "respond")
    /\ UNCHANGED <<execCount, executionCount, error, currentReq, interrupted,
                   messages, attempts, lastAttempts>>

\* The response is dropped if the request was cancelled meanwhile.
ResponseArrives(r) ==
    /\ Goto(r, "answered", IF interrupted[r] THEN "returned" ELSE "respond")
    /\ UNCHANGED <<execCount, executionCount, error, currentReq, interrupted,
                   messages, attempts, lastAttempts>>

\* sendResponseMessage(): the status decides on the message; a body that
\* cannot be read adds a failure and does not replace it.
SendResponseMessage(r) ==
    /\ Goto(r, "respond", "returned")
    /\ \E body \in {<<>>, <<"failure">>}, outcome \in {"success", "failure"} :
            Send(r, Append(body, outcome))
    /\ UNCHANGED <<execCount, executionCount, error, currentReq, interrupted,
                   attempts, lastAttempts>>

Finish(r) ==
    /\ Goto(r, "returned", "ended")
    /\ Send(r, <<"finish">>)
    /\ UNCHANGED <<execCount, executionCount, error, currentReq, interrupted,
                   attempts, lastAttempts>>

Run(r) ==
    \/ Start(r) \/ MakeRequest(r) \/ AttemptEnds(r) \/ HttpClientRetries(r)
    \/ MakeRequestThrows(r) \/ MakeRequestWithRetries(r)
    \/ ResponseArrives(r) \/ SendResponseMessage(r) \/ Finish(r)

-----------------------------------------------------------------------------
Next == \E r \in Requests : SendRequest(r) \/ CancelRequest(r) \/ Run(r)

Spec == Init /\ [][Next]_vars

\* The pool has a thread for every request, and sockets time out, so that an
\* attempt ends.  Nothing makes the application send or cancel.
FairSpec == Spec /\ \A r \in Requests : WF_vars(Run(r))

-----------------------------------------------------------------------------
Count(m, msg) == Cardinality({i \in DOMAIN m : m[i] = msg})

TypeOK ==
    /\ pc \in [Requests -> {"new", "submitted", "round", "trying", "retry", "thrown",
                "failed", "answered", "respond", "returned", "ended", "cancelled"}]
    /\ execCount \in [Requests -> 0..MaxRetries + 1]
    /\ executionCount \in [Requests -> 0..MaxRetries + 1]
    /\ error \in [Requests -> Errors \cup {"none"}]
    /\ currentReq \subseteq Requests
    /\ interrupted \in [Requests -> BOOLEAN]
    /\ messages \in [Requests -> Seq({"start", "success", "failure", "finish"})]
    /\ attempts \in [Requests -> Nat]
    /\ lastAttempts \in [Requests -> Nat]

\* makeRequestWithRetries() has thrown for want of retries: the count is used
\* up, the last error is never repeated, or a POST that was tried forbids it.
GaveUp(r) ==
    /\ error[r] \notin {"host", "timeout"} /\ executionCount[r] > 0
    /\ \/ executionCount[r] > MaxRetries
       \/ error[r] = "blacklisted"
       \/ \E p \in Posts : attempts[p] > 0

\* A request that ran tells its handler that it started, once and first, and
\* that it finished, once and, as the handler's documentation says, after
\* success and failure (AsyncHttpResponseHandler.java:113-116).  One request
\* contradicts it: the one that gave up for want of retries hears of its
\* failure after it has finished (AsyncHttpRequest.run(), the catch block).
\* Unless it was cancelled, a request also tells how it went.
CallbacksInOrder ==
    \A r \in Requests : pc[r] = "ended" =>
        LET m == messages[r] IN
        /\ Head(m) = "start" /\ Count(m, "start") = 1 /\ Count(m, "finish") = 1
        /\ Count(m, "success") <= 1
        /\ ~interrupted[r] => Count(m, "success") + Count(m, "failure") >= 1
        /\ m[Len(m)] = "finish" \/ (GaveUp(r) /\ m = <<"start", "finish", "failure">>)

\* While a client makes nothing but POST requests, as this application does,
\* each is tried once at most (RetryHandler.retryRequest(), its last test).
\* With another request in the shared context a POST may be repeated.
PostsSentOnce ==
    (\A r \in Requests \ Posts : attempts[r] = 0)
        => \A p \in Posts : attempts[p] <= 1

\* The loop around HttpClient multiplies the one inside: a request is tried
\* no more than (MaxRetries + 1)^2 times.
AttemptsBounded ==
    \A r \in Requests : attempts[r] <= (MaxRetries + 1) * (MaxRetries + 1)

\* A request cancelled while it runs is given up after the attempts HttpClient
\* still makes of its present execute(): MaxRetries at most.
CancelledGivesUp ==
    \A r \in Requests : interrupted[r] => attempts[r] <= lastAttempts[r] + MaxRetries

\* Every request the application sends ends, cancelled or not, and has then
\* finished or was never begun.
RequestEnds ==
    \A r \in Requests : pc[r] = "submitted" ~> pc[r] \in {"ended", "cancelled"}

=============================================================================
