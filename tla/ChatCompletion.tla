---------------------------- MODULE ChatCompletion ----------------------------
(***************************************************************************)
(* One request to POST /v1/chat/completions of llm_gateway/app.py: its     *)
(* body is read, its sender authenticated and its fields checked, passages *)
(* are retrieved if it asks for them, it is charged, answered by the       *)
(* router through guard_stream, and its charge is corrected.  The answer   *)
(* is a stream of server-sent events or one JSON document.                 *)
(*                                                                         *)
(* The chain of generators is  _sse_body <- guard_stream <- router <-      *)
(* provider; each asks the next one for an event.  A client that streams   *)
(* may disconnect at any time: while the provider is awaited this cancels  *)
(* the whole chain, and while a frame is sent it abandons it.              *)
(***************************************************************************)
EXTENDS ModelRouter, Errors

CONSTANTS
    Requests,   \* what may be asked
    Prompt,     \* estimated tokens of the prompt
    MaxOutput   \* tokens the answer may have, charged before it is known

Keys == {"none", "known", "unknown"}

\* The `stream` field; whether passages are asked for, perhaps of a gateway that
\* has no RagService; a body beyond the limit; the credentials; and whether the
\* body is JSON and a ChatCompletionRequest.
AllRequests ==
    [stream : BOOLEAN, rag : {"no", "asked", "unserved"}, large : BOOLEAN,
     bearer : Keys, x_api_key : Keys, body : {"garbage", "invalid", "valid"}]

\* What clients are told of the models' failures and the gateway's own.
NotTheClients ==
    {"upstream_timeout", "upstream_unavailable", "upstream_rate_limited", "internal_error"}

\* Providers raise errors of the models (ollama.py).
ASSUME CCAssumption ==
    /\ Requests \subseteq AllRequests /\ Prompt \in Nat /\ MaxOutput \in Nat
    /\ \A code \in Codes : ErrorType(code) \in NotTheClients

VARIABLES
    request,
    stage,      \* where chat_completions stands
    sources,    \* there are citations to be sent
    carry,      \* the text the redactor holds back
    counted,    \* guard_stream's completion_tokens
    text,       \* the text that left guard_stream: sent, or kept for the document
    ending,     \* the frames after the text, or the document, or the error's code
    status,     \* of the HTTP response, once its head is sent
    gone,       \* the client of a stream has disconnected
    generated,  \* completion tokens as the handler knows them
    charge,     \* what the request has cost its API key
    settled,    \* the correction of the charge: "no", "yes" or "lost"
    metrics     \* what the request added to the metrics

asked == <<request, sources>>
pieces == <<carry, counted, text>>
told == <<ending, status, gone>>
money == <<generated, charge, settled>>
chatVars == <<asked, stage, pieces, told, money, metrics>>
vars == <<chatVars, routerVars>>

streaming == request.stream

Estimated == Prompt + MaxOutput

\* requests_total, requests_failed_total and the histogram gateway_latency_ms.
Series == {"total", "failed", "observed"}

Init ==
    /\ RouterInit
    /\ request \in Requests
    /\ stage = "received"
    /\ sources = FALSE
    /\ carry = <<>> /\ text = <<>> /\ ending = <<>>
    /\ counted = 0 /\ generated = 0 /\ charge = 0 /\ status = 0
    /\ settled = "no"
    /\ gone = FALSE
    /\ metrics = [s \in Series |-> 0]

-----------------------------------------------------------------------------
\* METRICS.increment, and Timer.__exit__ for the histogram.
Count(some) == metrics' = [s \in Series |-> metrics[s] + (IF s \in some THEN 1 ELSE 0)]

\* The response is an error (_error_response).
Fail(exc) ==
    /\ stage' = "over"
    /\ ending' = <<coerce(exc)>>
    /\ status' = HttpStatusOf(exc)
    /\ Count({"failed", "observed"})
    /\ UNCHANGED gone

-----------------------------------------------------------------------------
(* Before the answer.                                                      *)

\* The body exceeds the limit, or the client disconnects while it is read. (A key
\* that is not ASCII, which compare_digest refuses, ends like the second.)
ReadFails ==
    /\ stage = "received"
    /\ Fail(IF request.large THEN "PAYLOAD_TOO_LARGE" ELSE "ClientDisconnect")
    /\ UNCHANGED <<asked, pieces, money, routerVars>>

\* A bearer token is taken before X-API-Key, whether it is known or not.
extract_api_key ==
    IF request.bearer # "none" THEN request.bearer ELSE request.x_api_key

Unauthenticated ==
    /\ stage = "received" /\ ~request.large
    /\ extract_api_key # "known"
    /\ Fail("UNAUTHENTICATED")
    /\ UNCHANGED <<asked, pieces, money, routerVars>>

Authenticated == stage = "received" /\ ~request.large /\ extract_api_key = "known"

\* No JSON; a field violated or a prompt too long; retrieval that is not enabled.
Invalid ==
    /\ Authenticated
    /\ \/ request.body = "garbage" /\ Fail("PARSE_ERROR")
       \/ request.body = "invalid" /\ Fail("INVALID_PARAMS")
       \/ request.body = "valid" /\ request.rag = "unserved" /\ Fail("INVALID_PARAMS")
    /\ UNCHANGED <<asked, pieces, money, routerVars>>

\* Mutant of Accept: the charge comes before the retrieval.
AcceptCharged ==
    /\ Authenticated /\ request.body = "valid" /\ request.rag # "unserved"
    /\ stage' = IF request.rag = "asked" THEN "retrieving" ELSE "checking"
    /\ charge' = Estimated
    /\ UNCHANGED <<asked, pieces, told, generated, settled, metrics, routerVars>>

\* The handler awaits augment, or the limiter.
Accept ==
    /\ Authenticated /\ request.body = "valid" /\ request.rag # "unserved"
    /\ stage' = IF request.rag = "asked" THEN "retrieving" ELSE "checking"
    /\ UNCHANGED <<asked, pieces, told, money, metrics, routerVars>>

\* Passages are found, or there are none to cite.
Augmented ==
    /\ stage = "retrieving"
    /\ stage' = "checking"
    /\ sources' \in BOOLEAN
    /\ UNCHANGED <<request, pieces, told, money, metrics, routerVars>>

AugmentFails ==
    /\ stage = "retrieving"
    /\ Fail("RETRIEVAL_FAILED")
    /\ UNCHANGED <<asked, pieces, money, routerVars>>

\* The head of a streamed response is sent before _sse_body is started.
Answering ==
    IF streaming
    THEN stage' = "starting" /\ UNCHANGED routerVars
    ELSE stage' = "pulling" /\ Start

\* Mutant of Admitted: the output is charged when it is known.
AdmittedForPrompt ==
    /\ stage = "checking"
    /\ charge' = Prompt
    /\ Answering
    /\ UNCHANGED <<asked, pieces, told, generated, settled, metrics>>

Admitted ==
    /\ stage = "checking"
    /\ charge' = Estimated
    /\ Answering
    /\ UNCHANGED <<asked, pieces, told, generated, settled, metrics>>

RateLimited ==
    /\ stage = "checking"
    /\ Fail("RATE_LIMIT_EXCEEDED")
    /\ UNCHANGED <<asked, pieces, money, routerVars>>

\* Then its transaction may have been committed.
LimiterRaises ==
    /\ stage = "checking"
    /\ charge' \in {0, Estimated}
    /\ Fail("OperationalError")
    /\ UNCHANGED <<asked, pieces, generated, settled, routerVars>>

\* A frame with the sources goes before the text.
StartBody ==
    /\ stage = "starting"
    /\ status' = 200
    /\ IF sources
       THEN stage' = "sending" /\ UNCHANGED routerVars
       ELSE stage' = "pulling" /\ Start
    /\ UNCHANGED <<asked, pieces, ending, gone, money, metrics>>

-----------------------------------------------------------------------------
(* The answer: the handler awaits guard_stream, which awaits the router.   *)

\* The router awaits a provider.
RouterWorks ==
    /\ stage = "pulling"
    /\ Open \/ Read
    /\ UNCHANGED chatVars

\* guard_stream gets text. The redactor lets a part of what it holds go; if it
\* is all held back, or kept for the document, the router is asked again.
GuardText ==
    LET held == Append(carry, <<offer.from, offer.n>>) IN
    /\ stage = "pulling" /\ state = "offering" /\ ~offer.done
    /\ counted' = counted + offer.tokens
    /\ \E k \in 0..Len(held) :
          /\ text' = text \o SubSeq(held, 1, k)
          /\ carry' = SubSeq(held, k + 1, Len(held))
          /\ IF streaming /\ k > 0
             THEN stage' = "sending" /\ UNCHANGED routerVars
             ELSE Resume /\ UNCHANGED stage
    /\ UNCHANGED <<asked, told, money, metrics>>

\* guard_stream's final event tells the tokens.
Complete(n) ==
    /\ generated' = n
    /\ IF streaming
       THEN ending' = <<"final">> /\ stage' = "sending"
       ELSE stage' = "settling" /\ UNCHANGED ending

\* guard_stream gets the router's final event: the tokens it carries are those
\* of all the text events, which are counted already. What is still held back
\* is let go, in a frame of its own.
GuardDone ==
    /\ stage = "pulling" /\ state = "offering" /\ offer.done
    /\ Resume
    /\ counted' = counted + offer.tokens
    /\ text' = text \o carry
    /\ carry' = <<>>
    /\ IF streaming /\ carry # <<>>
       THEN stage' = "sending" /\ UNCHANGED <<ending, generated>>
       ELSE Complete(counted')
    /\ UNCHANGED <<asked, status, gone, charge, settled, metrics>>

\* Mutant of RouterFailed: the failure passes for the end of the answer.
RouterFailedSilently ==
    /\ stage = "pulling" /\ state = "raised"
    /\ IF streaming THEN stage' = "sending" ELSE stage' = "over"
    /\ ending' = <<IF streaming THEN "final" ELSE "document">>
    /\ UNCHANGED <<asked, pieces, status, gone, money, metrics, routerVars>>

\* What the redactor holds is dropped. The head of a stream is sent, so that its
\* error is a frame, counted if it is a GatewayError; a document that failed is
\* not corrected.
RouterFailed ==
    /\ stage = "pulling" /\ state = "raised"
    /\ IF streaming
       THEN /\ stage' = "sending"
            /\ ending' = <<coerce(error)>>
            /\ Count(IF error = "unnormalised" THEN {} ELSE {"failed"})
            /\ UNCHANGED <<status, gone>>
       ELSE Fail(error)
    /\ UNCHANGED <<asked, pieces, money, routerVars>>

\* A frame has been sent and there is more to come from the router.
SendText ==
    /\ stage = "sending" /\ ending = <<>>
    /\ state \in {"new", "offering"}
    /\ Start \/ Resume
    /\ stage' = "pulling"
    /\ UNCHANGED <<asked, pieces, told, money, metrics>>

\* The last text has been sent.
Finish ==
    /\ stage = "sending" /\ ending = <<>>
    /\ state = "returned"
    /\ Complete(counted)
    /\ UNCHANGED <<asked, pieces, status, gone, charge, settled, metrics, routerVars>>

\* Mutant of SendEnd: a stream that failed is counted as answered, too.
SendEndCounting ==
    /\ stage = "sending" /\ ending # <<>>
    /\ IF Len(ending) = 1
       THEN ending' = Append(ending, "[DONE]") /\ UNCHANGED <<stage, metrics>>
       ELSE stage' = "settling" /\ Count({"total"}) /\ UNCHANGED ending
    /\ UNCHANGED <<asked, pieces, status, gone, money, routerVars>>

\* The frame before [DONE], or [DONE], has been sent.
SendEnd ==
    /\ stage = "sending" /\ ending # <<>>
    /\ IF Len(ending) = 1
       THEN ending' = Append(ending, "[DONE]") /\ UNCHANGED <<stage, metrics>>
       ELSE /\ stage' = "settling"
            /\ Count(IF ending[1] = "final" THEN {"total"} ELSE {})
            /\ UNCHANGED ending
    /\ UNCHANGED <<asked, pieces, status, gone, money, routerVars>>

-----------------------------------------------------------------------------
(* The correction (_reconcile), in the `finally` clause of a stream.       *)

\* Mutant of Difference: the prompt is forgotten.
DifferenceOfOutput == generated - Estimated

Difference == Prompt + generated - Estimated

\* A document is answered when its charge is corrected. If there is nothing to
\* correct the limiter is not called.
Settle ==
    /\ stage = "settling"
    /\ charge' = charge + Difference
    /\ settled' = "yes"
    /\ stage' = "over"
    /\ IF streaming
       THEN Count({"observed"}) /\ UNCHANGED <<ending, status>>
       ELSE Count({"total", "observed"}) /\ ending' = <<"document">> /\ status' = 200
    /\ UNCHANGED <<asked, pieces, gone, generated, routerVars>>

\* The limiter raises, or the cancellation that ended the stream is delivered
\* again while the correction waits. It may have been committed all the same.
SettleFails ==
    /\ stage = "settling"
    /\ Difference # 0
    /\ charge' \in {charge, charge + Difference}
    /\ settled' = "lost"
    /\ IF streaming
       THEN stage' = "over" /\ Count({"observed"}) /\ UNCHANGED told
       ELSE Fail("OperationalError")
    /\ UNCHANGED <<asked, pieces, generated, routerVars>>

-----------------------------------------------------------------------------
(* The client of a stream goes away.                                       *)

Leaves == gone' = TRUE /\ UNCHANGED <<ending, status>>

\* A generator that was never started has no `finally` clause to run.
DisconnectStarting ==
    /\ stage = "starting"
    /\ Leaves
    /\ stage' = "over"
    /\ UNCHANGED <<asked, pieces, money, metrics, routerVars>>

\* Mutant of DisconnectPulling: the correction is not in a `finally` clause.
DisconnectPullingUnsettled ==
    /\ streaming /\ stage = "pulling"
    /\ Leaves
    /\ Cancelled
    /\ stage' = "over"
    /\ UNCHANGED <<asked, pieces, money, metrics>>

DisconnectPulling ==
    /\ streaming /\ stage = "pulling"
    /\ Leaves
    /\ Cancelled
    /\ stage' = "settling"
    /\ UNCHANGED <<asked, pieces, money, metrics>>

DisconnectSending ==
    /\ streaming /\ stage = "sending"
    /\ Leaves
    /\ IF state = "offering" THEN Forgotten ELSE UNCHANGED routerVars
    /\ stage' = "abandoned"
    /\ UNCHANGED <<asked, pieces, money, metrics>>

\* The interpreter closes the abandoned _sse_body: its `finally` clause runs.
CloseBody ==
    /\ stage = "abandoned"
    /\ stage' = "settling"
    /\ UNCHANGED <<asked, pieces, told, money, metrics, routerVars>>

\* Mutant of CloseRest: the finished router keeps its provider.
CloseRestOfRouter ==
    /\ state = "forgotten" => stage = "over"
    /\ CloseRouter
    /\ UNCHANGED chatVars

\* Then what it referred to: the router, and the router's provider.
CloseRest ==
    /\ state = "forgotten" => stage = "over"
    /\ Release
    /\ UNCHANGED chatVars

-----------------------------------------------------------------------------
HandlerStep ==
    \/ Augmented
    \/ AugmentFails
    \/ Admitted
    \/ RateLimited
    \/ LimiterRaises
    \/ StartBody
    \/ GuardText
    \/ GuardDone
    \/ RouterFailed
    \/ SendText
    \/ Finish
    \/ SendEnd
    \/ Settle
    \/ SettleFails

Disconnect == DisconnectStarting \/ DisconnectPulling \/ DisconnectSending

Stops ==
    /\ stage = "over"
    /\ UNCHANGED vars

Next ==
    \/ ReadFails
    \/ Unauthenticated
    \/ Invalid
    \/ Accept
    \/ HandlerStep
    \/ RouterWorks
    \/ Disconnect
    \/ CloseBody
    \/ CloseRest
    \/ Stops

Spec == Init /\ [][Next]_vars

\* A client may take for ever to send its body. Then the event loop runs the
\* handler, the embedder and the database answer or raise, Starlette sends or notices that the client
\* has gone, and the interpreter finalises what is unreachable. A provider that
\* is awaited answers in the end: before the first token the deadline sees to
\* that, after it the time limits of the provider's own HTTP client (ollama.py).
Fairness ==
    /\ WF_vars(HandlerStep)
    /\ WF_vars(RouterWorks)
    /\ WF_vars(CloseBody)
    /\ WF_vars(CloseRest)

FairSpec == Spec /\ Fairness

-----------------------------------------------------------------------------
Promise == INSTANCE OneAnswer WITH
    source <- IF made[provider] = 0 THEN Primary ELSE provider,
    produced <- made[provider],
    answer <- text,
    outcome <- IF ending = <<>> THEN "open"
               ELSE IF ending[1] \in {"final", "document"} THEN "complete" ELSE "failed"

\* The client of chat_completions gets one provider's answer: whatever fails,
\* falls back, is held back by the redactor or disconnects, the text is a prefix
\* of what one provider produced, is called complete only when it is all of it,
\* and is not continued after the end.
ImplementsOneAnswer == Promise!AnswerSpec

-----------------------------------------------------------------------------
\* The type invariant; the answer ends with its last frame and [DONE], as a
\* document or with an error, once.
TypeOK ==
    /\ RouterTypeOK
    /\ request \in Requests /\ sources \in BOOLEAN /\ gone \in BOOLEAN
    /\ stage \in {"received", "retrieving", "checking", "starting", "pulling",
                  "sending", "settling", "abandoned", "over"}
    /\ carry \in Seq(Providers \X (1..MaxEvents))
    /\ text \in Seq(Providers \X (1..MaxEvents))
    /\ counted \in Nat /\ generated \in Nat /\ charge \in Nat
    /\ ending \in {<<>>, <<"document">>}
         \cup UNION {{<<e>>, <<e, "[DONE]">>} : e \in {"final"} \cup DOMAIN ErrorTable}
    /\ status \in {0, 200} \cup {HttpStatusOf(e) : e \in DOMAIN ErrorTable}
    /\ settled \in {"no", "yes", "lost"}
    /\ metrics \in [Series -> Nat]

\* No provider works for a request that is not charged in full, or whose charge
\* has been corrected already (the correction would miss what it still makes).
NoUnpaidWork ==
    \A p \in Providers : gen[p] = "running" => charge = Estimated /\ settled = "no"

\* The correction never gives back the prompt. An answer that the client was told is
\* complete costs the prompt and twice the tokens that its provider produced, however
\* it was cut and held back: the router's final event repeats the total, and
\* guard_stream adds it to the sum of the text events. (Twice is not what _reconcile
\* means by "the real usage"; see the README.)
CompleteIsPaid ==
    settled # "no" =>
        /\ charge >= Prompt
        /\ ending # <<>> /\ ending[1] \in {"final", "document"} /\ settled = "yes"
              => charge = Prompt + 2 * billed[provider]

\* "error_type: Coarse category used by clients for retry decisions": an error
\* that is not the models' (upstream_*) nor the gateway's own (internal_error)
\* came before any of them was asked and has cost nothing; one that is the
\* models' came when they were, and costs at least the prompt. The status says
\* the same, unless the head of the stream was sent before.
ErrorsAreHonest ==
    LET code == ending[1]
        type == ErrorType(code)
    IN  ending # <<>> /\ code \notin {"final", "document"} =>
        /\ type \notin NotTheClients =>
              charge = 0 /\ gen = [p \in Providers |-> "none"]
        /\ code \in RetryableCodes => attempts # <<>> /\ charge >= Prompt
        /\ status = (IF streaming /\ attempts # <<>> THEN 200 ELSE HttpStatusOf(code))

\* A request is counted once at most, for what it was: answered only with the
\* whole answer, failed only with an error. One whose client stayed is counted,
\* except a stream that broke off with an exception that is no GatewayError. Its
\* time is recorded once, except that of a stream that was never started.
RequestCounted ==
    /\ metrics["total"] + metrics["failed"] <= 1 /\ metrics["observed"] <= 1
    /\ metrics["total"] = 1 => ending \in {<<"document">>, <<"final", "[DONE]">>}
    /\ metrics["failed"] = 1 => ending # <<>> /\ ending[1] \in DOMAIN ErrorTable
    /\ stage = "over" =>
          /\ \/ metrics["total"] + metrics["failed"] = 1
             \/ gone
             \/ streaming /\ error = "unnormalised"
          /\ metrics["observed"] = (IF gone /\ status = 0 THEN 0 ELSE 1)

\* Every request comes to an end - an answer, or a client that has gone - and
\* leaves no upstream request behind.
RequestEnds ==
    stage \in {"retrieving", "checking"} ~>
        stage = "over" /\ \A p \in Providers : gen[p] \notin Alive

\* A stream whose body was started, if only to wait for the first token, comes to
\* the correction of its charge, however it ends: answered, failed, cancelled
\* while a provider is awaited or abandoned while a frame is sent. Only the
\* limiter can then refuse it.
StreamSettled ==
    streaming /\ status = 200 ~> settled # "no"
=============================================================================
