------------------------ MODULE ChatCompletion_proofs ------------------------
(***************************************************************************)
(* Proofs about ModelRouter and ChatCompletion, for any requests, codes,   *)
(* weights, limits and number of events.                                   *)
(*                                                                         *)
(* RouterInv says what is true of the other provider while one is read,    *)
(* for any consumer.  The handler's steps are steps of the router, so that *)
(* it holds in a request too; ChatInv adds what ties the handler to the    *)
(* router: where either may be while the other is somewhere, which of the  *)
(* pieces the redactor has and which the client, what is owed at every     *)
(* place, and what the frames say of how it came to an end.                *)
(***************************************************************************)
EXTENDS ChatCompletion, SequenceTheorems, TLAPS

-----------------------------------------------------------------------------
(* The router, for any consumer.                                           *)

\* Before the consumer asks for the first event nothing has happened.
Untouched == state = "new" =>
    /\ provider = Primary /\ attempts = <<>> /\ failures = <<>>
    /\ gen[Primary] = "none" /\ made[Primary] = 0 /\ tokens = 0 /\ completion = 0

\* While the primary is read, the secondary has not been touched.
OnPrimary == provider = Primary =>
    /\ gen[Secondary] = "none" /\ made[Secondary] = 0 /\ billed[Secondary] = 0
    /\ state # "new" => Len(attempts) = 1 /\ attempts[1] = Primary

\* While the secondary is read, the primary is over and has produced nothing.
OnSecondary == provider = Secondary =>
    /\ state # "new"
    /\ gen[Primary] = "ended" /\ made[Primary] = 0 /\ billed[Primary] = 0
    /\ Len(attempts) = 2 /\ attempts[2] = Secondary
    /\ Len(failures) >= 1 /\ failures[1] \in RetryableCodes

\* The tokens passed on are those of the provider that is read.
Counted == tokens = billed[provider]

NothingYet == state = "opening" =>
    made[provider] = 0 /\ tokens = 0 /\ completion = 0

\* The count is kept from the `finally` clause on.
Kept == state \in Over \/ (state \in {"offering", "forgotten"} /\ offer.done)
            => completion = tokens

\* Every provider but the last has failed; the last one too if it raised before
\* its first event.
Listed == state # "new" =>
    \/ Len(failures) = Len(attempts) - 1
    \/ /\ state = "raised" /\ made[provider] = 0
       /\ Len(failures) = Len(attempts) /\ error = failures[Len(failures)]

RouterInv ==
    /\ RouterTypeOK
    /\ Untouched /\ OnPrimary /\ OnSecondary
    /\ Counted /\ NothingYet /\ Kept /\ Listed

LEMMA InitOK == RouterInit => RouterInv
<1>. SUFFICES ASSUME RouterInit PROVE RouterInv
  OBVIOUS
<1>1. RouterTypeOK
  BY MRAssumption DEF RouterInit, RouterTypeOK, States, Providers, Done, Over, Failures
<1>2. Untouched /\ OnPrimary /\ OnSecondary /\ Counted /\ NothingYet /\ Kept /\ Listed
  BY MRAssumption DEF RouterInit, Untouched, OnPrimary, OnSecondary, Counted, NothingYet,
     Kept, Listed, Providers, Over
<1>. QED
  BY <1>1, <1>2 DEF RouterInv

LEMMA TypeStep == RouterTypeOK /\ [RouterNext]_routerVars => RouterTypeOK'
<1>. SUFFICES ASSUME RouterTypeOK, [RouterNext]_routerVars PROVE RouterTypeOK'
  OBVIOUS
<1>. USE DEF RouterTypeOK, States, Over, Alive, Providers
<1>1. CASE Start
  BY <1>1 DEF Start
<1>2. ASSUME NEW code, code \in Failures, OpenFails(code) PROVE RouterTypeOK'
  <2>1. CASE FailOver(code)
    BY <1>2, <2>1 DEF FailOver
  <2>2. CASE OpenRaises(code)
    BY <1>2, <2>2 DEF OpenRaises, Ends, Becomes
  <2>. QED
    BY <1>2, <2>1, <2>2 DEF OpenFails
<1>3. CASE OpenTimeout \/ OpenEmpty \/ OpenGatewayError \/ OpenOtherException
  BY <1>2, <1>3 DEF OpenTimeout, OpenEmpty, OpenGatewayError, OpenOtherException,
     Failures, RetryableCodes
<1>4. CASE OpenText \/ ReadText
  <2>1. PICK w \in Weights : /\ YieldsText(w)
                             /\ tokens' = tokens + w
                             /\ offer' = Text(provider, made'[provider], w)
    BY <1>4 DEF OpenText, ReadText
  <2>2. w \in Nat
    BY MRAssumption
  <2>3. made[provider] + 1 \in 0..MaxEvents
    BY <2>1, MRAssumption DEF YieldsText
  <2>4. made' \in [Providers -> 0..MaxEvents] /\ billed' \in [Providers -> Nat]
    BY <2>1, <2>2, <2>3 DEF YieldsText
  <2>5. offer' \in [done : BOOLEAN, from : Providers, n : 0..MaxEvents, tokens : Nat]
    <3>1. made'[provider] \in 0..MaxEvents
      BY <2>4
    <3>. QED
      BY <2>1, <2>2, <3>1 DEF Text
  <2>6. gen' \in [Providers -> {"none", "ended"} \cup {"running", "suspended"}] /\ tokens' \in Nat
    BY <2>1, <2>2 DEF YieldsText, Becomes
  <2>7. state' = "offering" /\ UNCHANGED <<provider, attempts, failures, completion, error>>
    BY <1>4 DEF OpenText, ReadText, outcome
  <2>. QED
    BY <2>4, <2>5, <2>6, <2>7
<1>5. CASE OpenDone
  BY <1>5 DEF OpenDone, Becomes, outcome
<1>6. CASE ReadDone
  <2>1. offer' \in [done : BOOLEAN, from : Providers, n : 0..MaxEvents, tokens : Nat]
    BY <1>6, MRAssumption DEF ReadDone, Done
  <2>. QED
    BY <1>6, <2>1 DEF ReadDone, YieldsDone, Ends, Becomes, KeepCount
<1>7. CASE ReadRaises
  BY <1>7 DEF ReadRaises, Ends, Becomes, KeepCount, Failures
<1>8. CASE Resume
  BY <1>8 DEF Resume, Becomes, outcome
<1>9. CASE Cancelled
  BY <1>9 DEF Cancelled, Ends, Becomes, KeepCount, outcome
<1>10. CASE Forgotten
  BY <1>10 DEF Forgotten, outcome
<1>11. CASE Release
  BY <1>11 DEF Release, CloseRouter, CloseProvider, Ends, Becomes, KeepCount, outcome
<1>12. CASE RouterStops \/ UNCHANGED routerVars
  BY <1>12 DEF RouterStops, routerVars, outcome
<1>. QED
  BY <1>1, <1>3, <1>4, <1>5, <1>6, <1>7, <1>8, <1>9, <1>10, <1>11, <1>12
     DEF RouterNext, Open, Read

LEMMA InvStep == RouterInv /\ [RouterNext]_routerVars => RouterInv'
<1>. SUFFICES ASSUME RouterInv, [RouterNext]_routerVars PROVE RouterInv'
  OBVIOUS
<1>0. RouterTypeOK /\ RouterTypeOK'
  BY TypeStep DEF RouterInv
<1>. DEFINE Rest == Untouched /\ OnPrimary /\ OnSecondary /\ Counted /\ NothingYet /\ Kept /\ Listed
<1>. SUFFICES Rest'
  BY <1>0 DEF RouterInv
<1>. USE MRAssumption DEF RouterInv, RouterTypeOK, Untouched, OnPrimary, OnSecondary, Counted,
     NothingYet, Kept, Listed, Providers, Over
<1>1. CASE Start
  BY <1>0, <1>1 DEF Start
<1>2. ASSUME NEW code, code \in Failures, OpenFails(code) PROVE Rest'
  <2>1. CASE FailOver(code)
    <3>1. /\ state = "opening" /\ state' = "opening"
          /\ provider = Primary /\ provider' = Secondary /\ code \in RetryableCodes
          /\ attempts' = Append(attempts, Secondary) /\ failures' = Append(failures, code)
          /\ gen' = [gen EXCEPT ![Primary] = "ended", ![Secondary] = "running"]
          /\ UNCHANGED <<offer, tokens, completion, error, made, billed>>
      BY <1>2, <2>1 DEF FailOver, OpenFails
    <3>2. Len(attempts) = 1
      BY <3>1
    <3>3. Len(attempts') = 2 /\ attempts'[2] = Secondary
      <4>1. attempts \in Seq(Providers) /\ Secondary \in Providers
        OBVIOUS
      <4>2. Len(Append(attempts, Secondary)) = 2 /\ Append(attempts, Secondary)[2] = Secondary
        BY ONLY <3>2, <4>1
      <4>. QED
        BY ONLY <3>1, <4>2
    <3>4. Len(failures) = 0
      <4>1. Len(failures) = Len(attempts) - 1
        BY <3>1 DEF Listed
      <4>. QED
        BY ONLY <3>2, <4>1
    <3>5. Len(failures') = 1 /\ failures'[1] = code
      BY <3>1, <3>4
    <3>6. Untouched' /\ OnPrimary' /\ Kept'
      BY <3>1
    <3>7. NothingYet' /\ Counted'
      <4>1. billed[Secondary] = 0 /\ made[Secondary] = 0 /\ tokens = 0 /\ completion = 0
        BY <3>1
      <4>. QED
        BY <3>1, <4>1
    <3>8. OnSecondary'
      <4>1. /\ gen'[Primary] = "ended" /\ made'[Primary] = 0 /\ billed'[Primary] = 0
            /\ state' # "new"
        BY <3>1
      <4>2. Len(failures') >= 1 /\ failures'[1] \in RetryableCodes
        BY ONLY <3>1, <3>5
      <4>. QED
        BY ONLY <3>3, <4>1, <4>2 DEF OnSecondary
    <3>9. Listed'
      BY <3>3, <3>5
    <3>. QED
      BY <3>6, <3>7, <3>8, <3>9
  <2>2. CASE OpenRaises(code)
    <3>1. /\ state = "opening" /\ state' = "raised" /\ error' = code
          /\ failures' = Append(failures, code)
          /\ gen' = [gen EXCEPT ![provider] = "ended"]
          /\ UNCHANGED <<made, billed, provider, offer, tokens, attempts, completion>>
      BY <1>2, <2>2 DEF OpenRaises, OpenFails, Ends, Becomes
    <3>2. /\ Len(failures) \in Nat /\ Len(attempts) \in Nat
          /\ Len(failures') = Len(failures) + 1 /\ failures'[Len(failures')] = code
          /\ Len(failures) >= 1 => failures'[1] = failures[1]
      BY <3>1
    <3>3. Listed'
      BY <3>1, <3>2
    <3>4. Untouched' /\ NothingYet' /\ Kept' /\ Counted'
      BY <3>1
    <3>5. OnPrimary' /\ OnSecondary'
      BY <3>1, <3>2
    <3>. QED
      BY <3>3, <3>4, <3>5
  <2>. QED
    BY <1>2, <2>1, <2>2 DEF OpenFails
<1>3. CASE OpenTimeout \/ OpenEmpty \/ OpenGatewayError \/ OpenOtherException
  BY <1>2, <1>3 DEF OpenTimeout, OpenEmpty, OpenGatewayError, OpenOtherException,
     Failures, RetryableCodes
<1>4. CASE OpenText \/ ReadText
  <2>1. PICK w \in Weights : /\ YieldsText(w)
                             /\ tokens' = tokens + w
                             /\ offer' = Text(provider, made'[provider], w)
    BY <1>4 DEF OpenText, ReadText
  <2>2. w \in Nat
    OBVIOUS
  <2>3. /\ state \in {"opening", "reading"} /\ state' = "offering"
        /\ UNCHANGED <<provider, attempts, failures, completion, error>>
        /\ ~ offer'.done
    BY <1>4, <2>1 DEF OpenText, ReadText, outcome, Text
  <2>4. Untouched' /\ NothingYet' /\ Kept' /\ Listed'
    BY <2>3
  <2>5. /\ gen' = [gen EXCEPT ![provider] = "suspended"]
        /\ made' = [made EXCEPT ![provider] = @ + 1]
        /\ billed' = [billed EXCEPT ![provider] = @ + w]
    BY <2>1 DEF YieldsText, Becomes
  <2>6. OnPrimary' /\ OnSecondary'
    BY <2>3, <2>5
  <2>7. Counted'
    BY <2>1, <2>2, <2>3, <2>5
  <2>. QED
    BY <2>4, <2>6, <2>7
<1>5. CASE OpenDone
  BY <1>0, <1>5 DEF OpenDone, Becomes, outcome
<1>6. CASE ReadDone
  BY <1>0, <1>6 DEF ReadDone, YieldsDone, Ends, Becomes, KeepCount
<1>7. CASE ReadRaises
  BY <1>0, <1>7 DEF ReadRaises, Ends, Becomes, KeepCount
<1>8. CASE Resume
  BY <1>0, <1>8 DEF Resume, Becomes, outcome
<1>9. CASE Cancelled
  BY <1>0, <1>9 DEF Cancelled, Ends, Becomes, KeepCount, outcome
<1>10. CASE Forgotten
  BY <1>0, <1>10 DEF Forgotten, outcome
<1>11. CASE Release
  BY <1>0, <1>11 DEF Release, CloseRouter, CloseProvider, Ends, Becomes, KeepCount, outcome
<1>12. CASE RouterStops \/ UNCHANGED routerVars
  BY <1>12 DEF RouterStops, routerVars, outcome
<1>. QED
  BY <1>1, <1>3, <1>4, <1>5, <1>6, <1>7, <1>8, <1>9, <1>10, <1>11, <1>12
     DEF RouterNext, Open, Read

-----------------------------------------------------------------------------
\* RouterInv holds in every reachable state, whatever the consumer does.
THEOREM Inductive == RouterSpec => []RouterInv
<1>. QED
  BY InitOK, InvStep, PTL DEF RouterSpec

\* Every variable keeps its type.
THEOREM TypeCorrect == RouterSpec => []RouterTypeOK
<1>1. RouterInv => RouterTypeOK
  BY DEF RouterInv
<1>. QED
  BY <1>1, Inductive, PTL

\* _open never leaves the primary's stream open behind it: at most one upstream
\* request is open at any time.
THEOREM OneUpstreamAtATime == RouterSpec => []AtMostOneUpstream
<1>1. RouterInv => AtMostOneUpstream
  BY MRAssumption DEF RouterInv, RouterTypeOK, OnPrimary, OnSecondary, AtMostOneUpstream,
     Providers, Alive
<1>. QED
  BY <1>1, Inductive, PTL

\* The secondary is asked only after a retryable failure of a primary that had
\* produced nothing.
THEOREM FailoverAlwaysJustified == RouterSpec => []FailoverJustified
<1>1. RouterInv => FailoverJustified
  BY MRAssumption DEF RouterInv, RouterTypeOK, OnPrimary, OnSecondary, FailoverJustified,
     Providers
<1>. QED
  BY <1>1, Inductive, PTL

\* However a stream ends, its RouteOutcome counts every token that was produced
\* for it.
THEOREM CountAlwaysKept == RouterSpec => []CountKept
<1>1. RouterInv => CountKept
  <2>. SUFFICES ASSUME RouterInv, state \in Over
                PROVE  completion = billed[Primary] + billed[Secondary]
    BY DEF CountKept
  <2>. QED
    BY MRAssumption DEF RouterInv, RouterTypeOK, OnPrimary, OnSecondary, Counted, Kept, Providers
<1>. QED
  BY <1>1, Inductive, PTL

\* A RouteOutcome says who was tried and who failed.
THEOREM OutcomeAlwaysTruthful == RouterSpec => []OutcomeTruthful
<1>1. RouterInv => OutcomeTruthful
  <2>. SUFFICES ASSUME RouterInv, state \in Over
                PROVE  /\ attempts[Len(attempts)] = provider
                       /\ Len(failures) \in {Len(attempts) - 1, Len(attempts)}
                       /\ Len(failures) = Len(attempts) =>
                             /\ state = "raised" /\ error = failures[Len(failures)]
                             /\ \A p \in Providers : made[p] = 0
    BY DEF OutcomeTruthful
  <2>. USE MRAssumption DEF RouterInv, RouterTypeOK, OnPrimary, OnSecondary, Listed, Providers, Over
  <2>1. /\ attempts[Len(attempts)] = provider
        /\ Len(attempts) \in {1, 2} /\ Len(failures) \in Nat
        /\ provider = Primary \/ made[Primary] = 0
        /\ provider = Secondary \/ made[Secondary] = 0
    <3>0. Len(failures) \in Nat /\ state # "new"
      OBVIOUS
    <3>1. CASE provider = Primary
      <4>1. Len(attempts) = 1 /\ attempts[1] = Primary /\ made[Secondary] = 0
        BY <3>0, <3>1
      <4>. QED
        BY ONLY <3>0, <3>1, <4>1
    <3>2. CASE provider = Secondary
      <4>1. Len(attempts) = 2 /\ attempts[2] = Secondary /\ made[Primary] = 0
        BY <3>2
      <4>. QED
        BY ONLY <3>0, <3>2, <4>1
    <3>. QED
      BY <3>1, <3>2
  <2>2. \/ Len(failures) = Len(attempts) - 1
        \/ /\ state = "raised" /\ made[provider] = 0
           /\ Len(failures) = Len(attempts) /\ error = failures[Len(failures)]
    OBVIOUS
  <2>. QED
    BY <2>1, <2>2
<1>. QED
  BY <1>1, Inductive, PTL

-----------------------------------------------------------------------------
(* The handler.                                                            *)

Early == {"received", "retrieving", "checking", "starting"}

\* Nothing has been told, and nobody has left but a client whose stream was never
\* started.
Silent == ending = <<>> /\ metrics["total"] = 0 /\ metrics["failed"] = 0

Endings == {"final", "document"}
Answered == ending # <<>> /\ ending[1] \in Endings
Errored == ending # <<>> /\ ending[1] \notin Endings

\* Who is where.
Places ==
    /\ stage \in Early => state = "new" /\ Silent /\ ~gone /\ status = 0
    /\ stage = "starting" => streaming
    /\ stage = "pulling" =>
          /\ state \in {"opening", "reading", "offering", "raised"}
          /\ Silent /\ ~gone /\ status = (IF streaming THEN 200 ELSE 0)
    /\ stage = "sending" =>
          /\ streaming /\ ~gone /\ status = 200
          /\ ending = <<>> =>
                Silent /\ (state \in {"new", "returned"} \/ (state = "offering" /\ ~offer.done))
          /\ ending # <<>> => state \in {"returned", "raised"}
    /\ stage = "abandoned" => streaming /\ gone
    /\ stage \in {"abandoned", "settling"} /\ streaming => status = 200
    /\ stage = "settling" /\ ~streaming => Silent /\ state = "returned" /\ ~gone /\ status = 0
    /\ stage = "settling" /\ streaming /\ ~gone => ending # <<>> /\ Len(ending) = 2
    /\ gone => streaming
    /\ ending # <<>> /\ ending[1] = "document" => stage = "over" /\ ~streaming

\* The router works for the handler, and a provider for the router.
Serves ==
    /\ state \in {"opening", "reading"} => stage = "pulling"
    /\ state = "offering" => stage \in {"pulling", "sending"}
    /\ \A p \in Providers : gen[p] = "running" => state \in {"opening", "reading"}
    /\ error = "unnormalised" => state = "raised"

\* The event on offer is the last one made; guard_stream takes it when it is asked.
Waiting == stage = "pulling" /\ state = "offering" /\ ~offer.done

Offered == stage = "pulling" /\ state = "offering" =>
    /\ ~offer.done => offer.from = provider /\ offer.n = made[provider] /\ offer.n >= 1
    /\ offer.done => offer.tokens = tokens

\* Every piece made but the one on offer is with the client or held back, in order.
InOrder ==
    /\ Len(text) + Len(carry) = (IF Waiting THEN made[provider] - 1 ELSE made[provider])
    /\ \A i \in 1..Len(text) : text[i] = <<provider, i>>
    /\ \A i \in 1..Len(carry) : carry[i] = <<provider, Len(text) + i>>

\* guard_stream's count: no event that it got is missing, and the last one repeats
\* the sum of the others.
Tallied ==
    /\ state \in {"new", "opening", "reading"} => counted = tokens
    /\ Waiting => counted + offer.tokens = tokens
    /\ state = "offering" /\ ~Waiting => counted = tokens
    /\ state = "returned" => counted = 2 * tokens /\ carry = <<>>

\* The end is told when all is there.
Finished == Answered \/ (stage = "settling" /\ ~streaming) =>
    state = "returned" /\ generated = counted

\* What the request has cost.
Owed ==
    /\ stage \in Early \ {"starting"} => charge = 0
    /\ stage \in {"starting", "pulling", "sending", "settling", "abandoned"} => charge = Estimated
    /\ settled # "no" => stage = "over"
    /\ settled = "yes" => charge = Prompt + generated
    /\ settled = "lost" => charge \in {Estimated, Prompt + generated}
    /\ charge \in {0, Estimated} \/ settled # "no"

\* Who is told of an error, and when.
Blamed == Errored =>
    \/ /\ state = "new" /\ stage = "over" /\ status = HttpStatusOf(ending[1])
       /\ ending[1] \in DOMAIN ErrorTable \ RetryableCodes
       /\ charge = 0 \/ ending[1] = "INTERNAL_ERROR"
    \/ /\ state = "raised" /\ ending[1] = coerce(error) /\ charge >= Prompt
       /\ status = (IF streaming THEN 200 ELSE HttpStatusOf(ending[1]))
    \/ /\ state = "returned" /\ ~streaming /\ ending[1] = "INTERNAL_ERROR"
       /\ status = HttpStatusOf(ending[1])

\* What is counted.
Metered ==
    /\ metrics["observed"] = (IF stage = "over" /\ ~(gone /\ status = 0) THEN 1 ELSE 0)
    /\ metrics["total"] =
          (IF \/ ending = <<"document">>
              \/ ending = <<"final", "[DONE]">> /\ stage \in {"settling", "over"} /\ ~gone
           THEN 1 ELSE 0)
    /\ metrics["failed"] = (IF Errored /\ ~(streaming /\ error = "unnormalised") THEN 1 ELSE 0)
    /\ stage = "over" /\ ~gone =>
          /\ ending # <<>>
          /\ ending[1] = "final" => Len(ending) = 2

ChatInv ==
    /\ TypeOK /\ RouterInv
    /\ Places /\ Serves /\ Offered /\ InOrder /\ Tallied /\ Finished /\ Owed /\ Blamed /\ Metered

-----------------------------------------------------------------------------
(* Errors and the router.                                                  *)

LEMMA ErrorCodes ==
    /\ DOMAIN ErrorTable =
          {"INVALID_REQUEST", "PARSE_ERROR", "INVALID_PARAMS", "METHOD_NOT_FOUND",
           "PAYLOAD_TOO_LARGE", "UNAUTHENTICATED", "UNAUTHORIZED_TOOL_CALL", "FORBIDDEN",
           "RATE_LIMIT_EXCEEDED", "TIMEOUT", "UNAVAILABLE", "RATE_LIMITED", "PROTOCOL_ERROR",
           "RESOURCE_NOT_FOUND", "RETRIEVAL_FAILED", "INTERNAL_ERROR"}
    /\ ErrorType("INTERNAL_ERROR") \in NotTheClients
    /\ \A code \in RetryableCodes : ErrorType(code) \in NotTheClients
<1>1. DOMAIN ErrorTable =
          {"INVALID_REQUEST", "PARSE_ERROR", "INVALID_PARAMS", "METHOD_NOT_FOUND",
           "PAYLOAD_TOO_LARGE", "UNAUTHENTICATED", "UNAUTHORIZED_TOOL_CALL", "FORBIDDEN",
           "RATE_LIMIT_EXCEEDED", "TIMEOUT", "UNAVAILABLE", "RATE_LIMITED", "PROTOCOL_ERROR",
           "RESOURCE_NOT_FOUND", "RETRIEVAL_FAILED", "INTERNAL_ERROR"}
  BY DEF ErrorTable
<1>2. /\ ErrorTable["INTERNAL_ERROR"].type = "internal_error"
      /\ ErrorTable["TIMEOUT"].type = "upstream_timeout"
      /\ ErrorTable["UNAVAILABLE"].type = "upstream_unavailable"
      /\ ErrorTable["RATE_LIMITED"].type = "upstream_rate_limited"
      /\ ErrorTable["PROTOCOL_ERROR"].type = "upstream_unavailable"
  BY DEF ErrorTable, _err
<1>3. \A code \in RetryableCodes \cup {"INTERNAL_ERROR"} : coerce(code) = code
  BY <1>1 DEF coerce, RetryableCodes
<1>. QED
  BY <1>1, <1>2, <1>3 DEF ErrorType, RetryableCodes, NotTheClients

LEMMA Coerced ==
    ASSUME NEW exc
    PROVE  /\ coerce(exc) \in DOMAIN ErrorTable /\ coerce(coerce(exc)) = coerce(exc)
           /\ HttpStatusOf(coerce(exc)) = HttpStatusOf(exc)
           /\ ErrorType(coerce(exc)) = ErrorType(exc)
           /\ coerce(exc) \notin Endings
BY ErrorCodes DEF coerce, HttpStatusOf, ErrorType, Endings

\* What the handler raises by itself.
LEMMA OwnCodes ==
    /\ \A exc \in {"PAYLOAD_TOO_LARGE", "UNAUTHENTICATED", "PARSE_ERROR", "INVALID_PARAMS",
                   "RETRIEVAL_FAILED", "RATE_LIMIT_EXCEEDED"} :
          coerce(exc) = exc /\ exc \notin RetryableCodes
    /\ coerce("ClientDisconnect") = "INTERNAL_ERROR" /\ coerce("OperationalError") = "INTERNAL_ERROR"
    /\ "INTERNAL_ERROR" \notin RetryableCodes
BY ErrorCodes DEF coerce, RetryableCodes

\* The handler uses the router as a consumer does.
LEMMA RouterSteps == [Next]_vars => [RouterNext]_routerVars
<1>. SUFFICES ASSUME [Next]_vars PROVE [RouterNext]_routerVars
  OBVIOUS
<1>1. CASE ReadFails \/ Unauthenticated \/ Invalid \/ Accept \/ CloseBody \/ Stops \/ UNCHANGED vars
  BY <1>1 DEF ReadFails, Unauthenticated, Invalid, Accept, CloseBody, Stops, vars
<1>2. CASE Augmented \/ AugmentFails \/ RateLimited \/ LimiterRaises \/ RouterFailed \/ Finish \/ SendEnd
           \/ Settle \/ SettleFails
  BY <1>2 DEF Augmented, AugmentFails, RateLimited, LimiterRaises, RouterFailed, Finish, SendEnd,
     Settle, SettleFails
<1>3. CASE Admitted \/ StartBody \/ GuardText \/ GuardDone \/ SendText
  BY <1>3 DEF Admitted, Answering, StartBody, GuardText, GuardDone, SendText, RouterNext
<1>4. CASE RouterWorks \/ Disconnect \/ CloseRest
  BY <1>4 DEF RouterWorks, Disconnect, DisconnectStarting, DisconnectPulling, DisconnectSending,
     CloseRest, RouterNext
<1>. QED
  BY <1>1, <1>2, <1>3, <1>4 DEF Next, HandlerStep

\* A consumer of the router, whatever else it does.
LEMMA RouterIsUsed == Spec => RouterSpec
<1>1. Init => RouterInit
  BY DEF Init
<1>. QED
  BY <1>1, RouterSteps, PTL DEF Spec, RouterSpec

\* Whatever the handler does and its client.
THEOREM RouterInvariant == Spec => []RouterInv
BY RouterIsUsed, Inductive, PTL

-----------------------------------------------------------------------------
(* Types.                                                                  *)

Frames == {<<>>, <<"document">>}
    \cup UNION {{<<e>>, <<e, "[DONE]">>} : e \in {"final"} \cup DOMAIN ErrorTable}

Statuses == {0, 200} \cup {HttpStatusOf(e) : e \in DOMAIN ErrorTable}

Parts == Seq(Providers \X (1..MaxEvents))

LEMMA FrameTypes ==
    /\ <<>> \in Frames /\ <<"document">> \in Frames
    /\ \A e \in {"final"} \cup DOMAIN ErrorTable : <<e>> \in Frames /\ <<e, "[DONE]">> \in Frames
    /\ \A f \in Frames : f = <<>> \/ f = <<"document">> \/
          \E e \in {"final"} \cup DOMAIN ErrorTable : f = <<e>> \/ f = <<e, "[DONE]">>
<1>. DEFINE E == {"final"} \cup DOMAIN ErrorTable
            Ended == UNION {{<<e>>, <<e, "[DONE]">>} : e \in E}
<1>. HIDE DEF E
<1>1. \A f : f \in Ended <=> \E e \in E : f = <<e>> \/ f = <<e, "[DONE]">>
  OBVIOUS
<1>2. \A f : f \in Frames <=> f \in {<<>>, <<"document">>} \/ f \in Ended
  BY Zenon DEF Frames, E
<1>. HIDE DEF Ended
<1>3. \A e \in E : <<e>> \in Ended /\ <<e, "[DONE]">> \in Ended
  BY <1>1, Zenon
<1>. QED
  BY <1>1, <1>2, <1>3 DEF E

LEMMA FailTypes ==
    ASSUME NEW exc, Fail(exc), TypeOK
    PROVE  /\ stage' = "over" /\ gone' = gone
           /\ ending' = <<coerce(exc)>> /\ ending' \in Frames
           /\ status' = HttpStatusOf(exc) /\ status' \in Statuses
           /\ metrics' \in [Series -> Nat]
           /\ metrics'["total"] = metrics["total"]
           /\ metrics'["failed"] = metrics["failed"] + 1
           /\ metrics'["observed"] = metrics["observed"] + 1
<1>1. ending' = <<coerce(exc)>> /\ ending' \in Frames
  BY Coerced, FrameTypes DEF Fail
<1>2. status' = HttpStatusOf(exc) /\ status' \in Statuses
  BY Coerced DEF Fail, Statuses
<1>3. /\ metrics' \in [Series -> Nat]
      /\ metrics'["total"] = metrics["total"]
      /\ metrics'["failed"] = metrics["failed"] + 1
      /\ metrics'["observed"] = metrics["observed"] + 1
  BY DEF Fail, Count, TypeOK, Series
<1>. QED
  BY <1>1, <1>2, <1>3 DEF Fail

LEMMA CountTypes ==
    ASSUME NEW some, Count(some), TypeOK
    PROVE  /\ metrics' \in [Series -> Nat]
           /\ \A s \in Series : metrics'[s] = (IF s \in some THEN metrics[s] + 1 ELSE metrics[s])
BY DEF Count, TypeOK

LEMMA HeldTypes ==
    ASSUME NEW S, NEW q \in Seq(S), NEW k \in 0..Len(q)
    PROVE  /\ SubSeq(q, 1, k) \in Seq(S) /\ Len(SubSeq(q, 1, k)) = k
           /\ SubSeq(q, k + 1, Len(q)) \in Seq(S) /\ Len(SubSeq(q, k + 1, Len(q))) = Len(q) - k
           /\ \A i \in 1..k : SubSeq(q, 1, k)[i] = q[i]
           /\ \A i \in 1..(Len(q) - k) : SubSeq(q, k + 1, Len(q))[i] = q[k + i]
<1>1. Len(q) \in Nat /\ 1..k \subseteq 1..Len(q) /\ k \in Nat
  OBVIOUS
<1>2. /\ SubSeq(q, 1, k) \in Seq(S) /\ Len(SubSeq(q, 1, k)) = k
      /\ \A i \in 1..k : SubSeq(q, 1, k)[i] = q[i]
  BY <1>1, SubSeqProperties
<1>3. /\ SubSeq(q, k + 1, Len(q)) \in Seq(S) /\ Len(SubSeq(q, k + 1, Len(q))) = Len(q) - k
      /\ \A i \in 1..(Len(q) - k) : SubSeq(q, k + 1, Len(q))[i] = q[k + i]
  BY <1>1, SubSeqProperties
<1>. QED
  BY <1>2, <1>3

-----------------------------------------------------------------------------
(* The steps.                                                              *)

Control == Places /\ Serves /\ Finished /\ Owed /\ Blamed /\ Metered
Passage == Offered /\ InOrder /\ Tallied

\* The types that the router does not give.
HandlerTypes ==
    /\ request \in Requests /\ sources \in BOOLEAN /\ gone \in BOOLEAN
    /\ stage \in Early \cup {"pulling", "sending", "settling", "abandoned", "over"}
    /\ carry \in Parts /\ text \in Parts
    /\ counted \in Nat /\ generated \in Nat /\ charge \in Nat
    /\ ending \in Frames /\ status \in Statuses
    /\ settled \in {"no", "yes", "lost"}
    /\ metrics \in [Series -> Nat]

LEMMA Types == TypeOK <=> RouterTypeOK /\ HandlerTypes
BY DEF TypeOK, HandlerTypes, Frames, Statuses, Parts, Early

LEMMA Requested ==
    /\ request \in Requests => streaming \in BOOLEAN
    /\ Estimated \in Nat /\ Prompt \in Nat /\ Prompt <= Estimated
BY CCAssumption DEF AllRequests, streaming, Estimated

\* The pieces stay where they are.
LEMMA TextStays ==
    ASSUME ChatInv, UNCHANGED <<pieces, routerVars>>, stage # "pulling", stage' # "pulling",
           stage' = "sending" => stage = "sending"
    PROVE  Passage'
BY DEF ChatInv, Passage, Offered, InOrder, Tallied, Waiting, pieces, routerVars, outcome

\* An error before the router is asked.
LEMMA FailsEarly ==
    ASSUME ChatInv, stage \in Early, NEW exc, Fail(exc),
           exc \in {"PAYLOAD_TOO_LARGE", "UNAUTHENTICATED", "PARSE_ERROR", "INVALID_PARAMS",
                   "RETRIEVAL_FAILED", "RATE_LIMIT_EXCEEDED", "ClientDisconnect", "OperationalError"},
           charge' = 0 \/ (exc = "OperationalError" /\ charge' = Estimated),
           UNCHANGED <<asked, pieces, generated, settled, routerVars>>
    PROVE  HandlerTypes' /\ Control' /\ Passage'
<1>. DEFINE code == coerce(exc)
<1>1. /\ HandlerTypes /\ TypeOK /\ Places /\ Owed /\ Metered /\ Serves
      /\ state = "new" /\ Silent /\ ~gone /\ status = 0 /\ settled = "no"
  BY Types DEF ChatInv, Places, Owed, Early
<1>2. /\ code \in DOMAIN ErrorTable \ RetryableCodes /\ code \notin Endings
      /\ exc = "OperationalError" => code = "INTERNAL_ERROR"
      /\ HttpStatusOf(code) = HttpStatusOf(exc)
  BY Coerced, OwnCodes
<1>. HIDE DEF code
<1>3. /\ stage' = "over" /\ gone' = gone /\ ending' = <<code>> /\ ending' \in Frames
      /\ ending'[1] = code /\ ending' # <<>>
      /\ status' = HttpStatusOf(code) /\ status' \in Statuses
      /\ metrics' \in [Series -> Nat]
      /\ metrics'["total"] = metrics["total"]
      /\ metrics'["failed"] = metrics["failed"] + 1
      /\ metrics'["observed"] = metrics["observed"] + 1
  BY <1>1, <1>2, FailTypes DEF code
<1>4. HandlerTypes'
  BY <1>1, <1>3, Requested DEF HandlerTypes, asked, pieces
<1>5. Passage'
  BY <1>3, TextStays DEF Early
<1>6. Places' /\ Serves'
  BY <1>1, <1>2, <1>3 DEF Places, Serves, Early, Silent, Endings, routerVars, asked, streaming
<1>7. Finished' /\ Owed' /\ Blamed'
  BY <1>1, <1>2, <1>3 DEF Finished, Answered, Owed, Blamed, Errored, Endings, Early, routerVars,
     asked, streaming
<1>8. Metered'
  BY <1>1, <1>2, <1>3 DEF Metered, Errored, Endings, Early, Silent, Serves, routerVars, outcome, asked, streaming
<1>. QED
  BY <1>4, <1>5, <1>6, <1>7, <1>8 DEF Control

\* All that a step has to keep.
Preserved == HandlerTypes' /\ Control' /\ Passage'

LEMMA RefusalStep ==
    ASSUME ChatInv,
           ReadFails \/ Unauthenticated \/ Invalid \/ AugmentFails \/ RateLimited \/ LimiterRaises
    PROVE  Preserved
<1>. USE FailsEarly DEF Preserved, Early
<1>0. stage \in Early => charge = 0 \/ stage = "starting"
  BY DEF ChatInv, Owed
<1>1. CASE ReadFails
  BY <1>0, <1>1 DEF ReadFails, money
<1>2. CASE Unauthenticated
  BY <1>0, <1>2 DEF Unauthenticated, money
<1>3. CASE Invalid
  BY <1>0, <1>3 DEF Invalid, Authenticated, money
<1>4. CASE AugmentFails \/ RateLimited
  BY <1>0, <1>4 DEF AugmentFails, RateLimited, money
<1>5. CASE LimiterRaises
  BY <1>0, <1>5 DEF LimiterRaises
<1>. QED
  BY <1>1, <1>2, <1>3, <1>4, <1>5

\* On the way to the router nothing is told.
LEMMA EarlyStep ==
    ASSUME ChatInv, Accept \/ Augmented
    PROVE  Preserved
<1>1. /\ stage \in {"received", "retrieving"} /\ stage' \in {"retrieving", "checking"}
      /\ request' = request /\ sources' \in BOOLEAN
      /\ UNCHANGED <<pieces, told, money, metrics, routerVars>>
  BY Types DEF Accept, Authenticated, Augmented, asked, ChatInv, HandlerTypes
<1>2. HandlerTypes'
  BY <1>1, Types DEF ChatInv, HandlerTypes, Early, pieces, told, money
<1>3. Passage'
  BY <1>1, TextStays
<1>4. Control'
  BY <1>1 DEF ChatInv, Control, Places, Serves, Finished, Owed, Blamed, Metered, Early, Silent,
     Answered, Errored, told, money, routerVars, outcome, streaming
<1>. QED
  BY <1>2, <1>3, <1>4 DEF Preserved

\* The router is asked for the first time.
LEMMA StartEffect ==
    ASSUME ChatInv, Start, stage' = "pulling", UNCHANGED <<pieces, gone, ending>>
    PROVE  /\ state = "new" /\ state' = "opening" /\ error' = error /\ error # "unnormalised"
           /\ Passage'
           /\ gen' = [gen EXCEPT ![Primary] = "running"] /\ provider' = provider
<1>1. /\ state = "new" /\ state' = "opening" /\ UNCHANGED <<provider, offer, tokens, made, error>>
      /\ gen' = [gen EXCEPT ![Primary] = "running"]
  BY DEF Start
<1>2. error # "unnormalised"
  BY <1>1 DEF ChatInv, Serves
<1>3. Passage'
  BY <1>1 DEF ChatInv, Passage, Offered, InOrder, Tallied, Waiting, pieces
<1>. QED
  BY <1>1, <1>2, <1>3

LEMMA StartStep ==
    ASSUME ChatInv, Admitted \/ StartBody \/ (SendText /\ Start)
    PROVE  Preserved
<1>1. /\ stage \in {"checking", "starting", "sending"} /\ state = "new"
      /\ settled = "no" /\ Silent /\ ~gone /\ error # "unnormalised"
      /\ stage = "checking" => status = 0 /\ charge = 0
      /\ stage # "checking" => streaming /\ charge = Estimated
      /\ HandlerTypes
  <2>1. stage \in {"checking", "starting", "sending"} /\ state = "new"
    BY DEF Admitted, StartBody, SendText, Start, ChatInv, Places, Early
  <2>2. (stage = "sending" => ending = <<>>) /\ HandlerTypes
    BY Types DEF Admitted, StartBody, SendText, ChatInv
  <2>. QED
    BY <2>1, <2>2 DEF ChatInv, Places, Owed, Serves, Early
<1>2. /\ UNCHANGED <<request, sources, carry, counted, text, ending, gone, generated, settled, metrics>>
      /\ charge' = Estimated
      /\ status' = (IF stage = "checking" THEN 0 ELSE 200)
      /\ \/ /\ stage' = "starting" /\ streaming /\ stage = "checking" /\ UNCHANGED routerVars
         \/ /\ stage' = "sending" /\ stage = "starting" /\ UNCHANGED routerVars
         \/ /\ stage' = "pulling" /\ Start
            /\ stage = "checking" => ~streaming
  <2>1. CASE Admitted
    BY <1>1, <2>1 DEF Admitted, Answering, asked, pieces, told
  <2>2. CASE StartBody
    BY <1>1, <2>2 DEF StartBody, asked, pieces, money
  <2>3. CASE SendText /\ Start
    BY <1>1, <2>3 DEF SendText, asked, pieces, told, money, ChatInv, Places
  <2>. QED
    BY <2>1, <2>2, <2>3
<1>3. HandlerTypes'
  BY <1>1, <1>2, Requested DEF HandlerTypes, Early, Statuses
<1>4. CASE stage' = "pulling" /\ Start
  <2>1. /\ state' = "opening" /\ error' = error /\ Passage'
        /\ \A p \in Providers : gen'[p] = "running" => state' \in {"opening", "reading"}
    BY <1>2, <1>4, StartEffect DEF pieces
  <2>2. Places' /\ Serves'
    BY <1>1, <1>2, <1>4, <2>1 DEF Places, Serves, Early, Silent, streaming
  <2>3. Finished' /\ Owed' /\ Blamed' /\ Metered'
    BY <1>1, <1>2, <1>4, <2>1 DEF ChatInv, Finished, Answered, Owed, Blamed, Errored, Metered, Early,
       Silent, streaming
  <2>. QED
    BY <1>3, <2>1, <2>2, <2>3 DEF Preserved, Control
<1>5. CASE stage' # "pulling"
  <2>1. UNCHANGED routerVars /\ state' = "new" /\ error' = error
    BY <1>1, <1>2, <1>5 DEF routerVars
  <2>2. Places' /\ Serves'
    BY <1>1, <1>2, <1>5, <2>1 DEF ChatInv, Places, Serves, Early, Silent, streaming, routerVars
  <2>3. Finished' /\ Owed' /\ Blamed' /\ Metered'
    BY <1>1, <1>2, <1>5, <2>1 DEF ChatInv, Finished, Answered, Owed, Blamed, Errored, Metered, Early,
       Silent, streaming
  <2>4. Passage'
    BY <1>1, <1>2, <1>5, <2>1 DEF ChatInv, Passage, Offered, InOrder, Tallied, Waiting, routerVars, outcome
  <2>. QED
    BY <1>3, <2>2, <2>3, <2>4 DEF Preserved, Control
<1>. QED
  BY <1>2, <1>4, <1>5

\* A client that leaves before its stream was started.
LEMMA LeavesEarly ==
    ASSUME ChatInv, DisconnectStarting
    PROVE  Preserved
<1>1. /\ stage = "starting" /\ stage' = "over" /\ gone' = TRUE
      /\ UNCHANGED <<asked, pieces, ending, status, money, metrics, routerVars>>
  BY DEF DisconnectStarting, Leaves
<1>2. HandlerTypes'
  BY <1>1, Types DEF ChatInv, HandlerTypes, asked, pieces, money
<1>3. Passage'
  BY <1>1, TextStays
<1>4. Places' /\ Serves'
  BY <1>1 DEF ChatInv, Places, Serves, Early, Silent, asked, routerVars, streaming
<1>5. Finished' /\ Owed' /\ Blamed'
  BY <1>1 DEF ChatInv, Finished, Owed, Blamed, Places, Early, Silent, Answered, Errored, asked, money,
     routerVars, streaming
<1>6. Metered'
  BY <1>1 DEF ChatInv, Metered, Places, Early, Silent, Errored, asked, money, routerVars, outcome,
     streaming
<1>. QED
  BY <1>2, <1>3, <1>4, <1>5, <1>6 DEF Preserved, Control

\* The `finally` clause is come to after all.
LEMMA CloseBodyStep ==
    ASSUME ChatInv, CloseBody
    PROVE  Preserved
<1>1. /\ stage = "abandoned" /\ stage' = "settling"
      /\ UNCHANGED <<asked, pieces, told, money, metrics, routerVars>>
  BY DEF CloseBody
<1>2. HandlerTypes'
  BY <1>1, Types DEF ChatInv, HandlerTypes, asked, pieces, told, money
<1>3. Passage'
  BY <1>1, TextStays
<1>4. Places' /\ Serves'
  BY <1>1 DEF ChatInv, Places, Serves, Early, Silent, asked, told, routerVars, streaming
<1>5. Finished' /\ Owed' /\ Blamed'
  BY <1>1 DEF ChatInv, Finished, Owed, Blamed, Places, Early, Answered, Errored, asked, told, money,
     pieces, routerVars, streaming
<1>6. Metered'
  BY <1>1 DEF ChatInv, Metered, Places, Errored, asked, told, routerVars, outcome, streaming
<1>. QED
  BY <1>2, <1>3, <1>4, <1>5, <1>6 DEF Preserved, Control

\* The charge becomes what was used.
LEMMA SettleStep ==
    ASSUME ChatInv, Settle
    PROVE  Preserved
<1>1. /\ stage = "settling" /\ stage' = "over" /\ settled' = "yes" /\ settled = "no"
      /\ charge' = charge + Difference /\ charge = Estimated
      /\ UNCHANGED <<asked, pieces, gone, generated, routerVars>>
      /\ HandlerTypes
  BY Types DEF Settle, ChatInv, Owed
<1>2. charge' = Prompt + generated /\ charge' \in Nat
  <2>1. generated \in Nat
    BY <1>1 DEF HandlerTypes
  <2>. QED
    BY <1>1, <2>1, Requested DEF Difference
<1>3. /\ metrics' \in [Series -> Nat]
      /\ metrics'["observed"] = metrics["observed"] + 1 /\ metrics'["failed"] = metrics["failed"]
      /\ streaming => metrics'["total"] = metrics["total"] /\ UNCHANGED <<ending, status>>
      /\ ~streaming => /\ metrics'["total"] = metrics["total"] + 1
                       /\ ending' = <<"document">> /\ status' = 200
  BY <1>1 DEF Settle, Count, HandlerTypes, Series
<1>4. HandlerTypes'
  BY <1>1, <1>2, <1>3, FrameTypes DEF HandlerTypes, asked, pieces, Statuses
<1>5. Passage'
  BY <1>1, TextStays
<1>6. CASE streaming
  <2>1. Places' /\ Serves' /\ Finished' /\ Owed' /\ Blamed'
    <3>. USE <1>1, <1>2, <1>3, <1>6, Requested DEF ChatInv, Early, asked, pieces, routerVars, streaming
    <3>1. Places'
      BY DEF Places, Silent
    <3>2. Serves'
      BY DEF Serves
    <3>3. Finished'
      BY DEF Finished, Answered, Endings, Places
    <3>4. Owed'
      BY DEF Owed, HandlerTypes
    <3>5. Blamed'
      BY DEF Blamed, Errored, Endings, HandlerTypes
    <3>. QED
      BY <3>1, <3>2, <3>3, <3>4, <3>5
  <2>2. Metered'
    <3>1. gone => status # 0
      BY <1>1, <1>6 DEF ChatInv, Places
    <3>2. ~gone => ending # <<>> /\ Len(ending) = 2
      BY <1>1, <1>6 DEF ChatInv, Places
    <3>. QED
      BY <1>1, <1>3, <1>6, <3>1, <3>2 DEF ChatInv, Metered, Errored, HandlerTypes, asked, routerVars,
         streaming, outcome
  <2>. QED
    BY <1>4, <1>5, <2>1, <2>2 DEF Preserved, Control
<1>7. CASE ~streaming
  <2>0. Silent /\ state = "returned" /\ ~gone /\ status = 0 /\ generated = counted
    BY <1>1, <1>7 DEF ChatInv, Places, Finished
  <2>1. Places' /\ Serves' /\ Finished' /\ Owed' /\ Blamed'
    <3>. USE <1>1, <1>2, <1>3, <1>7, <2>0, Requested DEF ChatInv, Early, asked, pieces, routerVars, streaming
    <3>1. Places'
      BY DEF Places, Silent
    <3>2. Serves'
      BY DEF Serves
    <3>3. Finished'
      BY DEF Finished, Answered, Endings, Places
    <3>4. Owed'
      BY DEF Owed, HandlerTypes
    <3>5. Blamed'
      BY DEF Blamed, Errored, Endings, HandlerTypes
    <3>. QED
      BY <3>1, <3>2, <3>3, <3>4, <3>5
  <2>2. Metered'
    BY <1>1, <1>3, <1>7, <2>0 DEF ChatInv, Metered, Silent, Errored, HandlerTypes, asked, routerVars,
       streaming, outcome, Endings
  <2>. QED
    BY <1>4, <1>5, <2>1, <2>2 DEF Preserved, Control
<1>. QED
  BY <1>6, <1>7

\* The charge stays what was reserved, or becomes what was used.
LEMMA SettleFailsStep ==
    ASSUME ChatInv, SettleFails
    PROVE  Preserved
<1>1. /\ stage = "settling" /\ stage' = "over" /\ settled' = "lost" /\ settled = "no"
      /\ charge = Estimated /\ charge' \in {charge, charge + Difference}
      /\ UNCHANGED <<asked, pieces, gone, generated, routerVars>>
      /\ HandlerTypes /\ TypeOK
  BY Types DEF SettleFails, ChatInv, Owed, told, Fail
<1>0. charge' \in {Estimated, Prompt + generated} /\ charge' \in Nat /\ charge' >= Prompt
  <2>1. generated \in Nat
    BY <1>1 DEF HandlerTypes
  <2>. QED
    BY <1>1, <2>1, Requested DEF Difference
<1>2. Passage'
  BY <1>1, TextStays
<1>3. CASE streaming
  <2>1. /\ metrics' \in [Series -> Nat]
        /\ metrics'["observed"] = metrics["observed"] + 1 /\ metrics'["failed"] = metrics["failed"]
        /\ metrics'["total"] = metrics["total"] /\ UNCHANGED <<ending, status>>
    BY <1>1, <1>3 DEF SettleFails, Count, HandlerTypes, Series, told
  <2>2. HandlerTypes'
    BY <1>0, <1>1, <2>1 DEF HandlerTypes, asked, pieces
  <2>3. Places' /\ Serves' /\ Finished' /\ Owed' /\ Blamed'
    <3>. USE <1>0, <1>1, <1>3, <2>1, Requested DEF ChatInv, Early, asked, pieces, routerVars, streaming
    <3>1. Places'
      BY DEF Places, Silent
    <3>2. Serves'
      BY DEF Serves
    <3>3. Finished'
      BY DEF Finished, Answered, Endings, Places
    <3>4. Owed'
      BY DEF Owed, HandlerTypes
    <3>5. Blamed'
      BY DEF Blamed, Errored, Endings, HandlerTypes
    <3>. QED
      BY <3>1, <3>2, <3>3, <3>4, <3>5
  <2>4. Metered'
    <3>1. gone => status # 0
      BY <1>1, <1>3 DEF ChatInv, Places
    <3>2. ~gone => ending # <<>> /\ Len(ending) = 2
      BY <1>1, <1>3 DEF ChatInv, Places
    <3>. QED
      BY <1>1, <1>3, <2>1, <3>1, <3>2 DEF ChatInv, Metered, Errored, HandlerTypes, asked, routerVars,
         streaming, outcome
  <2>. QED
    BY <1>2, <2>2, <2>3, <2>4 DEF Preserved, Control
<1>4. CASE ~streaming
  <2>0. Silent /\ state = "returned" /\ ~gone /\ status = 0 /\ generated = counted
    BY <1>1, <1>4 DEF ChatInv, Places, Finished
  <2>1. Fail("OperationalError")
    BY <1>4 DEF SettleFails
  <2>2. /\ ending' = <<"INTERNAL_ERROR">> /\ ending'[1] = "INTERNAL_ERROR" /\ ending' # <<>>
        /\ ending' \in Frames /\ status' \in Statuses
        /\ status' = HttpStatusOf("INTERNAL_ERROR")
        /\ metrics' \in [Series -> Nat]
        /\ metrics'["total"] = metrics["total"]
        /\ metrics'["failed"] = metrics["failed"] + 1
        /\ metrics'["observed"] = metrics["observed"] + 1
    BY <1>1, <2>1, FailTypes, OwnCodes, Coerced
  <2>3. HandlerTypes'
    BY <1>0, <1>1, <2>2 DEF HandlerTypes, asked, pieces
  <2>4. Places' /\ Serves' /\ Finished' /\ Owed' /\ Blamed'
    BY <1>0, <1>1, <1>4, <2>0, <2>2, Requested DEF ChatInv, Places, Serves, Finished, Owed, Blamed, Early,
       Answered, Errored, HandlerTypes, asked, pieces, routerVars, streaming, Endings
  <2>5. Metered'
    BY <1>1, <1>4, <2>0, <2>2 DEF ChatInv, Metered, Silent, Serves, Errored, HandlerTypes, asked,
       routerVars, streaming, outcome, Endings
  <2>. QED
    BY <1>2, <2>3, <2>4, <2>5 DEF Preserved, Control
<1>. QED
  BY <1>3, <1>4

\* The frame before [DONE], then [DONE].
LEMMA SendEndStep ==
    ASSUME ChatInv, SendEnd
    PROVE  Preserved
<1>1. /\ stage = "sending" /\ ending # <<>> /\ HandlerTypes /\ TypeOK
      /\ UNCHANGED <<asked, pieces, status, gone, money, routerVars>>
      /\ streaming /\ ~gone /\ status = 200 /\ state \in {"returned", "raised"}
      /\ ending[1] # "document"
  BY Types DEF SendEnd, ChatInv, Places
<1>2. PICK e \in {"final"} \cup DOMAIN ErrorTable : ending = <<e>> \/ ending = <<e, "[DONE]">>
  BY <1>1, FrameTypes DEF HandlerTypes
<1>3. CASE ending = <<e>>
  <2>1. ending' = <<e, "[DONE]">> /\ stage' = stage /\ metrics' = metrics
    BY <1>3 DEF SendEnd
  <2>2. ending[1] = e /\ ending'[1] = e /\ ending' # <<>> /\ ending' \in Frames
    BY <1>2, <1>3, <2>1, FrameTypes
  <2>3. HandlerTypes'
    BY <1>1, <2>1, <2>2 DEF HandlerTypes, asked, pieces, money
  <2>4. Passage'
    BY <1>1, <2>1, TextStays
  <2>5. Places' /\ Serves'
    BY <1>1, <2>1, <2>2 DEF ChatInv, Places, Serves, Early, Silent, asked, routerVars, streaming
  <2>6. Finished' /\ Owed' /\ Blamed'
    BY <1>1, <2>1, <2>2 DEF ChatInv, Finished, Owed, Blamed, Answered, Errored, asked, money, pieces,
       routerVars, streaming
  <2>7. Metered'
    BY <1>1, <1>3, <2>1, <2>2 DEF ChatInv, Metered, Errored, asked, routerVars, outcome, streaming
  <2>. QED
    BY <2>3, <2>4, <2>5, <2>6, <2>7 DEF Preserved, Control
<1>4. CASE ending = <<e, "[DONE]">>
  <2>1. stage' = "settling" /\ ending' = ending /\ ending[1] = e /\ Len(ending) = 2
        /\ Count(IF e = "final" THEN {"total"} ELSE {})
    BY <1>4 DEF SendEnd
  <2>2. /\ metrics' \in [Series -> Nat]
        /\ metrics'["observed"] = metrics["observed"] /\ metrics'["failed"] = metrics["failed"]
        /\ metrics'["total"] = (IF e = "final" THEN metrics["total"] + 1 ELSE metrics["total"])
    BY <1>1, <2>1, CountTypes DEF Series
  <2>3. HandlerTypes'
    BY <1>1, <2>1, <2>2 DEF HandlerTypes, asked, pieces, money
  <2>4. Passage'
    BY <1>1, <2>1, TextStays
  <2>5. Places' /\ Serves'
    BY <1>1, <2>1 DEF ChatInv, Places, Serves, Early, Silent, asked, routerVars, streaming
  <2>6. Finished' /\ Owed' /\ Blamed'
    BY <1>1, <2>1, <2>2 DEF ChatInv, Finished, Owed, Blamed, Early, Answered, Errored, asked, money,
       pieces, routerVars, streaming
  <2>7. Metered'
    <3>1. ending # <<"document">> /\ (ending = <<"final", "[DONE]">> <=> e = "final")
      BY <1>1, <1>4, <2>1
    <3>2. metrics["total"] = 0 /\ metrics'["total"] = (IF e = "final" THEN 1 ELSE 0)
      BY <1>1, <2>2, <3>1 DEF ChatInv, Metered
    <3>. QED
      BY <1>1, <2>1, <2>2, <3>1, <3>2 DEF ChatInv, Metered, Errored, asked, routerVars, outcome, streaming
  <2>. QED
    BY <2>3, <2>4, <2>5, <2>6, <2>7 DEF Preserved, Control
<1>. QED
  BY <1>2, <1>3, <1>4

\* The router's exception becomes a frame or a response.
LEMMA RouterFailedStep ==
    ASSUME ChatInv, RouterFailed
    PROVE  Preserved
<1>. DEFINE code == coerce(error)
<1>1. /\ stage = "pulling" /\ state = "raised" /\ HandlerTypes /\ TypeOK
      /\ UNCHANGED <<asked, pieces, money, routerVars>>
      /\ Silent /\ ~gone /\ status = (IF streaming THEN 200 ELSE 0)
      /\ settled = "no" /\ charge = Estimated
      /\ metrics["observed"] = 0
  BY Types DEF RouterFailed, ChatInv, Places, Owed, Metered
<1>2. /\ code \in DOMAIN ErrorTable /\ code \notin Endings /\ HttpStatusOf(code) = HttpStatusOf(error)
      /\ <<code>> \in Frames /\ <<code>>[1] = code /\ <<code>> # <<>>
  BY Coerced, FrameTypes
<1>. HIDE DEF code
<1>3. /\ ending' = <<code>> /\ gone' = gone
      /\ \/ /\ streaming /\ stage' = "sending" /\ status' = status
            /\ metrics' \in [Series -> Nat]
            /\ metrics'["total"] = 0 /\ metrics'["observed"] = 0
            /\ metrics'["failed"] = (IF error = "unnormalised" THEN 0 ELSE 1)
         \/ /\ ~streaming /\ stage' = "over" /\ status' = HttpStatusOf(code) /\ status' \in Statuses
            /\ metrics' \in [Series -> Nat]
            /\ metrics'["total"] = 0 /\ metrics'["observed"] = 1 /\ metrics'["failed"] = 1
  <2>1. CASE streaming
    <3>1. Count(IF error = "unnormalised" THEN {} ELSE {"failed"})
      BY <2>1 DEF RouterFailed
    <3>. QED
      BY <1>1, <2>1, <3>1, CountTypes DEF RouterFailed, Silent, Series, code
  <2>2. CASE ~streaming
    <3>1. Fail(error)
      BY <2>2 DEF RouterFailed
    <3>. QED
      BY <1>1, <1>2, <2>2, <3>1, FailTypes DEF Silent, code
  <2>. QED
    BY <2>1, <2>2
<1>4. HandlerTypes'
  BY <1>1, <1>2, <1>3 DEF HandlerTypes, asked, pieces, money, Early
<1>5. Passage'
  BY <1>1, <1>3 DEF ChatInv, Passage, Offered, InOrder, Tallied, Waiting, pieces, routerVars
<1>6. Places' /\ Serves'
  BY <1>1, <1>2, <1>3 DEF ChatInv, Places, Serves, Early, Silent, Endings, asked, routerVars, streaming
<1>7. Finished' /\ Owed' /\ Blamed'
  BY <1>1, <1>2, <1>3, Requested DEF ChatInv, Finished, Owed, Blamed, Early, Answered, Errored, Endings, asked,
     money, pieces, routerVars, streaming, code
<1>8. Metered'
  BY <1>1, <1>2, <1>3 DEF Metered, Errored, Endings, asked, routerVars, outcome, streaming
<1>. QED
  BY <1>4, <1>5, <1>6, <1>7, <1>8 DEF Preserved, Control

\* Places of the pieces that are common to what follows.
LEMMA TextTypes ==
    ASSUME ChatInv
    PROVE  /\ HandlerTypes /\ TypeOK /\ RouterTypeOK /\ RouterInv
           /\ Len(text) \in Nat /\ Len(carry) \in Nat /\ counted \in Nat /\ tokens \in Nat
           /\ provider \in Providers /\ made[provider] \in Nat /\ made[provider] <= MaxEvents
<1>1. HandlerTypes /\ TypeOK /\ RouterTypeOK /\ RouterInv
  BY Types DEF ChatInv
<1>2. Len(text) \in Nat /\ Len(carry) \in Nat
  BY <1>1 DEF HandlerTypes, Parts
<1>3. provider \in Providers /\ made[provider] \in 0..MaxEvents /\ counted \in Nat /\ tokens \in Nat
  BY <1>1 DEF RouterTypeOK, HandlerTypes
<1>. QED
  BY <1>1, <1>2, <1>3, MRAssumption

\* The last text has been sent, and then the answer is complete.
LEMMA FinishStep ==
    ASSUME ChatInv, Finish
    PROVE  Preserved
<1>1. /\ stage = "sending" /\ ending = <<>> /\ state = "returned"
      /\ ~gone /\ status = 200 /\ streaming /\ Silent /\ settled = "no" /\ charge = Estimated
      /\ generated' = counted /\ ending' = <<"final">> /\ stage' = "sending"
      /\ UNCHANGED <<asked, pieces, status, gone, charge, settled, metrics, routerVars>>
      /\ HandlerTypes /\ TypeOK
  BY Types DEF Finish, Complete, ChatInv, Places, Owed, streaming
<1>2. ending' \in Frames /\ ending'[1] = "final" /\ ending' # <<>> /\ Len(ending') = 1
  BY <1>1, FrameTypes
<1>3. HandlerTypes'
  BY <1>1, <1>2 DEF HandlerTypes, asked, pieces
<1>4. Passage'
  BY <1>1, TextStays
<1>5. Places' /\ Serves'
  BY <1>1, <1>2 DEF ChatInv, Places, Serves, Early, Silent, asked, routerVars, streaming
<1>6. Owed' /\ Blamed'
  BY <1>1, <1>2 DEF ChatInv, Owed, Blamed, Early, Errored, Endings, asked, routerVars, streaming
<1>7. Finished'
  BY <1>1 DEF Finished, pieces, routerVars
<1>8. Metered'
  BY <1>1, <1>2 DEF ChatInv, Metered, Errored, Endings, asked, routerVars, outcome, streaming
<1>. QED
  BY <1>3, <1>4, <1>5, <1>6, <1>7, <1>8 DEF Preserved, Control

\* What the router's own steps do to the handler's side of the invariant.
LEMMA OneRuns ==
    ASSUME RouterInv, NEW p \in Providers, gen[p] = "running"
    PROVE  p = provider
BY DEF RouterInv, RouterTypeOK, OnPrimary, OnSecondary, Providers

\* The handler waits, the provider is over or is not, and nothing is told.
LEMMA WaitsStep ==
    ASSUME ChatInv, stage = "pulling", UNCHANGED chatVars,
           state' \in {"opening", "reading", "offering", "raised"},
           \A p \in Providers : gen'[p] = "running" => state' \in {"opening", "reading"},
           error' = "unnormalised" => state' = "raised",
           Passage'
    PROVE  Preserved
<1>1. /\ UNCHANGED <<asked, stage, pieces, told, money, metrics>> /\ HandlerTypes
      /\ Silent /\ ~gone /\ settled = "no"
  BY Types DEF chatVars, ChatInv, Places, Owed
<1>2. HandlerTypes'
  BY <1>1 DEF HandlerTypes, asked, pieces, told, money
<1>3. Places' /\ Serves'
  BY <1>1 DEF ChatInv, Places, Serves, Early, Silent, asked, told, streaming
<1>4. Finished' /\ Owed' /\ Blamed'
  BY <1>1 DEF ChatInv, Finished, Owed, Blamed, Early, Silent, Answered, Errored, asked, told, money, streaming
<1>5. Metered'
  BY <1>1 DEF ChatInv, Metered, Early, Silent, Errored, asked, told, streaming
<1>. QED
  BY <1>2, <1>3, <1>4, <1>5 DEF Preserved, Control

\* A provider produces a piece.
LEMMA PieceMade ==
    ASSUME ChatInv, stage = "pulling", UNCHANGED chatVars, OpenText \/ ReadText
    PROVE  Preserved
<1>1. /\ TypeOK /\ RouterTypeOK /\ RouterInv /\ provider \in Providers
      /\ made[provider] \in Nat /\ tokens \in Nat
  BY TextTypes
<1>2. PICK w \in Weights : YieldsText(w) /\ tokens' = tokens + w /\ offer' = Text(provider, made'[provider], w)
  BY DEF OpenText, ReadText
<1>3. /\ state \in {"opening", "reading"} /\ state' = "offering" /\ provider' = provider /\ error' = error
      /\ UNCHANGED <<stage, pieces>>
  BY DEF OpenText, ReadText, chatVars
<1>4. made'[provider] = made[provider] + 1 /\ gen' = [gen EXCEPT ![provider] = "suspended"]
  BY <1>1, <1>2 DEF YieldsText, Becomes, RouterTypeOK
<1>5. offer' = [done |-> FALSE, from |-> provider, n |-> made[provider] + 1, tokens |-> w]
  BY <1>2, <1>4 DEF Text
<1>6. w \in Nat /\ counted = tokens
  BY <1>2, <1>3, MRAssumption DEF ChatInv, Tallied
<1>7. Offered' /\ Tallied'
  BY <1>1, <1>2, <1>3, <1>4, <1>5, <1>6 DEF Offered, Tallied, Waiting, pieces
<1>8. InOrder'
  BY <1>1, <1>3, <1>4, <1>5 DEF ChatInv, InOrder, Waiting, pieces
<1>9. \A p \in Providers : gen'[p] # "running"
  BY <1>1, <1>4, OneRuns DEF RouterTypeOK
<1>. QED
  BY <1>3, <1>7, <1>8, <1>9, WaitsStep DEF ChatInv, Serves, Passage

\* It does anything else.
LEMMA NothingMade ==
    ASSUME ChatInv, stage = "pulling", UNCHANGED chatVars,
           NEW code, (OpenRaises(code) /\ state = "opening" /\ code # "unnormalised")
              \/ OpenDone \/ ReadDone \/ ReadRaises
    PROVE  Preserved
<1>1. /\ TypeOK /\ RouterTypeOK /\ RouterInv /\ provider \in Providers
      /\ made[provider] \in Nat /\ tokens \in Nat
  BY TextTypes
<1>2. /\ state \in {"opening", "reading"} /\ state' \in {"reading", "offering", "raised"}
      /\ UNCHANGED <<provider, tokens, made, stage, pieces>>
      /\ error' = "unnormalised" => error = error' \/ state' = "raised"
      /\ state' = "offering" => offer' = Done(tokens)
      /\ \E s \in {"running", "suspended", "ended"} :
            gen' = [gen EXCEPT ![provider] = s] /\ (s = "running" => state' = "reading")
  BY DEF OpenRaises, OpenDone, ReadDone, ReadRaises, chatVars, Becomes, Ends, YieldsDone
<1>3. Passage'
  BY <1>1, <1>2 DEF ChatInv, Passage, Offered, InOrder, Tallied, Waiting, pieces, Done
<1>4. \A p \in Providers : gen'[p] = "running" => state' \in {"opening", "reading"}
  BY <1>1, <1>2, OneRuns DEF RouterTypeOK
<1>. QED
  BY <1>2, <1>3, <1>4, WaitsStep DEF ChatInv, Serves

LEMMA FailOverStep ==
    ASSUME ChatInv, stage = "pulling", UNCHANGED chatVars, NEW code, FailOver(code), state = "opening"
    PROVE  Preserved
<1>1. /\ TypeOK /\ RouterTypeOK /\ RouterInv /\ provider \in Providers
      /\ made[provider] \in Nat /\ tokens \in Nat
  BY TextTypes
<1>2. /\ provider = Primary /\ provider' = Secondary
      /\ UNCHANGED <<state, offer, tokens, error, made, stage, pieces>>
  BY DEF FailOver, chatVars
<1>3. made[Primary] = 0 /\ made[Secondary] = 0
  BY <1>1, <1>2 DEF RouterInv, NothingYet, OnPrimary
<1>4. Passage'
  BY <1>1, <1>2, <1>3 DEF ChatInv, Passage, Offered, InOrder, Tallied, Waiting, pieces
<1>. QED
  BY <1>2, <1>4, WaitsStep DEF ChatInv, Serves

LEMMA RouterWorksStep ==
    ASSUME ChatInv, RouterWorks
    PROVE  Preserved
<1>1. stage = "pulling" /\ UNCHANGED chatVars
  BY DEF RouterWorks
<1>2. ASSUME NEW code, OpenFails(code), code # "unnormalised"
      PROVE  Preserved
  BY <1>1, <1>2, FailOverStep, NothingMade DEF OpenFails
<1>3. CASE OpenTimeout \/ OpenEmpty \/ OpenOtherException
  BY <1>2, <1>3 DEF OpenTimeout, OpenEmpty, OpenOtherException
<1>4. CASE OpenGatewayError
  BY <1>2, <1>4, MRAssumption DEF OpenGatewayError
<1>5. CASE OpenText \/ ReadText
  BY <1>1, <1>5, PieceMade
<1>6. CASE OpenDone \/ ReadDone \/ ReadRaises
  BY <1>1, <1>6, NothingMade
<1>. QED
  BY <1>3, <1>4, <1>5, <1>6 DEF RouterWorks, Open, Read

-----------------------------------------------------------------------------
(* The redactor: what is let go and what is held stay in order.            *)

LEMMA LetGo ==
    ASSUME NEW S, NEW sent \in Seq(S), NEW held \in Seq(S), NEW p, NEW k \in 0..Len(held),
           \A i \in 1..Len(sent) : sent[i] = <<p, i>>,
           \A i \in 1..Len(held) : held[i] = <<p, Len(sent) + i>>,
           NEW after, after = sent \o SubSeq(held, 1, k),
           NEW kept, kept = SubSeq(held, k + 1, Len(held))
    PROVE  /\ after \in Seq(S) /\ kept \in Seq(S)
           /\ Len(after) = Len(sent) + k /\ Len(kept) = Len(held) - k
           /\ \A i \in 1..Len(after) : after[i] = <<p, i>>
           /\ \A i \in 1..Len(kept) : kept[i] = <<p, Len(after) + i>>
<1>. DEFINE front == SubSeq(held, 1, k)
            rest == SubSeq(held, k + 1, Len(held))
            now == sent \o front
<1>1. /\ front \in Seq(S) /\ Len(front) = k /\ rest \in Seq(S) /\ Len(rest) = Len(held) - k
      /\ \A i \in 1..k : front[i] = held[i]
      /\ \A i \in 1..(Len(held) - k) : rest[i] = held[k + i]
  BY HeldTypes
<1>2. Len(sent) \in Nat /\ Len(held) \in Nat /\ k \in Nat /\ k <= Len(held) /\ sent \in Seq(S)
      /\ \A i \in 1..Len(sent) : sent[i] = <<p, i>>
  OBVIOUS
<1>. HIDE DEF front, rest
<1>3. /\ now \in Seq(S) /\ Len(now) = Len(sent) + k
      /\ \A i \in 1..(Len(sent) + k) :
            now[i] = (IF i <= Len(sent) THEN sent[i] ELSE front[i - Len(sent)])
  <2>. HIDE DEF now
  <2>1. /\ now \in Seq(S) /\ Len(now) = Len(sent) + Len(front)
        /\ \A i \in 1..(Len(sent) + Len(front)) :
              now[i] = (IF i <= Len(sent) THEN sent[i] ELSE front[i - Len(sent)])
    BY <1>1, <1>2, ConcatProperties DEF now
  <2>. QED
    BY ONLY <1>1, <2>1
<1>. HIDE DEF now
<1>4. ASSUME NEW i \in 1..Len(now) PROVE now[i] = <<p, i>>
  <2>1. CASE i <= Len(sent)
    BY ONLY <1>2, <1>3, <2>1, i \in 1..Len(now)
  <2>2. CASE ~(i <= Len(sent))
    <3>1. PICK j \in 1..k : i = Len(sent) + j
      <4>1. i - Len(sent) \in 1..k /\ i = Len(sent) + (i - Len(sent))
        BY <1>2, <1>3, <2>2
      <4>. QED
        BY <4>1
    <3>2. now[i] = front[j] /\ front[j] = held[j] /\ j \in 1..Len(held)
      <4>1. i - Len(sent) = j /\ j \in 1..Len(held)
        BY <1>2, <3>1
      <4>. QED
        BY <1>1, <1>3, <2>2, <3>1, <4>1
    <3>. QED
      BY <3>1, <3>2
  <2>. QED
    BY <2>1, <2>2
<1>5. ASSUME NEW i \in 1..Len(rest) PROVE rest[i] = <<p, Len(now) + i>>
  <2>1. i \in 1..(Len(held) - k) /\ k + i \in 1..Len(held) /\ Len(sent) + (k + i) = Len(now) + i
    BY <1>1, <1>2, <1>3
  <2>2. rest[i] = held[k + i] /\ held[k + i] = <<p, Len(sent) + (k + i)>>
    BY <1>1, <2>1
  <2>. QED
    BY <2>1, <2>2
<1>. QED
  BY <1>1, <1>3, <1>4, <1>5 DEF now, front, rest

\* The piece on offer is the next one.
LEMMA NextPiece ==
    ASSUME ChatInv, Waiting
    PROVE  LET held == Append(carry, <<offer.from, offer.n>>)
           IN  /\ held \in Parts /\ Len(held) = Len(carry) + 1
               /\ \A i \in 1..Len(held) : held[i] = <<provider, Len(text) + i>>
               /\ Len(text) + Len(held) = made[provider]
<1>. DEFINE held == Append(carry, <<offer.from, offer.n>>)
<1>1. /\ offer.from = provider /\ offer.n = made[provider] /\ provider \in Providers
      /\ made[provider] \in 1..MaxEvents
  BY TextTypes DEF ChatInv, Offered, Waiting, RouterTypeOK
<1>2. /\ carry \in Parts /\ Len(text) \in Nat /\ Len(carry) \in Nat
      /\ Len(text) + Len(carry) = made[provider] - 1
      /\ \A i \in 1..Len(carry) : carry[i] = <<provider, Len(text) + i>>
  BY TextTypes DEF ChatInv, InOrder, HandlerTypes
<1>3. /\ held \in Parts /\ Len(held) = Len(carry) + 1
      /\ \A i \in 1..Len(carry) : held[i] = carry[i]
      /\ held[Len(carry) + 1] = <<provider, made[provider]>>
  BY <1>1, <1>2 DEF Parts
<1>4. made[provider] = Len(text) + (Len(carry) + 1)
  BY <1>2, TextTypes
<1>. HIDE DEF held
<1>5. ASSUME NEW i \in 1..Len(held) PROVE held[i] = <<provider, Len(text) + i>>
  <2>1. i \in 1..Len(carry) \/ i = Len(carry) + 1
    BY <1>2, <1>3
  <2>. QED
    BY <1>2, <1>3, <1>4, <2>1
<1>. QED
  BY <1>2, <1>3, <1>4, <1>5 DEF held

\* The consumer asks again.
LEMMA ResumeEffect ==
    ASSUME ChatInv, Resume
    PROVE  /\ state = "offering"
           /\ UNCHANGED <<provider, offer, tokens, outcome, error, made, billed>>
           /\ offer.done => state' = "returned" /\ gen' = gen
           /\ ~offer.done => state' = "reading"
           /\ \A p \in Providers : gen'[p] = "running" => state' = "reading"
           /\ error # "unnormalised"
<1>1. /\ RouterTypeOK /\ provider \in Providers
  BY TextTypes
<1>2. state = "offering" /\ \A p \in Providers : gen[p] # "running"
  BY DEF Resume, ChatInv, Serves
<1>. QED
  BY <1>1, <1>2 DEF Resume, Becomes, ChatInv, Serves, RouterTypeOK

\* Text that is let go is sent, or kept for the document.
LEMMA GuardTextStep ==
    ASSUME ChatInv, GuardText
    PROVE  Preserved
<1>. DEFINE held == Append(carry, <<offer.from, offer.n>>)
<1>0. /\ HandlerTypes /\ RouterTypeOK /\ Waiting /\ state = "offering" /\ stage = "pulling" /\ ~offer.done
      /\ counted \in Nat /\ offer.tokens \in Nat
      /\ Silent /\ ~gone /\ status = (IF streaming THEN 200 ELSE 0) /\ settled = "no" /\ charge = Estimated
      /\ counted + offer.tokens = tokens
  <2>1. HandlerTypes /\ RouterTypeOK /\ Waiting /\ state = "offering" /\ stage = "pulling" /\ ~offer.done
    BY Types DEF GuardText, Waiting, ChatInv
  <2>. QED
    BY <2>1 DEF ChatInv, Places, Owed, Tallied, HandlerTypes, RouterTypeOK
<1>1. PICK k \in 0..Len(held) :
        /\ text' = text \o SubSeq(held, 1, k)
        /\ carry' = SubSeq(held, k + 1, Len(held))
        /\ IF streaming /\ k > 0
           THEN stage' = "sending" /\ UNCHANGED routerVars
           ELSE Resume /\ UNCHANGED stage
  BY DEF GuardText
<1>2. counted' = tokens /\ UNCHANGED <<asked, told, money, metrics>>
  BY <1>0 DEF GuardText
<1>3. /\ held \in Parts /\ Len(text) + Len(held) = made[provider] /\ text \in Parts
      /\ \A i \in 1..Len(held) : held[i] = <<provider, Len(text) + i>>
      /\ \A i \in 1..Len(text) : text[i] = <<provider, i>>
  BY <1>0, NextPiece DEF HandlerTypes, ChatInv, InOrder
<1>. HIDE DEF held
<1>4. /\ text' \in Parts /\ carry' \in Parts
      /\ Len(text') = Len(text) + k /\ Len(carry') = Len(held) - k
      /\ \A i \in 1..Len(text') : text'[i] = <<provider, i>>
      /\ \A i \in 1..Len(carry') : carry'[i] = <<provider, Len(text') + i>>
  <2>. DEFINE S == Providers \X (1..MaxEvents)
  <2>1. Parts = Seq(S)
    BY DEF Parts
  <2>2. held \in Seq(S) /\ text \in Seq(S)
    BY <1>3, <2>1
  <2>3. /\ \A i \in 1..Len(held) : held[i] = <<provider, Len(text) + i>>
        /\ \A i \in 1..Len(text) : text[i] = <<provider, i>>
        /\ text' = text \o SubSeq(held, 1, k) /\ carry' = SubSeq(held, k + 1, Len(held))
    BY <1>1, <1>3
  <2>. HIDE DEF S
  <2>4. /\ text' \in Seq(S) /\ carry' \in Seq(S)
        /\ Len(text') = Len(text) + k /\ Len(carry') = Len(held) - k
        /\ \A i \in 1..Len(text') : text'[i] = <<provider, i>>
        /\ \A i \in 1..Len(carry') : carry'[i] = <<provider, Len(text') + i>>
    BY <2>2, <2>3, LetGo, SMTT(30)
  <2>. QED
    BY <2>1, <2>4
<1>5. Len(text') + Len(carry') = made[provider]
  <2>1. Len(text) \in Nat /\ Len(held) \in Nat /\ k \in Nat
    BY <1>3, <1>1 DEF Parts
  <2>. QED
    BY <1>3, <1>4, <2>1
<1>6. tokens \in Nat
  BY <1>0 DEF RouterTypeOK
<1>7. CASE stage' = "sending" /\ streaming /\ UNCHANGED routerVars
  <2>1. UNCHANGED <<state, provider, gen, offer, tokens, outcome, error, made>>
    BY <1>7 DEF routerVars
  <2>2. HandlerTypes'
    BY <1>0, <1>2, <1>4, <1>6, <1>7 DEF HandlerTypes, asked, told, money
  <2>3. Places' /\ Serves'
    BY <1>0, <1>2, <1>7, <2>1 DEF ChatInv, Places, Serves, Early, Silent, asked, told, streaming
  <2>4. Finished' /\ Owed' /\ Blamed' /\ Metered'
    BY <1>0, <1>2, <1>7, <2>1 DEF ChatInv, Finished, Owed, Blamed, Metered, Early, Silent, Answered,
       Errored, asked, told, money, streaming
  <2>5. Offered' /\ InOrder' /\ Tallied'
    BY <1>0, <1>2, <1>4, <1>5, <1>7, <2>1 DEF Offered, InOrder, Tallied, Waiting
  <2>. QED
    BY <2>2, <2>3, <2>4, <2>5 DEF Preserved, Control, Passage
<1>8. CASE Resume /\ UNCHANGED stage
  <2>1. /\ UNCHANGED <<provider, offer, tokens, outcome, error, made>> /\ state' = "reading"
        /\ error # "unnormalised"
        /\ \A p \in Providers : gen'[p] = "running" => state' = "reading"
    BY <1>0, <1>8, ResumeEffect
  <2>2. HandlerTypes'
    BY <1>0, <1>2, <1>4, <1>6, <1>8 DEF HandlerTypes, asked, told, money
  <2>3. Places' /\ Serves'
    BY <1>0, <1>2, <1>8, <2>1 DEF ChatInv, Places, Serves, Early, Silent, asked, told, streaming
  <2>4. Finished' /\ Owed' /\ Blamed' /\ Metered'
    BY <1>0, <1>2, <1>8, <2>1 DEF ChatInv, Finished, Owed, Blamed, Metered, Early, Silent, Answered,
       Errored, asked, told, money, streaming
  <2>5. Offered' /\ InOrder' /\ Tallied'
    BY <1>0, <1>2, <1>4, <1>5, <1>8, <2>1 DEF Offered, InOrder, Tallied, Waiting
  <2>. QED
    BY <2>2, <2>3, <2>4, <2>5 DEF Preserved, Control, Passage
<1>. QED
  BY <1>1, <1>7, <1>8

\* What is held back is let go at the end.
LEMMA LetAllGo ==
    ASSUME ChatInv, ~Waiting, NEW now, now = text \o carry
    PROVE  /\ now \in Parts /\ Len(now) = made[provider]
           /\ \A i \in 1..Len(now) : now[i] = <<provider, i>>
           /\ Len(now) = Len(text) + Len(carry)
<1>1. /\ text \in Parts /\ carry \in Parts /\ Len(text) \in Nat /\ Len(carry) \in Nat
      /\ Len(text) + Len(carry) = made[provider]
      /\ \A i \in 1..Len(text) : text[i] = <<provider, i>>
      /\ \A i \in 1..Len(carry) : carry[i] = <<provider, Len(text) + i>>
  BY TextTypes DEF HandlerTypes, ChatInv, InOrder
<1>2. /\ now \in Parts /\ Len(now) = Len(text) + Len(carry)
      /\ \A i \in 1..(Len(text) + Len(carry)) :
            now[i] = (IF i <= Len(text) THEN text[i] ELSE carry[i - Len(text)])
  BY <1>1 DEF Parts
<1>3. ASSUME NEW i \in 1..Len(now) PROVE now[i] = <<provider, i>>
  <2>1. CASE i <= Len(text)
    BY <1>1, <1>2, <2>1
  <2>2. CASE ~(i <= Len(text))
    <3>1. i - Len(text) \in 1..Len(carry) /\ Len(text) + (i - Len(text)) = i
      BY <1>1, <1>2, <2>2
    <3>2. now[i] = carry[i - Len(text)]
      BY <1>2, <2>2
    <3>. QED
      BY <1>1, <3>1, <3>2
  <2>. QED
    BY <2>1, <2>2
<1>. QED
  BY <1>1, <1>2, <1>3

LEMMA GuardDoneStep ==
    ASSUME ChatInv, GuardDone
    PROVE  Preserved
<1>0. /\ HandlerTypes /\ RouterTypeOK /\ ~Waiting /\ state = "offering" /\ stage = "pulling" /\ offer.done
      /\ counted \in Nat /\ tokens \in Nat
      /\ Silent /\ ~gone /\ status = (IF streaming THEN 200 ELSE 0) /\ settled = "no" /\ charge = Estimated
      /\ offer.tokens = tokens /\ counted = tokens
  <2>1. HandlerTypes /\ RouterTypeOK /\ ~Waiting /\ state = "offering" /\ stage = "pulling" /\ offer.done
    BY Types DEF GuardDone, Waiting, ChatInv
  <2>. QED
    BY <2>1 DEF ChatInv, Places, Owed, Offered, Tallied, HandlerTypes, RouterTypeOK
<1>1. /\ counted' = counted + tokens /\ text' = text \o carry /\ carry' = <<>>
      /\ UNCHANGED <<asked, status, gone, charge, settled, metrics>>
  BY <1>0 DEF GuardDone
<1>2. /\ UNCHANGED <<provider, offer, tokens, outcome, error, made>> /\ state' = "returned"
      /\ error # "unnormalised"
      /\ \A p \in Providers : gen'[p] # "running"
  BY <1>0, ResumeEffect DEF GuardDone
<1>3. /\ text' \in Parts /\ Len(text') = made[provider]
      /\ \A i \in 1..Len(text') : text'[i] = <<provider, i>>
      /\ counted' \in Nat /\ counted' = 2 * tokens
  <2>1. /\ text' \in Parts /\ Len(text') = made[provider]
        /\ \A i \in 1..Len(text') : text'[i] = <<provider, i>>
    BY <1>0, <1>1, LetAllGo
  <2>2. counted' \in Nat /\ counted' = 2 * tokens
    BY <1>0, <1>1
  <2>. QED
    BY <2>1, <2>2
<1>4. /\ carry' \in Parts /\ Len(carry') = 0 /\ 1..Len(carry') = {}
  BY <1>1 DEF Parts
<1>5. \/ stage' = "sending" /\ streaming /\ ending' = <<>> /\ generated' = generated
      \/ stage' = "sending" /\ streaming /\ ending' = <<"final">> /\ generated' = counted'
      \/ stage' = "settling" /\ ~streaming /\ ending' = <<>> /\ generated' = counted'
  BY <1>0 DEF GuardDone, Complete, Silent
<1>6. /\ ending' \in Frames /\ ending' # <<"document">>
      /\ ending' # <<>> => ending'[1] = "final" /\ Len(ending') = 1
  <2>1. <<"final">> \in Frames /\ <<>> \in Frames
    BY FrameTypes
  <2>2. <<"final">>[1] = "final" /\ <<"document">>[1] = "document" /\ Len(<<"final">>) = 1
    OBVIOUS
  <2>3. <<>> # <<"document">> /\ <<"final">> # <<"document">>
    BY <2>2
  <2>. QED
    BY ONLY <1>5, <2>1, <2>2, <2>3
<1>7. HandlerTypes'
  BY <1>0, <1>1, <1>3, <1>4, <1>5, <1>6 DEF HandlerTypes, asked
<1>8. Places' /\ Serves'
  BY <1>0, <1>1, <1>2, <1>5, <1>6 DEF Places, Serves, Early, Silent, asked, streaming
<1>9. Finished' /\ Owed' /\ Blamed'
  BY <1>0, <1>1, <1>2, <1>5, <1>6 DEF ChatInv, Finished, Owed, Blamed, Early, Silent, Answered, Errored,
     Endings, asked, streaming
<1>10. Metered'
  <2>1. ending' # <<"final", "[DONE]">> /\ ~Errored'
    BY <1>5, <1>6 DEF Errored, Endings
  <2>2. metrics'["observed"] = 0 /\ metrics'["total"] = 0 /\ metrics'["failed"] = 0
    BY <1>0, <1>1 DEF ChatInv, Metered, Silent
  <2>. QED
    BY <1>5, <1>6, <2>1, <2>2 DEF Metered
<1>11. Offered' /\ InOrder' /\ Tallied'
  <2>1. stage' # "pulling" /\ Len(text') + Len(carry') = made[provider]
    BY <1>3, <1>4, <1>5, TextTypes
  <2>. QED
    BY <1>1, <1>2, <1>3, <1>4, <2>1 DEF Offered, InOrder, Tallied, Waiting
<1>. QED
  BY <1>7, <1>8, <1>9, <1>10, <1>11 DEF Preserved, Control, Passage

-----------------------------------------------------------------------------
(* The client, the interpreter, and all steps together.                    *)

\* A frame has been sent: the router is asked for more.
LEMMA AsksAgainStep ==
    ASSUME ChatInv, SendText, Resume
    PROVE  Preserved
<1>1. /\ stage = "sending" /\ stage' = "pulling" /\ ending = <<>> /\ HandlerTypes
      /\ UNCHANGED <<asked, pieces, told, money, metrics>>
      /\ streaming /\ ~gone /\ status = 200 /\ Silent /\ settled = "no" /\ charge = Estimated
      /\ state = "offering" /\ ~offer.done
  BY Types DEF SendText, Resume, ChatInv, Places, Owed
<1>2. /\ UNCHANGED <<provider, offer, tokens, outcome, error, made>> /\ state' = "reading"
      /\ error # "unnormalised"
      /\ \A p \in Providers : gen'[p] = "running" => state' = "reading"
  BY <1>1, ResumeEffect
<1>3. HandlerTypes'
  BY <1>1 DEF HandlerTypes, asked, pieces, told, money
<1>4. Places' /\ Serves'
  BY <1>1, <1>2 DEF Places, Serves, Early, Silent, asked, told, streaming
<1>5. Finished' /\ Owed' /\ Blamed' /\ Metered'
  BY <1>1, <1>2 DEF ChatInv, Finished, Owed, Blamed, Metered, Early, Silent, Answered, Errored, asked,
     told, money, streaming
<1>6. Passage'
  BY <1>1, <1>2 DEF ChatInv, Passage, Offered, InOrder, Tallied, Waiting, pieces
<1>. QED
  BY <1>3, <1>4, <1>5, <1>6 DEF Preserved, Control

\* The cancellation of a waiting stream passes through the router.
LEMMA CancelledStep ==
    ASSUME ChatInv, DisconnectPulling
    PROVE  Preserved
<1>1. /\ stage = "pulling" /\ stage' = "settling" /\ HandlerTypes /\ RouterInv /\ RouterTypeOK
      /\ streaming /\ gone' = TRUE /\ status = 200 /\ Silent /\ settled = "no" /\ charge = Estimated
      /\ UNCHANGED <<asked, pieces, ending, status, money, metrics>>
      /\ provider \in Providers
  BY TextTypes DEF DisconnectPulling, Leaves, ChatInv, Places, Owed
<1>2. /\ state \in {"opening", "reading"} /\ state' = "closed"
      /\ UNCHANGED <<provider, offer, tokens, error, made>>
      /\ gen' = [gen EXCEPT ![provider] = "ended"] /\ error # "unnormalised"
  BY DEF DisconnectPulling, Cancelled, Ends, Becomes, ChatInv, Serves
<1>3. \A p \in Providers : gen'[p] # "running"
  BY <1>1, <1>2, OneRuns DEF RouterTypeOK
<1>4. HandlerTypes'
  BY <1>1 DEF HandlerTypes, asked, pieces, money
<1>5. Places' /\ Serves'
  BY <1>1, <1>2, <1>3 DEF Places, Serves, Early, Silent, asked, streaming
<1>6. Finished' /\ Owed' /\ Blamed'
  BY <1>1, <1>2 DEF ChatInv, Finished, Owed, Blamed, Early, Silent, Answered, Errored, asked, money, streaming
<1>7. Metered'
  BY <1>1, <1>2 DEF ChatInv, Metered, Silent, Errored, asked, streaming
<1>8. Passage'
  BY <1>1, <1>2 DEF ChatInv, Passage, Offered, InOrder, Tallied, Waiting, pieces
<1>. QED
  BY <1>4, <1>5, <1>6, <1>7, <1>8 DEF Preserved, Control

\* A frame cannot be sent any more.
LEMMA AbandonedStep ==
    ASSUME ChatInv, DisconnectSending
    PROVE  Preserved
<1>1. /\ stage = "sending" /\ stage' = "abandoned" /\ HandlerTypes
      /\ streaming /\ gone' = TRUE /\ status = 200 /\ settled = "no" /\ charge = Estimated
      /\ UNCHANGED <<asked, pieces, ending, status, money, metrics>>
      /\ ending # <<>> => state # "offering" /\ ending[1] # "document"
  BY Types DEF DisconnectSending, Leaves, ChatInv, Places, Owed
<1>2. /\ UNCHANGED <<provider, gen, offer, tokens, outcome, error, made>>
      /\ \/ state' = state /\ state # "offering"
         \/ state = "offering" /\ state' = "forgotten"
  BY DEF DisconnectSending, Forgotten, routerVars
<1>3. HandlerTypes'
  BY <1>1 DEF HandlerTypes, asked, pieces, money
<1>4. Places' /\ Serves'
  BY <1>1, <1>2 DEF ChatInv, Places, Serves, Early, Silent, asked, streaming
<1>5. Finished' /\ Owed' /\ Blamed'
  BY <1>1, <1>2 DEF ChatInv, Finished, Owed, Blamed, Early, Answered, Errored, asked, money, pieces, streaming
<1>6. Metered'
  BY <1>1, <1>2 DEF ChatInv, Metered, Errored, asked, streaming
<1>7. Passage'
  BY <1>1, <1>2 DEF ChatInv, Passage, Offered, InOrder, Tallied, Waiting, pieces
<1>. QED
  BY <1>3, <1>4, <1>5, <1>6, <1>7 DEF Preserved, Control

\* Generators that nobody refers to are closed.
LEMMA CloseRestStep ==
    ASSUME ChatInv, CloseRest
    PROVE  Preserved
<1>1. /\ HandlerTypes /\ RouterInv /\ RouterTypeOK /\ provider \in Providers
      /\ UNCHANGED <<asked, stage, pieces, told, money, metrics>>
  BY TextTypes DEF CloseRest, chatVars
<1>2. /\ UNCHANGED <<provider, offer, tokens, error, made>>
      /\ \/ state' = "closed" /\ state = "forgotten" /\ stage = "over" /\ gen' = gen
         \/ state' = state /\ state \in Over /\ gen' = [gen EXCEPT ![provider] = "ended"]
  BY DEF CloseRest, Release, CloseRouter, CloseProvider, Ends, Becomes
<1>3. \A p \in Providers : gen'[p] = "running" => gen[p] = "running"
  BY <1>1, <1>2 DEF RouterTypeOK
<1>4. HandlerTypes'
  BY <1>1 DEF HandlerTypes, asked, pieces, told, money
<1>5. Places' /\ Serves'
  BY <1>1, <1>2, <1>3 DEF ChatInv, Places, Serves, Early, Silent, asked, told, streaming, Over
<1>6. Finished' /\ Owed' /\ Blamed'
  BY <1>1, <1>2 DEF ChatInv, Finished, Owed, Blamed, Early, Answered, Errored, asked, told, money,
     pieces, streaming, Over
<1>7. Metered'
  BY <1>1, <1>2 DEF ChatInv, Metered, Errored, asked, told, streaming
<1>8. Passage'
  BY <1>1, <1>2 DEF ChatInv, Passage, Offered, InOrder, Tallied, Waiting, pieces, Over
<1>. QED
  BY <1>4, <1>5, <1>6, <1>7, <1>8 DEF Preserved, Control

LEMMA NothingStep ==
    ASSUME ChatInv, UNCHANGED vars
    PROVE  Preserved
<1>1. UNCHANGED <<asked, stage, pieces, told, money, metrics, routerVars>> /\ HandlerTypes
  BY Types DEF vars, chatVars, ChatInv
<1>2. HandlerTypes'
  BY <1>1 DEF HandlerTypes, asked, pieces, told, money
<1>3. Places' /\ Serves' /\ Finished' /\ Owed'
  BY <1>1 DEF ChatInv, Places, Serves, Finished, Owed, Early, Silent, Answered, asked, pieces, told,
     money, streaming, routerVars
<1>4. Blamed' /\ Metered'
  BY <1>1 DEF ChatInv, Blamed, Metered, Errored, asked, told, money, streaming, routerVars
<1>5. Passage'
  BY <1>1 DEF ChatInv, Passage, Offered, InOrder, Tallied, Waiting, pieces, routerVars
<1>. QED
  BY <1>2, <1>3, <1>4, <1>5 DEF Preserved, Control

LEMMA HandlerSteps ==
    ASSUME ChatInv, [Next]_vars
    PROVE  Preserved
<1>1. CASE ReadFails \/ Unauthenticated \/ Invalid \/ AugmentFails \/ RateLimited \/ LimiterRaises
  BY <1>1, RefusalStep
<1>2. CASE Accept \/ Augmented
  BY <1>2, EarlyStep
<1>3. CASE Admitted \/ StartBody
  BY <1>3, StartStep
<1>4. CASE SendText
  BY <1>4, StartStep, AsksAgainStep DEF SendText
<1>5. CASE GuardText
  BY <1>5, GuardTextStep
<1>6. CASE GuardDone
  BY <1>6, GuardDoneStep
<1>7. CASE RouterWorks
  BY <1>7, RouterWorksStep
<1>8. CASE RouterFailed
  BY <1>8, RouterFailedStep
<1>9. CASE Finish
  BY <1>9, FinishStep
<1>10. CASE SendEnd
  BY <1>10, SendEndStep
<1>11. CASE Settle
  BY <1>11, SettleStep
<1>12. CASE SettleFails
  BY <1>12, SettleFailsStep
<1>13. CASE Disconnect
  BY <1>13, LeavesEarly, CancelledStep, AbandonedStep DEF Disconnect
<1>14. CASE CloseBody
  BY <1>14, CloseBodyStep
<1>15. CASE CloseRest
  BY <1>15, CloseRestStep
<1>16. CASE Stops \/ UNCHANGED vars
  BY <1>16, NothingStep DEF Stops
<1>. QED
  BY <1>1, <1>2, <1>3, <1>4, <1>5, <1>6, <1>7, <1>8, <1>9, <1>10, <1>11, <1>12, <1>13, <1>14, <1>15,
     <1>16 DEF Next, HandlerStep

LEMMA ChatInit == Init => ChatInv
<1>. SUFFICES ASSUME Init PROVE ChatInv
  OBVIOUS
<1>1. RouterInv /\ RouterTypeOK
  BY InitOK DEF Init, RouterInv
<1>2. HandlerTypes
  <2>1. <<>> \in Frames /\ <<>> \in Parts /\ 0 \in Statuses
    BY FrameTypes DEF Parts, Statuses
  <2>2. metrics \in [Series -> Nat]
    BY DEF Init
  <2>. QED
    BY <2>1, <2>2 DEF Init, HandlerTypes, Early
<1>3. /\ state = "new" /\ tokens = 0 /\ error = "none" /\ made[provider] = 0
      /\ \A p \in Providers : gen[p] = "none"
  BY DEF Init, RouterInit, Providers
<1>4. Places /\ Serves /\ Offered /\ InOrder /\ Tallied
  BY <1>3 DEF Init, Places, Serves, Offered, InOrder, Tallied, Waiting, Early, Silent, Series
<1>5. Finished /\ Owed /\ Blamed /\ Metered
  BY <1>3 DEF Init, Finished, Owed, Blamed, Metered, Early, Answered, Errored, Series
<1>. QED
  BY <1>1, <1>2, <1>4, <1>5, Types DEF ChatInv

LEMMA ChatStep == ChatInv /\ [Next]_vars => ChatInv'
<1>. SUFFICES ASSUME ChatInv, [Next]_vars PROVE ChatInv'
  OBVIOUS
<1>1. RouterInv' /\ RouterTypeOK'
  BY RouterSteps, InvStep DEF ChatInv, RouterInv
<1>2. HandlerTypes' /\ Control' /\ Passage'
  BY HandlerSteps DEF Preserved
<1>3. TypeOK'
  BY <1>1, <1>2 DEF TypeOK, HandlerTypes, Frames, Statuses, Parts, Early
<1>. QED
  BY <1>1, <1>2, <1>3 DEF ChatInv, Control, Passage

\* Wherever the request stands: what the client has, what it was told, what it
\* pays and what is counted agree with the router.
THEOREM ChatInvariant == Spec => []ChatInv
BY ChatInit, ChatStep, PTL DEF Spec

-----------------------------------------------------------------------------
(* What follows from it.                                                   *)

\* Every variable of a request keeps its type, and an answer ends once: with its
\* last frame and [DONE], as a document or with an error.
THEOREM ChatTypeCorrect == Spec => []TypeOK
<1>1. ChatInv => TypeOK
  BY DEF ChatInv
<1>. QED
  BY <1>1, ChatInvariant, PTL

\* No provider is made to work for a request that has not been charged for all
\* it may produce, or whose charge has been corrected (app.py: _charge before
\* the router is asked, _reconcile after the last event).
THEOREM NothingWorksUnpaid == Spec => []NoUnpaidWork
<1>1. ChatInv => NoUnpaidWork
  BY DEF ChatInv, NoUnpaidWork, Serves, Owed
<1>. QED
  BY <1>1, ChatInvariant, PTL

\* The correction leaves the prompt charged, and every token of an answer that was
\* called complete twice, however the count came through the redactor (_reconcile).
THEOREM CompleteAnswersArePaid == Spec => []CompleteIsPaid
<1>1. ASSUME ChatInv, settled # "no" PROVE charge >= Prompt
  <2>1. settled \in {"yes", "lost"} /\ generated \in Nat
    BY <1>1 DEF ChatInv, TypeOK
  <2>2. charge = Prompt + generated \/ charge = Estimated
    BY <1>1, <2>1 DEF ChatInv, Owed
  <2>. QED
    BY <2>1, <2>2, Requested
<1>2. ASSUME ChatInv, settled = "yes", Answered PROVE charge = Prompt + 2 * billed[provider]
  <2>1. state = "returned" /\ generated = counted /\ charge = Prompt + generated
    BY <1>2 DEF ChatInv, Finished, Owed
  <2>2. counted = 2 * tokens /\ tokens = billed[provider]
    BY <1>2, <2>1 DEF ChatInv, Tallied, RouterInv, Counted
  <2>3. counted \in Nat /\ tokens \in Nat /\ Prompt \in Nat
    BY <1>2, TextTypes, Requested
  <2>. QED
    BY <2>1, <2>2, <2>3
<1>3. ChatInv => CompleteIsPaid
  BY <1>1, <1>2 DEF CompleteIsPaid, Answered, Endings
<1>. QED
  BY <1>3, ChatInvariant, PTL

\* What the frames are.
LEMMA FrameKinds ==
    ASSUME TypeOK, ending # <<>>
    PROVE  /\ ending[1] = "document" => ending = <<"document">>
           /\ ending[1] = "final" => ending \in {<<"final">>, <<"final", "[DONE]">>}
           /\ ending[1] \notin Endings => ending[1] \in DOMAIN ErrorTable
<1>1. ending \in Frames
  BY Types DEF HandlerTypes
<1>2. "document" \notin DOMAIN ErrorTable /\ "final" \notin DOMAIN ErrorTable
  BY ErrorCodes
<1>3. CASE ending = <<"document">>
  BY <1>3 DEF Endings
<1>4. CASE \E e \in {"final"} \cup DOMAIN ErrorTable : ending = <<e>> \/ ending = <<e, "[DONE]">>
  <2>1. PICK e \in {"final"} \cup DOMAIN ErrorTable : ending = <<e>> \/ ending = <<e, "[DONE]">>
    BY <1>4
  <2>2. ending[1] = e
    BY <2>1
  <2>. QED
    BY <1>2, <2>1, <2>2 DEF Endings
<1>. QED
  BY <1>1, <1>3, <1>4, FrameTypes

LEMMA CountedOnce == ChatInv => RequestCounted
<1>. SUFFICES ASSUME ChatInv PROVE RequestCounted
  OBVIOUS
<1>1. TypeOK /\ Metered /\ Places
  BY DEF ChatInv
<1>2. /\ metrics["total"] + metrics["failed"] <= 1 /\ metrics["observed"] <= 1
      /\ metrics["total"] = 1 => ending \in {<<"document">>, <<"final", "[DONE]">>}
      /\ metrics["failed"] = 1 => Errored
  <2>1. ending = <<"document">> \/ ending = <<"final", "[DONE]">> => ~Errored
    BY DEF Errored, Endings
  <2>. QED
    BY <1>1, <2>1 DEF Metered
<1>3. metrics["failed"] = 1 => ending # <<>> /\ ending[1] \in DOMAIN ErrorTable
  BY <1>1, <1>2, FrameKinds DEF Errored
<1>4. ASSUME stage = "over", ~gone, ~(streaming /\ error = "unnormalised")
      PROVE  metrics["total"] + metrics["failed"] = 1
  <2>1. ending # <<>> /\ (ending[1] = "final" => Len(ending) = 2)
    BY <1>1, <1>4 DEF Metered
  <2>2. CASE Errored
    BY <1>1, <1>2, <1>4, <2>2 DEF Metered, TypeOK, Series
  <2>3. CASE ~Errored
    <3>1. ending = <<"document">> \/ ending = <<"final", "[DONE]">>
      BY <1>1, <2>1, <2>3, FrameKinds DEF Errored, Endings
    <3>. QED
      BY <1>1, <1>4, <2>3, <3>1 DEF Metered
  <2>. QED
    BY <2>2, <2>3
<1>5. stage = "over" => metrics["observed"] = (IF gone /\ status = 0 THEN 0 ELSE 1)
  BY <1>1 DEF Metered
<1>. QED
  BY <1>2, <1>3, <1>4, <1>5 DEF RequestCounted

\* The metrics tell what became of a request, once (METRICS.increment and Timer
\* in app.py).
THEOREM RequestsAreCounted == Spec => []RequestCounted
BY CountedOnce, ChatInvariant, PTL

LEMMA HonestNow == ChatInv => ErrorsAreHonest
<1>. SUFFICES ASSUME ChatInv, Errored
              PROVE  LET code == ending[1]
                         type == ErrorType(code)
                     IN  /\ type \notin NotTheClients =>
                               charge = 0 /\ gen = [p \in Providers |-> "none"]
                         /\ code \in RetryableCodes => attempts # <<>> /\ charge >= Prompt
                         /\ status = (IF streaming /\ attempts # <<>> THEN 200 ELSE HttpStatusOf(code))
  BY DEF ErrorsAreHonest, Errored, Endings
<1>. DEFINE code == ending[1]
<1>1. RouterTypeOK /\ Untouched /\ OnPrimary /\ OnSecondary
  BY DEF ChatInv, RouterInv
<1>2. CASE /\ state = "new" /\ stage = "over" /\ status = HttpStatusOf(code)
           /\ code \in DOMAIN ErrorTable \ RetryableCodes
           /\ charge = 0 \/ code = "INTERNAL_ERROR"
  <2>1. attempts = <<>> /\ gen = [p \in Providers |-> "none"]
    BY <1>1, <1>2 DEF RouterTypeOK, Untouched, OnPrimary, Providers
  <2>2. ErrorType(code) \notin NotTheClients => charge = 0
    BY <1>2, ErrorCodes
  <2>. QED
    BY <1>2, <2>1, <2>2
<1>3. CASE /\ state = "raised" /\ code = coerce(error) /\ charge >= Prompt
           /\ status = (IF streaming THEN 200 ELSE HttpStatusOf(code))
  <2>1. attempts # <<>>
    BY <1>1, <1>3 DEF OnPrimary, OnSecondary, RouterTypeOK, Providers
  <2>2. ErrorType(code) \in NotTheClients
    <3>1. CASE error \in Failures
      BY <1>3, <3>1, ErrorCodes, Coerced, CCAssumption DEF Failures
    <3>2. CASE error \in {"none", "unnormalised"}
      BY <1>3, <3>2, ErrorCodes DEF coerce
    <3>. QED
      BY <1>1, <3>1, <3>2 DEF RouterTypeOK
  <2>. QED
    BY <1>3, <2>1, <2>2
<1>4. CASE /\ state = "returned" /\ ~streaming /\ code = "INTERNAL_ERROR"
           /\ status = HttpStatusOf(code)
  BY <1>4, ErrorCodes, OwnCodes
<1>. QED
  BY <1>2, <1>3, <1>4 DEF ChatInv, Blamed

\* A client that is told of its own error has paid nothing and asked nobody; one
\* that is told of the models' has at least paid its prompt (common/errors.py:
\* ErrorBody.type).
THEOREM ErrorsTellTheTruth == Spec => []ErrorsAreHonest
BY HonestNow, ChatInvariant, PTL

-----------------------------------------------------------------------------
(* The handler, with router, redactor and client, gives one answer.        *)

\* The mapping of OneAnswer's source and outcome.
Source == IF made[provider] = 0 THEN Primary ELSE provider
Told == IF ending = <<>> THEN "open"
        ELSE IF ending[1] \in {"final", "document"} THEN "complete" ELSE "failed"

\* What the client has is the beginning of what the source has made.
Beginning ==
    /\ text = [i \in 1..Len(text) |-> <<Source, i>>]
    /\ Len(text) \in 0..made[provider]
    /\ carry = <<>> /\ ~Waiting => Len(text) = made[provider]
    /\ made[provider] \in Nat /\ Source \in Providers

LEMMA TextBegins == ChatInv => Beginning
<1>. SUFFICES ASSUME ChatInv PROVE Beginning
  OBVIOUS
<1>1. /\ text \in Parts /\ Len(text) \in Nat /\ Len(carry) \in Nat /\ made[provider] \in Nat
      /\ provider \in Providers
  BY TextTypes DEF HandlerTypes
<1>2. /\ Len(text) + Len(carry) = (IF Waiting THEN made[provider] - 1 ELSE made[provider])
      /\ \A i \in 1..Len(text) : text[i] = <<provider, i>>
  BY DEF ChatInv, InOrder
<1>3. Len(text) \in 0..made[provider] /\ (Len(text) # 0 => made[provider] # 0)
  BY <1>1, <1>2
<1>4. carry = <<>> /\ ~Waiting => Len(text) = made[provider]
  BY <1>1, <1>2
<1>5. Len(text) # 0 => Source = provider
  BY <1>3 DEF Source
<1>6. text = [i \in 1..Len(text) |-> text[i]]
  BY <1>1 DEF Parts
<1>7. \A i \in 1..Len(text) : text[i] = <<Source, i>>
  BY <1>1, <1>2, <1>5
<1>8. text = [i \in 1..Len(text) |-> <<Source, i>>]
  BY ONLY <1>6, <1>7
<1>. QED
  BY <1>1, <1>3, <1>4, <1>8 DEF Beginning, Source, Providers

\* Steps that the promise does not see.
LEMMA Unseen ==
    ASSUME Told' = Told, text' = text,
           UNCHANGED <<made, provider>>
    PROVE  UNCHANGED Promise!answerVars
BY DEF Told, Promise!answerVars

\* An error is told.
LEMMA ToldOfFailure ==
    ASSUME ending = <<>>, NEW exc, ending' = <<coerce(exc)>>, UNCHANGED <<text, made, provider>>
    PROVE  Promise!AnswerNext
<1>1. ending' # <<>> /\ ending'[1] \notin {"final", "document"}
  BY Coerced DEF Endings
<1>. QED
  BY <1>1 DEF Promise!AnswerNext, Promise!Fail

\* Text is given to the client.
LEMMA TextGoes ==
    ASSUME Beginning, Beginning', ending = <<>>, ending' = <<>>,
           UNCHANGED <<made, provider>>, Len(text) <= Len(text')
    PROVE  Promise!AnswerNext
<1>. DEFINE n == Len(text')
<1>1. /\ n \in 0..made[provider] /\ n \in Len(text)..made[provider]
      /\ text' = [i \in 1..n |-> <<Source, i>>]
  BY DEF Beginning, Source
<1>2. Promise!Deliver(n)
  BY <1>1 DEF Promise!Deliver, Source
<1>. QED
  BY <1>1, <1>2 DEF Promise!AnswerNext

\* The answer is called complete.
LEMMA ToldOfEnd ==
    ASSUME Beginning', ending = <<>>, ending' \in {<<"final">>, <<"document">>},
           UNCHANGED <<made, provider>>, carry' = <<>>, ~Waiting'
    PROVE  Promise!AnswerNext
<1>1. text' = [i \in 1..made[provider] |-> <<Source, i>>]
  BY DEF Beginning, Source
<1>2. ending' # <<>> /\ ending'[1] \in {"final", "document"}
  OBVIOUS
<1>3. Promise!Complete
  BY <1>1, <1>2 DEF Promise!Complete, Source
<1>. QED
  BY <1>3 DEF Promise!AnswerNext

\* A provider's piece is produced before anybody has it.
LEMMA PieceProduced ==
    ASSUME ChatInv, UNCHANGED chatVars, stage = "pulling", OpenText \/ ReadText
    PROVE  Promise!AnswerNext
<1>1. ending = <<>> /\ ending' = <<>> /\ text' = text /\ provider \in Providers
      /\ made \in [Providers -> 0..MaxEvents] /\ MaxEvents \in Nat
  BY TextTypes, MRAssumption DEF ChatInv, Places, Silent, chatVars, pieces, told, RouterTypeOK
<1>2. made'[provider] = made[provider] + 1 /\ provider' = provider
  BY <1>1 DEF OpenText, ReadText, YieldsText
<1>3. made[provider] \in Nat /\ made[provider] + 1 # 0
  BY <1>1
<1>4. Promise!Produce(provider)
  BY <1>1, <1>2, <1>3 DEF Promise!Produce
<1>. QED
  BY <1>1, <1>4 DEF Promise!AnswerNext

\* The router's other steps produce nothing, the secondary's start included.
LEMMA NothingProduced ==
    ASSUME ChatInv, UNCHANGED chatVars, RouterWorks, ~OpenText, ~ReadText
    PROVE  UNCHANGED Promise!answerVars
<1>1. text' = text /\ ending' = ending /\ made' = made
  BY DEF RouterWorks, chatVars, pieces, told, Open, Read, OpenTimeout, OpenEmpty, OpenGatewayError,
     OpenOtherException, OpenFails, FailOver, OpenRaises, OpenDone, ReadDone, ReadRaises, Ends, YieldsDone
<1>2. provider' = provider \/ (state = "opening" /\ provider = Primary /\ provider' = Secondary)
  BY DEF RouterWorks, Open, Read, OpenTimeout, OpenEmpty, OpenGatewayError, OpenOtherException,
     OpenFails, FailOver, OpenRaises, OpenDone, ReadDone, ReadRaises
<1>3. provider' # provider => made[provider] = 0 /\ made[provider'] = 0
  BY <1>2 DEF ChatInv, RouterInv, NothingYet, OnPrimary
<1>. QED
  BY <1>1, <1>3 DEF Promise!answerVars

\* The redactor takes nothing back.
LEMMA GuardGrows ==
    ASSUME ChatInv, GuardText
    PROVE  Len(text) <= Len(text')
<1>. DEFINE held == Append(carry, <<offer.from, offer.n>>)
<1>1. PICK k \in 0..Len(held) : text' = text \o SubSeq(held, 1, k)
  BY DEF GuardText
<1>2. held \in Parts /\ text \in Parts
  BY NextPiece, TextTypes DEF GuardText, Waiting, HandlerTypes
<1>. DEFINE S == Providers \X (1..MaxEvents)
            front == SubSeq(held, 1, k)
<1>3. held \in Seq(S) /\ text \in Seq(S)
  BY <1>2 DEF Parts
<1>. HIDE DEF held, S
<1>4. front \in Seq(S) /\ Len(front) = k /\ k \in Nat
  BY <1>3, HeldTypes
<1>. HIDE DEF front
<1>5. Len(text \o front) = Len(text) + Len(front) /\ Len(text) \in Nat
  <2>1. Len(text \o front) = Len(text) + Len(front)
    BY <1>3, <1>4, ConcatProperties, Zenon
  <2>. QED
    BY <1>3, <2>1
<1>. QED
  BY <1>1, <1>4, <1>5 DEF front

LEMMA PromiseStep ==
    ChatInv /\ Beginning /\ ChatInv' /\ Beginning' /\ [Next]_vars
        => [Promise!AnswerNext]_(Promise!answerVars)
<1>. SUFFICES ASSUME ChatInv, Beginning, ChatInv', Beginning', [Next]_vars
              PROVE  [Promise!AnswerNext]_(Promise!answerVars)
  OBVIOUS
<1>1. ASSUME UNCHANGED <<text, ending, made, provider>>
      PROVE  UNCHANGED Promise!answerVars
  BY <1>1, Unseen DEF Told
<1>2. CASE ReadFails \/ Unauthenticated \/ Invalid \/ AugmentFails \/ RateLimited \/ LimiterRaises
  <2>1. ending = <<>>
    BY <1>2 DEF ReadFails, Unauthenticated, Invalid, Authenticated, AugmentFails, RateLimited,
       LimiterRaises, ChatInv, Places, Early, Silent
  <2>2. PICK exc : Fail(exc) /\ UNCHANGED <<text, made, provider>>
    BY <1>2 DEF ReadFails, Unauthenticated, Invalid, AugmentFails, RateLimited, LimiterRaises,
       pieces, routerVars
  <2>. QED
    BY <2>1, <2>2, ToldOfFailure DEF Fail
<1>3. CASE Accept \/ Augmented \/ Admitted \/ StartBody \/ CloseBody
  BY <1>1, <1>3 DEF Accept, Augmented, Admitted, Answering, StartBody, CloseBody, pieces, told,
     routerVars, Start
<1>4. CASE RouterWorks
  BY <1>4, PieceProduced, NothingProduced DEF RouterWorks
<1>5. CASE GuardText
  <2>1. stage = "pulling" /\ ending = <<>> /\ ending' = <<>> /\ UNCHANGED <<made, provider>>
    BY <1>5 DEF GuardText, told, Resume, routerVars, ChatInv, Places, Silent
  <2>2. Len(text) <= Len(text')
    BY <1>5, GuardGrows
  <2>. QED
    BY <2>1, <2>2, TextGoes
<1>6. CASE GuardDone
  <2>1. ending = <<>> /\ ending' \in {<<>>, <<"final">>} /\ UNCHANGED <<made, provider>>
        /\ carry' = <<>> /\ ~Waiting /\ text' = text \o carry /\ state' = "returned"
    BY <1>6 DEF GuardDone, Complete, Resume, ChatInv, Places, Silent, Waiting
  <2>2. CASE ending' = <<>>
    <3>1. Len(text) <= Len(text')
      BY <2>1, LetAllGo, TextTypes
    <3>. QED
      BY <2>1, <2>2, <3>1, TextGoes
  <2>3. CASE ending' = <<"final">>
    BY <2>1, <2>3, ToldOfEnd DEF Waiting
  <2>. QED
    BY <2>1, <2>2, <2>3
<1>7. CASE RouterFailed
  <2>1. ending = <<>> /\ ending' = <<coerce(error)>> /\ UNCHANGED <<text, made, provider>>
    BY <1>7 DEF RouterFailed, Fail, ChatInv, Places, Silent, pieces, routerVars
  <2>. QED
    BY <2>1, ToldOfFailure
<1>8. CASE SendText
  BY <1>1, <1>8 DEF SendText, Start, Resume, pieces, told
<1>9. CASE Finish
  <2>1. ending = <<>> /\ ending' = <<"final">> /\ UNCHANGED <<text, made, provider>>
        /\ carry' = <<>> /\ ~Waiting'
    BY <1>9 DEF Finish, Complete, ChatInv, Places, Tallied, Waiting, pieces, routerVars
  <2>. QED
    BY <2>1, ToldOfEnd
<1>10. CASE SendEnd
  <2>1. ending # <<>> /\ ending' # <<>> /\ ending'[1] = ending[1] /\ UNCHANGED <<text, made, provider>>
    <3>1. ending \in Frames /\ ending # <<>> /\ ending # <<"document">>
      BY <1>10, Types DEF SendEnd, ChatInv, HandlerTypes, Places
    <3>2. PICK e \in {"final"} \cup DOMAIN ErrorTable : ending = <<e>> \/ ending = <<e, "[DONE]">>
      BY <3>1, FrameTypes
    <3>3. ending[1] = e /\ ending' = <<e, "[DONE]">>
      <4>1. CASE ending = <<e>>
        BY <1>10, <4>1 DEF SendEnd
      <4>2. CASE ending = <<e, "[DONE]">>
        <5>1. Len(ending) # 1
          BY <4>2
        <5>. QED
          BY <1>10, <4>2, <5>1 DEF SendEnd
      <4>. QED
        BY <3>2, <4>1, <4>2
    <3>. QED
      BY <1>10, <3>1, <3>3 DEF SendEnd, pieces, routerVars
  <2>. QED
    BY <2>1, Unseen DEF Told
<1>11. CASE Settle
  <2>1. CASE streaming
    BY <1>1, <1>11, <2>1 DEF Settle, pieces, routerVars
  <2>2. CASE ~streaming
    <3>1. ending = <<>> /\ ending' = <<"document">> /\ UNCHANGED <<text, made, provider>>
          /\ carry' = <<>> /\ ~Waiting'
      BY <1>11, <2>2 DEF Settle, ChatInv, Places, Silent, Tallied, Waiting, pieces, routerVars
    <3>. QED
      BY <3>1, ToldOfEnd
  <2>. QED
    BY <2>1, <2>2
<1>12. CASE SettleFails
  <2>1. CASE streaming
    BY <1>1, <1>12, <2>1 DEF SettleFails, pieces, told, routerVars
  <2>2. CASE ~streaming
    <3>1. ending = <<>> /\ Fail("OperationalError") /\ UNCHANGED <<text, made, provider>>
      BY <1>12, <2>2 DEF SettleFails, ChatInv, Places, Silent, pieces, routerVars
    <3>. QED
      BY <3>1, ToldOfFailure DEF Fail
  <2>. QED
    BY <2>1, <2>2
<1>13. CASE Disconnect
  BY <1>1, <1>13 DEF Disconnect, DisconnectStarting, DisconnectPulling, DisconnectSending, Leaves,
     Cancelled, Ends, Forgotten, pieces, routerVars
<1>14. CASE CloseRest
  BY <1>1, <1>14 DEF CloseRest, Release, CloseRouter, CloseProvider, Ends, chatVars, pieces, told
<1>15. CASE Stops \/ UNCHANGED vars
  BY <1>1, <1>15 DEF Stops, vars, chatVars, pieces, told, routerVars
<1>. QED
  BY <1>2, <1>3, <1>4, <1>5, <1>6, <1>7, <1>8, <1>9, <1>10, <1>11, <1>12, <1>13, <1>14, <1>15
     DEF Next, HandlerStep

\* Whatever fails, falls back, is held back by the redactor or disconnects: the
\* client's text is, in order and without a gap, the beginning of what one
\* provider produced, it is called complete only when it is all of that, and
\* nothing follows the end.
THEOREM ChatImplementsOneAnswer == Spec => ImplementsOneAnswer
<1>1. Init => Promise!AnswerInit
  BY DEF Init, RouterInit, Promise!AnswerInit, Providers
<1>2. Spec => []Beginning
  BY TextBegins, ChatInvariant, PTL
<1>. QED
  BY <1>1, <1>2, PromiseStep, ChatInvariant, PTL DEF Spec, ImplementsOneAnswer, Promise!AnswerSpec
=============================================================================
