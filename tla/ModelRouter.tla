----------------------------- MODULE ModelRouter -----------------------------
(***************************************************************************)
(* ModelRouter of llm_gateway/routing/router.py for one completion: the    *)
(* primary provider is opened under a deadline, the secondary after a      *)
(* retryable failure, and the events of the one that answered are passed   *)
(* on, one for each time the consumer asks.                                *)
(*                                                                         *)
(* The router and the providers are async generators, so there are three   *)
(* parties: the provider, which may answer, end, fail or stay silent       *)
(* whenever it is awaited; the consumer, which asks for the next event, is *)
(* cancelled while it waits, or forgets the router between two events; and *)
(* the interpreter, which closes a generator nobody refers to any more.    *)
(***************************************************************************)
EXTENDS Naturals, Sequences

CONSTANTS
    Primary, Secondary, \* the two providers
    Codes,              \* error codes a provider may raise
    Weights,            \* completion tokens of one text event
    MaxEvents           \* bound: text events one provider emits

\* MODEL_PROVIDER_... : the failures another provider may not have.
RetryableCodes == {"RATE_LIMITED", "TIMEOUT", "UNAVAILABLE", "PROTOCOL_ERROR"}

ASSUME MRAssumption ==
    /\ Primary # Secondary
    /\ "none" \notin Codes /\ "unnormalised" \notin Codes
    /\ Weights \subseteq Nat
    /\ MaxEvents \in Nat

VARIABLES
    state,      \* where the router generator stands
    provider,   \* the provider it is talking to
    gen,        \* gen[p]: the generator of provider p
    offer,      \* the event the router last yielded
    tokens,     \* completion tokens of the events passed on so far
    attempts,   \* the RouteOutcome: providers tried,
    failures,   \* ... error codes of those that failed to answer,
    completion, \* ... completion tokens
    error,      \* what the router raised
    made,       \* made[p]: text events p has produced (history)
    billed      \* billed[p]: the tokens of those events (history)

outcome == <<attempts, failures, completion>>
routerVars == <<state, provider, gen, offer, tokens, outcome, error, made, billed>>

Providers == {Primary, Secondary}

\* "opening" and "reading" await the provider, "offering" is suspended at a
\* yield; "forgotten" is suspended at a yield nobody will resume.
Over == {"returned", "raised", "closed"}
States == {"new", "opening", "reading", "offering", "forgotten"} \cup Over
Alive == {"running", "suspended"}
Failures == Codes \cup RetryableCodes

Text(p, n, w) == [done |-> FALSE, from |-> p, n |-> n, tokens |-> w]
Done(w) == [done |-> TRUE, from |-> provider, n |-> 0, tokens |-> w]

RouterInit ==
    /\ state = "new"
    /\ provider = Primary
    /\ gen = [p \in Providers |-> "none"]
    /\ offer = Done(0)
    /\ tokens = 0
    /\ attempts = <<>> /\ failures = <<>> /\ completion = 0
    /\ error = "none"
    /\ made = [p \in Providers |-> 0]
    /\ billed = [p \in Providers |-> 0]

-----------------------------------------------------------------------------
(* What the awaited provider does.                                         *)

Becomes(status) == gen' = [gen EXCEPT ![provider] = status]

\* It yields a text event of w tokens.
YieldsText(w) ==
    /\ made[provider] < MaxEvents
    /\ made' = [made EXCEPT ![provider] = @ + 1]
    /\ billed' = [billed EXCEPT ![provider] = @ + w]
    /\ Becomes("suspended")

\* It yields its final event, ends, raises or is cancelled.
YieldsDone == Becomes("suspended") /\ UNCHANGED <<made, billed>>
Ends == Becomes("ended") /\ UNCHANGED <<made, billed>>

-----------------------------------------------------------------------------
(* _open: the first event, before the deadline.                            *)

\* The consumer's first request starts the primary.
Start ==
    /\ state = "new"
    /\ state' = "opening"
    /\ attempts' = <<Primary>>
    /\ gen' = [gen EXCEPT ![Primary] = "running"]
    /\ UNCHANGED <<provider, offer, tokens, failures, completion, error, made, billed>>

\* Mutants of FailOver: the primary is not closed, every failure is retried, and
\* the failure is not recorded.
FailOverUnclosed(code) ==
    /\ provider = Primary /\ code \in RetryableCodes
    /\ provider' = Secondary
    /\ attempts' = Append(attempts, Secondary)
    /\ failures' = Append(failures, code)
    /\ gen' = [gen EXCEPT ![Secondary] = "running"]
    /\ UNCHANGED <<state, offer, tokens, completion, error, made, billed>>

FailOverAlways(code) ==
    /\ provider = Primary
    /\ provider' = Secondary
    /\ attempts' = Append(attempts, Secondary)
    /\ failures' = Append(failures, code)
    /\ gen' = [gen EXCEPT ![Primary] = "ended", ![Secondary] = "running"]
    /\ UNCHANGED <<state, offer, tokens, completion, error, made, billed>>

FailOverUnrecorded(code) ==
    /\ provider = Primary /\ code \in RetryableCodes
    /\ provider' = Secondary
    /\ attempts' = Append(attempts, Secondary)
    /\ gen' = [gen EXCEPT ![Primary] = "ended", ![Secondary] = "running"]
    /\ UNCHANGED <<state, offer, tokens, failures, completion, error, made, billed>>

\* The secondary is started: its generator was closed or ended before.
FailOver(code) ==
    /\ provider = Primary /\ code \in RetryableCodes
    /\ provider' = Secondary
    /\ attempts' = Append(attempts, Secondary)
    /\ failures' = Append(failures, code)
    /\ gen' = [gen EXCEPT ![Primary] = "ended", ![Secondary] = "running"]
    /\ UNCHANGED <<state, offer, tokens, completion, error, made, billed>>

\* The failure is not one to retry, or there is nobody left to ask.
OpenRaises(code) ==
    /\ provider = Secondary \/ code \notin RetryableCodes
    /\ state' = "raised"
    /\ error' = code
    /\ failures' = Append(failures, code)
    /\ Ends
    /\ UNCHANGED <<provider, offer, tokens, attempts, completion>>

OpenFails(code) == state = "opening" /\ (FailOver(code) \/ OpenRaises(code))

\* Mutant of OpenTimeout: the secondary has no deadline.
OpenTimeoutPrimary == provider = Primary /\ OpenFails("TIMEOUT")

\* Mutant of OpenEmpty: StopAsyncIteration is not translated.
OpenEmptyRaw == OpenFails("StopAsyncIteration")

\* The deadline cancels the pending anext, then the generator is closed.
OpenTimeout == OpenFails("TIMEOUT")

\* An empty stream, a GatewayError, any other exception.
OpenEmpty == OpenFails("PROTOCOL_ERROR")
OpenGatewayError == \E code \in Codes : OpenFails(code)
OpenOtherException == OpenFails("UNAVAILABLE")

OpenText ==
    /\ state = "opening"
    /\ \E w \in Weights :
          /\ YieldsText(w)
          /\ tokens' = tokens + w
          /\ offer' = Text(provider, made'[provider], w)
    /\ state' = "offering"
    /\ UNCHANGED <<provider, outcome, error>>

\* A first event that is the final one is not passed on; the stream is read on.
OpenDone ==
    /\ state = "opening"
    /\ state' = "reading"
    /\ Becomes("running")
    /\ UNCHANGED <<provider, offer, tokens, outcome, error, made, billed>>

-----------------------------------------------------------------------------
(* stream: the events after the first one.                                 *)

\* The `finally` clause.
KeepCount == completion' = tokens /\ UNCHANGED <<attempts, failures>>

ReadText ==
    /\ state = "reading"
    /\ \E w \in Weights :
          /\ YieldsText(w)
          /\ tokens' = tokens + w
          /\ offer' = Text(provider, made'[provider], w)
    /\ state' = "offering"
    /\ UNCHANGED <<provider, outcome, error>>

\* The provider is done (its generator is left as it is) or just ends; either
\* way the router adds a final event of its own.
ReadDone ==
    /\ state = "reading"
    /\ YieldsDone \/ Ends
    /\ KeepCount
    /\ state' = "offering"
    /\ offer' = Done(tokens)
    /\ UNCHANGED <<provider, tokens, error>>

\* Mutant of ReadRaises: the count is kept by `else`, not by `finally`.
ReadRaisesUncounted ==
    /\ state = "reading"
    /\ Ends
    /\ state' = "raised"
    /\ error' \in Codes \cup {"unnormalised"}
    /\ UNCHANGED <<provider, offer, tokens, outcome>>

\* No failover after the first token. Only a GatewayError is normalised by
\* being one: `except GatewayError: raise` lets anything else through.
ReadRaises ==
    /\ state = "reading"
    /\ Ends
    /\ KeepCount
    /\ state' = "raised"
    /\ error' \in Codes \cup {"unnormalised"}
    /\ UNCHANGED <<provider, offer, tokens>>

-----------------------------------------------------------------------------
(* The consumer.                                                           *)

\* It asks for the next event.
Resume ==
    /\ state = "offering"
    /\ IF offer.done
       THEN state' = "returned" /\ UNCHANGED gen
       ELSE state' = "reading" /\ Becomes("running")
    /\ UNCHANGED <<provider, offer, tokens, outcome, error, made, billed>>

\* Its task is cancelled while the provider is awaited: CancelledError passes
\* through the provider's generator (which ends) and then through the router.
Cancelled ==
    /\ state \in {"opening", "reading"}
    /\ state' = "closed"
    /\ Ends
    /\ IF state = "reading" THEN KeepCount ELSE UNCHANGED outcome
    /\ UNCHANGED <<provider, offer, tokens, error>>

\* Its task is cancelled, or has failed, between two events: nobody closes the
\* router, which is only forgotten.
Forgotten ==
    /\ state = "offering"
    /\ state' = "forgotten"
    /\ UNCHANGED <<provider, gen, offer, tokens, outcome, error, made, billed>>

-----------------------------------------------------------------------------
(* The interpreter closes what nobody refers to (the event loop's hook for *)
(* abandoned asynchronous generators).                                     *)

CloseRouter ==
    /\ state = "forgotten"
    /\ state' = "closed"
    /\ IF offer.done THEN UNCHANGED outcome ELSE KeepCount
    /\ UNCHANGED <<provider, gen, offer, tokens, error, made, billed>>

\* Mutant of CloseProvider: the provider stays referenced after a normal end.
CloseProviderOnCancel ==
    /\ state = "closed"
    /\ gen[provider] = "suspended"
    /\ Ends
    /\ UNCHANGED <<state, provider, offer, tokens, outcome, error>>

CloseProvider ==
    /\ state \in Over
    /\ gen[provider] = "suspended"
    /\ Ends
    /\ UNCHANGED <<state, provider, offer, tokens, outcome, error>>

-----------------------------------------------------------------------------
\* The awaited provider answers, fails or is cancelled by the deadline.
Open ==
    \/ OpenTimeout
    \/ OpenEmpty
    \/ OpenGatewayError
    \/ OpenOtherException
    \/ OpenText
    \/ OpenDone

Read == ReadText \/ ReadDone \/ ReadRaises

Release == CloseRouter \/ CloseProvider

\* The stream is over; nothing need happen any more.
RouterStops ==
    /\ state \in Over
    /\ UNCHANGED routerVars

RouterNext ==
    \/ Start
    \/ Open
    \/ Read
    \/ Resume
    \/ Cancelled
    \/ Forgotten
    \/ Release
    \/ RouterStops

RouterSpec == RouterInit /\ [][RouterNext]_routerVars

\* The deadline of _open fires (asyncio's timer) and the interpreter finalises
\* what is unreachable. A provider may stay silent for ever.
RouterFairness == WF_routerVars(OpenTimeout) /\ WF_routerVars(Release)

RouterFairSpec == RouterSpec /\ RouterFairness

-----------------------------------------------------------------------------
RouterTypeOK ==
    /\ state \in States
    /\ provider \in Providers
    /\ gen \in [Providers -> {"none", "ended"} \cup Alive]
    /\ offer \in [done : BOOLEAN, from : Providers, n : 0..MaxEvents, tokens : Nat]
    /\ tokens \in Nat
    /\ attempts \in Seq(Providers)
    /\ failures \in Seq(Failures)
    /\ completion \in Nat
    /\ error \in Failures \cup {"none", "unnormalised"}
    /\ made \in [Providers -> 0..MaxEvents]
    /\ billed \in [Providers -> Nat]

\* At most one upstream request is open at any time: the primary's is released
\* before the secondary is asked, whatever made the primary fail and whatever
\* the consumer does meanwhile ("the abandoned upstream is really released").
AtMostOneUpstream ==
    \A p, q \in Providers : gen[p] \in Alive /\ gen[q] \in Alive => p = q

\* The secondary is asked only when it may be: the primary failed with a
\* retryable code before it produced any event. (Past that point a failover
\* would restart the answer.)
FailoverJustified ==
    gen[Secondary] # "none" =>
        /\ made[Primary] = 0
        /\ Len(failures) >= 1
        /\ failures[1] \in RetryableCodes

\* However the stream ends - exhausted, failed, cancelled, forgotten between two
\* events - its RouteOutcome counts every token the providers produced for it.
CountKept ==
    state \in Over => completion = billed[Primary] + billed[Secondary]

\* The RouteOutcome tells who failed: every provider tried before the last one
\* has its failure in the list, and the last one only if it failed as well
\* before its first event; nothing was passed on then.
OutcomeTruthful ==
    state \in Over =>
        LET tried == Len(attempts)
            failed == Len(failures)
        IN /\ attempts[tried] = provider
           /\ failed \in {tried - 1, tried}
           /\ failed = tried =>
                 /\ state = "raised" /\ error = failures[failed]
                 /\ \A p \in Providers : made[p] = 0

\* A silent provider does not hold the request for longer than the deadlines.
FirstTokenDeadline == state = "opening" ~> state # "opening"

\* When the stream is over every upstream request is released in the end, also
\* that of a provider the router stopped reading at its final event.
UpstreamReleased ==
    state \in Over \cup {"forgotten"} ~> \A p \in Providers : gen[p] \notin Alive
=============================================================================
