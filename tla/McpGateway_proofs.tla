-------------------------- MODULE McpGateway_proofs --------------------------
(***************************************************************************)
(* Proofs about McpGateway, for any calls, requests, roles, size of the    *)
(* pool and patience.                                                      *)
(*                                                                         *)
(* A client and the tool server know of each other only through the        *)
(* gateway.  CallOK ties what the client was told and what the audit trail *)
(* says to what the server has seen of the call and may still see of it;   *)
(* the properties are read off it.                                         *)
(***************************************************************************)
EXTENDS McpGateway, TLAPS

\* Answers given before a call can be sent, and after it was without a reply.
Refusals == {"too large", "internal", "unauthenticated", "parse error",
             "invalid request", "denied", "not in policy"}
Doubts == {"timeout", "unavailable", "protocol"}
Outcomes == Replies \ Foreign

Events == [outcome : {"denied", "forwarded"}, called : BOOLEAN]
Answers == [status : {0, 200, 400, 401, 413},
            kind : {"none", "stray"} \cup Refusals \cup Doubts \cup Outcomes,
            id : BOOLEAN]

\* TypeOK with the whole type of the answers and of the audit trail.
GatewayTypes ==
    /\ request \in [Calls -> Requests]
    /\ inbox \subseteq Calls
    /\ invocations \in Seq(Calls)
    /\ ledger \in Seq(Calls)
    /\ reply \in [Calls -> Replies \cup {None}]
    /\ stage \in [Calls -> {"reading", "pooled", "sent", "done"}]
    /\ answer \in [Calls -> Answers]
    /\ audit \in [Calls -> Seq(Events)]
    /\ quiet \in [Calls -> 0..Patience]
    /\ drips \in BOOLEAN

\* Only what is permitted is in the pool or was sent.
Admitted(c) ==
    /\ stage[c] \in {"pooled", "sent"} => Permitted(request[c])
    /\ Reaches(c) => Permitted(request[c]) /\ stage[c] \in {"sent", "done"}

\* The server handles a call at most once, and records exactly the refunds whose
\* outcome is a receipt; what came back unspoiled is that outcome.
Handled(c) ==
    /\ c \in inbox => c \notin ToSet(invocations)
    /\ c \in ToSet(ledger) <=> c \in ToSet(invocations) /\ Outcome(request[c]) = "receipt"
    /\ reply[c] \in Outcomes => c \in ToSet(invocations) /\ reply[c] = Outcome(request[c])

\* Where the handler stands decides what its client and the audit trail know.
Pending(c) ==
    /\ stage[c] # "done"
    /\ answer[c] = NoAnswer
    /\ audit[c] = <<>>

Refused(c) ==
    /\ stage[c] = "done"
    /\ answer[c].kind \in Refusals
    /\ ~Reaches(c)
    /\ Len(audit[c]) <= 1
    /\ \A i \in DOMAIN audit[c] : ~audit[c][i].called

Doubted(c) ==
    /\ stage[c] = "done"
    /\ answer[c].kind \in Doubts /\ answer[c].status = 200
    /\ audit[c] = <<>>

Served(c) ==
    /\ stage[c] = "done"
    /\ answer[c].kind \in Outcomes /\ answer[c].status = 200
    /\ answer[c].kind = Outcome(request[c])
    /\ c \in ToSet(invocations)
    /\ Len(audit[c]) = 1
    /\ \A i \in DOMAIN audit[c] : audit[c][i].called

\* Something else answered in the server's place.
Strayed(c) ==
    /\ stage[c] = "done"
    /\ answer[c].kind = "stray" /\ answer[c].status = 200
    /\ Len(audit[c]) = 1
    /\ \A i \in DOMAIN audit[c] : audit[c][i].called

Known(c) == Pending(c) \/ Refused(c) \/ Doubted(c) \/ Served(c) \/ Strayed(c)

CallOK(c) == Admitted(c) /\ Handled(c) /\ Known(c)

GatewayInv == GatewayTypes /\ \A c \in Calls : CallOK(c)

-----------------------------------------------------------------------------
LEMMA AppendToSet ==
    ASSUME NEW S, NEW s \in Seq(S), NEW e \in S
    PROVE  /\ Append(s, e) \in Seq(S)
           /\ ToSet(Append(s, e)) = ToSet(s) \cup {e}
<1>1. /\ Append(s, e) \in Seq(S) /\ Len(s) \in Nat
      /\ DOMAIN s = 1..Len(s) /\ DOMAIN Append(s, e) = 1..(Len(s) + 1)
      /\ \A i \in 1..Len(s) : Append(s, e)[i] = s[i]
      /\ Append(s, e)[Len(s) + 1] = e
  OBVIOUS
<1>2. ASSUME NEW x PROVE x \in ToSet(Append(s, e)) <=> x \in ToSet(s) \cup {e}
  <2>1. x \in ToSet(Append(s, e)) <=> \E i \in 1..(Len(s) + 1) : Append(s, e)[i] = x
    BY <1>1 DEF ToSet
  <2>2. x \in ToSet(s) <=> \E i \in 1..Len(s) : s[i] = x
    BY <1>1 DEF ToSet
  <2>. QED
    BY ONLY <1>1, <2>1, <2>2
<1>. QED
  BY ONLY <1>1, <1>2

LEMMA OneEvent ==
    ASSUME NEW e
    PROVE  /\ Len(Append(<<>>, e)) = 1
           /\ \A i \in DOMAIN Append(<<>>, e) : Append(<<>>, e)[i] = e
OBVIOUS

\* What the server decides is one of the outcomes; it has no search tool, the
\* only one whose handler awaits something.
LEMMA OutcomeIsReply ==
    ASSUME NEW r \in Requests
    PROVE  Outcome(r) \in Outcomes
<1>1. CASE r.method \in Plain
  BY <1>1, Zenon DEF Outcome, Plain, Outcomes, Replies, Foreign, Broken
<1>2. CASE r.method = "tools/call"
  <2>1. r.method \notin Plain
    BY <1>2 DEF Plain
  <2>2. Outcome(r) = Dispatch(Registered, r)
    BY <1>2, <2>1, Zenon DEF Outcome
  <2>3. r.valid \in BOOLEAN
    BY TSAssumption
  <2>4. Dispatch(Registered, r) \in {"method not found", "invalid params", "receipt",
                                    "refused", "result"}
    <3>1. CASE r.tool \notin Registered \/ ~r.valid
      BY <3>1, Zenon DEF Dispatch
    <3>2. CASE r.tool = Refund /\ r.valid
      <4>1. r.tool \in Registered /\ r.tool # Lookup /\ r.tool # ResetKey /\ r.tool # SearchTool
        BY <3>2 DEF Registered, Refund, Lookup, ResetKey, SearchTool
      <4>. QED
        BY <3>2, <4>1, Zenon DEF Dispatch
    <3>3. CASE r.tool = Lookup /\ r.valid
      <4>1. r.tool \in Registered /\ r.tool # Refund /\ r.tool # ResetKey /\ r.tool # SearchTool
        BY <3>3 DEF Registered, Refund, Lookup, ResetKey, SearchTool
      <4>. QED
        BY <3>3, <4>1, Zenon DEF Dispatch
    <3>4. CASE r.tool = ResetKey /\ r.valid
      <4>1. r.tool \in Registered /\ r.tool # Refund /\ r.tool # Lookup /\ r.tool # SearchTool
        BY <3>4 DEF Registered, Refund, Lookup, ResetKey, SearchTool
      <4>. QED
        BY <3>4, <4>1, Zenon DEF Dispatch
    <3>. QED
      BY <2>3, <3>1, <3>2, <3>3, <3>4 DEF Registered
  <2>. QED
    BY <2>2, <2>4 DEF Outcomes, Replies, Foreign, Broken
<1>3. CASE r.method \notin Plain /\ r.method # "tools/call"
  BY <1>3, Zenon DEF Outcome, Outcomes, Replies, Foreign, Broken
<1>. QED
  BY <1>1, <1>2, <1>3

LEMMA KindsApart ==
    /\ Refusals \cap Doubts = {} /\ Refusals \cap Outcomes = {} /\ Doubts \cap Outcomes = {}
    /\ {"none", "stray"} \cap (Refusals \cup Doubts \cup Outcomes) = {}
BY DEF Refusals, Doubts, Outcomes, Replies, Foreign, Broken

LEMMA StatusType ==
    /\ \A kind : HttpStatus(kind) \in {0, 200, 400, 401, 413}
    /\ \A kind \in Doubts \cup Outcomes \cup {"stray"} : HttpStatus(kind) = 200
<1>1. ASSUME NEW kind PROVE HttpStatus(kind) \in {0, 200, 400, 401, 413}
  <2>1. CASE kind = "unauthenticated"
    <3>1. HttpStatus(kind) = 401
      <4>1. kind # "too large" /\ kind \notin {"parse error", "invalid request"}
        BY <2>1
      <4>. QED
        BY <2>1, <4>1, Zenon DEF HttpStatus
    <3>. QED
      BY <3>1
  <2>2. CASE kind = "too large"
    <3>1. HttpStatus(kind) = 413
      <4>1. kind # "unauthenticated" /\ kind \notin {"parse error", "invalid request"}
        BY <2>2
      <4>. QED
        BY <2>2, <4>1, Zenon DEF HttpStatus
    <3>. QED
      BY <3>1
  <2>3. CASE kind \in {"parse error", "invalid request"}
    <3>1. HttpStatus(kind) = 400
      <4>1. kind # "unauthenticated" /\ kind # "too large"
        BY <2>3
      <4>. QED
        BY <2>3, <4>1, Zenon DEF HttpStatus
    <3>. QED
      BY <3>1
  <2>4. CASE kind \notin {"unauthenticated", "too large", "parse error", "invalid request"}
    <3>1. HttpStatus(kind) = 200
      <4>1. /\ kind # "unauthenticated" /\ kind # "too large"
            /\ kind \notin {"parse error", "invalid request"}
        BY <2>4
      <4>. QED
        BY <4>1, Zenon DEF HttpStatus
    <3>. QED
      BY <3>1
  <2>. QED
    BY <2>1, <2>2, <2>3, <2>4
<1>2. ASSUME NEW kind \in Doubts \cup Outcomes \cup {"stray"} PROVE HttpStatus(kind) = 200
  <2>1. kind \notin {"unauthenticated", "too large", "parse error", "invalid request"}
    BY DEF Doubts, Outcomes, Replies, Foreign, Broken
  <2>. QED
    BY <2>1, Zenon DEF HttpStatus
<1>. QED
  BY <1>1, <1>2

LEMMA GatewayInit == Init => GatewayInv
<1>. SUFFICES ASSUME Init PROVE GatewayInv
  OBVIOUS
<1>1. GatewayTypes
  BY MGAssumption DEF Init, GatewayTypes, NoAnswer, Answers
<1>2. ASSUME NEW c \in Calls PROVE CallOK(c)
  <2>1. reply[c] \notin Outcomes
    BY TSAssumption DEF Init, Outcomes
  <2>2. c \notin inbox /\ ToSet(invocations) = {} /\ ToSet(ledger) = {}
    BY DEF Init, ToSet
  <2>. QED
    BY <2>1, <2>2 DEF Init, CallOK, Admitted, Handled, Known, Pending, Reaches
<1>. QED
  BY <1>1, <1>2 DEF GatewayInv

-----------------------------------------------------------------------------
(* The steps, by what they do to the handler of the call.                  *)

\* Everything a call's part of the invariant is about.
Same(d) ==
    /\ request'[d] = request[d] /\ stage'[d] = stage[d]
    /\ answer'[d] = answer[d] /\ audit'[d] = audit[d] /\ reply'[d] = reply[d]
    /\ d \in inbox' <=> d \in inbox
    /\ d \in ToSet(invocations') <=> d \in ToSet(invocations)
    /\ d \in ToSet(ledger') <=> d \in ToSet(ledger)

LEMMA SameStaysOK ==
    ASSUME NEW d \in Calls, CallOK(d), Same(d)
    PROVE  CallOK(d)'
BY DEF Same, CallOK, Admitted, Handled, Known, Pending, Refused, Doubted, Served, Strayed, Reaches

\* The handler answers, without an audit event.
LEMMA ErrorStep ==
    ASSUME GatewayInv, NEW c \in Calls, NEW kind,
           Error(c, kind), UNCHANGED serverVars,
           \/ stage[c] = "reading" /\ kind \in Refusals
           \/ stage[c] \in {"pooled", "sent"} /\ kind \in Doubts
    PROVE  GatewayInv'
<1>1. /\ stage' = [stage EXCEPT ![c] = "done"]
      /\ answer' = [answer EXCEPT ![c] = [status |-> HttpStatus(kind), kind |-> kind, id |-> FALSE]]
      /\ UNCHANGED <<request, audit, quiet, drips, inbox, invocations, ledger, reply>>
  BY DEF Error, Answer, serverVars
<1>2. GatewayTypes'
  <2>1. [status |-> HttpStatus(kind), kind |-> kind, id |-> FALSE] \in Answers
    BY StatusType DEF Answers
  <2>. QED
    BY <1>1, <2>1 DEF GatewayInv, GatewayTypes
<1>3. ASSUME NEW d \in Calls PROVE CallOK(d)'
  <2>1. CASE d # c
    BY <1>1, <2>1, SameStaysOK DEF Same, GatewayInv, GatewayTypes
  <2>2. CASE d = c
    <3>1. Pending(c) /\ Admitted(c) /\ Handled(c)
      BY KindsApart DEF GatewayInv, CallOK, Known, Pending, Refused, Doubted, Served, Strayed
    <3>2. /\ stage'[c] = "done" /\ answer'[c].kind = kind
          /\ answer'[c].status = HttpStatus(kind) /\ audit'[c] = <<>>
      BY <1>1, <3>1 DEF GatewayInv, GatewayTypes, Pending
    <3>3. Admitted(c)' /\ Handled(c)'
      BY <1>1, <3>1, <3>2 DEF Admitted, Handled, Reaches
    <3>4. Known(c)'
      <4>1. CASE stage[c] = "reading" /\ kind \in Refusals
        BY <1>1, <3>1, <3>2, <4>1 DEF Known, Refused, Admitted, Reaches
      <4>2. CASE stage[c] \in {"pooled", "sent"} /\ kind \in Doubts
        BY <1>1, <3>1, <3>2, <4>2, StatusType DEF Known, Doubted
      <4>. QED
        BY <4>1, <4>2
    <3>. QED
      BY <2>2, <3>3, <3>4 DEF CallOK
  <2>. QED
    BY <2>1, <2>2
<1>. QED
  BY <1>2, <1>3 DEF GatewayInv

\* The handler answers and writes its audit event.
LEMMA AuditStep ==
    ASSUME GatewayInv, NEW c \in Calls, NEW kind, NEW outcome \in {"denied", "forwarded"},
           NEW called \in BOOLEAN, NEW id \in BOOLEAN,
           Audit(c, outcome, called), Answer(c, kind, id),
           UNCHANGED <<quiet, drips, request, serverVars>>,
           \/ stage[c] = "reading" /\ kind \in Refusals /\ ~called
           \/ stage[c] = "sent" /\ kind \in Outcomes /\ kind = reply[c] /\ called
           \/ stage[c] = "sent" /\ kind = "stray" /\ called
    PROVE  GatewayInv'
<1>. DEFINE e == [outcome |-> outcome, called |-> called]
<1>1. /\ stage' = [stage EXCEPT ![c] = "done"]
      /\ answer' = [answer EXCEPT ![c] = [status |-> HttpStatus(kind), kind |-> kind, id |-> id]]
      /\ audit' = [audit EXCEPT ![c] = Append(audit[c], e)]
      /\ UNCHANGED <<request, quiet, drips, inbox, invocations, ledger, reply>>
  BY DEF Audit, Answer, serverVars, GatewayInv, GatewayTypes
<1>2. GatewayTypes'
  <2>1. [status |-> HttpStatus(kind), kind |-> kind, id |-> id] \in Answers
    BY StatusType DEF Answers
  <2>2. Append(audit[c], e) \in Seq(Events)
    <3>1. e \in Events /\ audit[c] \in Seq(Events)
      BY DEF Events, GatewayInv, GatewayTypes
    <3>. QED
      BY <3>1, AppendToSet
  <2>3. audit' \in [Calls -> Seq(Events)]
    <3>1. audit \in [Calls -> Seq(Events)]
      BY DEF GatewayInv, GatewayTypes
    <3>. QED
      BY ONLY <1>1, <2>2, <3>1
  <2>4. answer' \in [Calls -> Answers]
    <3>1. answer \in [Calls -> Answers]
      BY DEF GatewayInv, GatewayTypes
    <3>. QED
      BY ONLY <1>1, <2>1, <3>1
  <2>. QED
    BY <1>1, <2>3, <2>4 DEF GatewayInv, GatewayTypes
<1>3. ASSUME NEW d \in Calls PROVE CallOK(d)'
  <2>1. CASE d # c
    BY <1>1, <2>1, SameStaysOK DEF Same, GatewayInv, GatewayTypes
  <2>2. CASE d = c
    <3>1. Pending(c) /\ Admitted(c) /\ Handled(c)
      BY KindsApart DEF GatewayInv, CallOK, Known, Pending, Refused, Doubted, Served, Strayed
    <3>2. /\ stage'[c] = "done" /\ answer'[c].kind = kind
          /\ answer'[c].status = HttpStatus(kind) /\ audit'[c] = Append(<<>>, e)
      BY <1>1, <3>1 DEF GatewayInv, GatewayTypes, Pending
    <3>3. Len(audit'[c]) = 1 /\ \A i \in DOMAIN audit'[c] : audit'[c][i].called = called
      BY <3>2, OneEvent
    <3>4. Admitted(c)' /\ Handled(c)'
      BY <1>1, <3>1, <3>2 DEF Admitted, Handled, Reaches
    <3>5. Known(c)'
      <4>1. CASE stage[c] = "reading" /\ kind \in Refusals /\ ~called
        BY <1>1, <3>1, <3>2, <3>3, <4>1 DEF Known, Refused, Admitted, Reaches
      <4>2. CASE stage[c] = "sent" /\ kind \in Outcomes /\ kind = reply[c] /\ called
        BY <1>1, <3>1, <3>2, <3>3, <4>2, StatusType DEF Known, Served, Handled
      <4>3. CASE stage[c] = "sent" /\ kind = "stray" /\ called
        BY <3>2, <3>3, <4>3, StatusType DEF Known, Strayed
      <4>. QED
        BY <4>1, <4>2, <4>3
    <3>. QED
      BY <2>2, <3>4, <3>5 DEF CallOK
  <2>. QED
    BY <2>1, <2>2
<1>. QED
  BY <1>2, <1>3 DEF GatewayInv

\* The handler goes on, or waits, without an answer.
LEMMA ForwardingStep ==
    ASSUME GatewayInv, NEW c \in Calls,
           Forward(c) \/ Send(c) \/ Pass(c) \/ Drip(c)
    PROVE  GatewayInv'
<1>1. CASE Forward(c)
  <2>1. /\ stage[c] = "reading" /\ Permitted(request[c])
        /\ stage' = [stage EXCEPT ![c] = "pooled"]
        /\ UNCHANGED <<request, answer, audit, quiet, drips, inbox, invocations, ledger, reply>>
    BY <1>1 DEF Forward, Parsed, Read, Permitted, serverVars
  <2>2. GatewayTypes'
    BY <2>1 DEF GatewayInv, GatewayTypes
  <2>3. ASSUME NEW d \in Calls PROVE CallOK(d)'
    <3>1. CASE d # c
      BY <2>1, <3>1, SameStaysOK DEF Same, GatewayInv, GatewayTypes
    <3>2. CASE d = c
      <4>1. stage'[c] = "pooled" /\ CallOK(c)
        BY <2>1 DEF GatewayInv, GatewayTypes
      <4>. QED
        BY <2>1, <3>2, <4>1 DEF CallOK, Admitted, Handled, Known, Pending, Refused,
           Doubted, Served, Strayed, Reaches
    <3>. QED
      BY <3>1, <3>2
  <2>. QED
    BY <2>2, <2>3 DEF GatewayInv
<1>2. CASE Send(c)
  <2>1. /\ stage[c] = "pooled" /\ stage' = [stage EXCEPT ![c] = "sent"]
        /\ quiet' = [quiet EXCEPT ![c] = 0] /\ inbox' = inbox \cup {c}
        /\ UNCHANGED <<request, answer, audit, drips, invocations, ledger, reply>>
    BY <1>2 DEF Send
  <2>2. GatewayTypes'
    BY <2>1, MGAssumption DEF GatewayInv, GatewayTypes
  <2>3. ASSUME NEW d \in Calls PROVE CallOK(d)'
    <3>1. CASE d # c
      BY <2>1, <3>1, SameStaysOK DEF Same, GatewayInv, GatewayTypes
    <3>2. CASE d = c
      <4>1. stage'[c] = "sent" /\ CallOK(c)
        BY <2>1 DEF GatewayInv, GatewayTypes
      <4>. QED
        BY <2>1, <3>2, <4>1 DEF CallOK, Admitted, Handled, Known, Pending, Refused,
           Doubted, Served, Strayed, Reaches
    <3>. QED
      BY <3>1, <3>2
  <2>. QED
    BY <2>2, <2>3 DEF GatewayInv
<1>3. CASE Pass(c) \/ Drip(c)
  <2>1. UNCHANGED <<request, stage, answer, audit, drips, inbox, invocations, ledger, reply>>
    BY <1>3 DEF Pass, Drip, serverVars
  <2>2. GatewayTypes'
    <3>1. quiet \in [Calls -> 0..Patience] /\ Patience \in Nat
      BY MGAssumption DEF GatewayInv, GatewayTypes
    <3>2. quiet' \in [Calls -> 0..Patience]
      <4>1. CASE Pass(c)
        <5>1. quiet[c] < Patience /\ quiet' = [quiet EXCEPT ![c] = quiet[c] + 1]
          BY <4>1, <3>1 DEF Pass
        <5>2. quiet[c] + 1 \in 0..Patience
          BY <3>1, <5>1
        <5>. QED
          BY ONLY <3>1, <5>1, <5>2
      <4>2. CASE Drip(c)
        BY <3>1, <4>2 DEF Drip
      <4>. QED
        BY <1>3, <4>1, <4>2
    <3>. QED
      BY <2>1, <3>2 DEF GatewayInv, GatewayTypes
  <2>3. ASSUME NEW d \in Calls PROVE CallOK(d)'
    BY <2>1, SameStaysOK DEF Same, GatewayInv
  <2>. QED
    BY <2>2, <2>3 DEF GatewayInv
<1>. QED
  BY <1>1, <1>2, <1>3

LEMMA HandleStep ==
    ASSUME GatewayInv, NEW c \in Calls, Handle(c), UNCHANGED <<request, gatewayVars>>
    PROVE  GatewayInv'
<1>1. /\ c \in inbox /\ inbox' = inbox \ {c}
      /\ invocations' = Append(invocations, c)
      /\ ledger' = IF Outcome(request[c]) = "receipt" THEN Append(ledger, c) ELSE ledger
      /\ reply' = [reply EXCEPT ![c] = IF reply[c] = None THEN Outcome(request[c]) ELSE reply[c]]
      /\ UNCHANGED <<request, stage, answer, audit, quiet, drips>>
  BY DEF Handle, gatewayVars, GatewayInv, GatewayTypes
<1>2. Outcome(request[c]) \in Outcomes
  BY OutcomeIsReply DEF GatewayInv, GatewayTypes
<1>3. /\ invocations' \in Seq(Calls) /\ ToSet(invocations') = ToSet(invocations) \cup {c}
      /\ ledger' \in Seq(Calls)
      /\ ToSet(ledger') = IF Outcome(request[c]) = "receipt"
                          THEN ToSet(ledger) \cup {c} ELSE ToSet(ledger)
  <2>1. invocations \in Seq(Calls) /\ ledger \in Seq(Calls)
    BY DEF GatewayInv, GatewayTypes
  <2>2. /\ Append(invocations, c) \in Seq(Calls) /\ Append(ledger, c) \in Seq(Calls)
        /\ ToSet(Append(invocations, c)) = ToSet(invocations) \cup {c}
        /\ ToSet(Append(ledger, c)) = ToSet(ledger) \cup {c}
    BY ONLY <2>1, AppendToSet, c \in Calls
  <2>. QED
    BY <1>1, <2>1, <2>2
<1>4. GatewayTypes'
  <2>1. reply' \in [Calls -> Replies \cup {None}]
    BY <1>1, <1>2 DEF GatewayInv, GatewayTypes, Outcomes
  <2>. QED
    BY <1>1, <1>3, <2>1 DEF GatewayInv, GatewayTypes
<1>5. ASSUME NEW d \in Calls PROVE CallOK(d)'
  <2>1. CASE d # c
    BY <1>1, <1>3, <2>1, SameStaysOK DEF Same, GatewayInv, GatewayTypes
  <2>2. CASE d = c
    <3>1. CallOK(c) /\ c \in inbox /\ c \notin ToSet(invocations) /\ c \notin ToSet(ledger)
      BY <1>1 DEF GatewayInv, CallOK, Handled
    <3>2. reply'[c] \in Outcomes => reply'[c] = Outcome(request[c])
      BY <1>1, <3>1 DEF GatewayInv, GatewayTypes, CallOK, Handled
    <3>3. Handled(c)' /\ Admitted(c)'
      BY <1>1, <1>3, <3>1, <3>2 DEF Handled, CallOK, Admitted, Reaches
    <3>4. Known(c)'
      BY <1>1, <1>3, <3>1 DEF CallOK, Known, Pending, Refused, Doubted, Served, Strayed, Reaches
    <3>. QED
      BY <2>2, <3>3, <3>4 DEF CallOK
  <2>. QED
    BY <2>1, <2>2
<1>. QED
  BY <1>4, <1>5 DEF GatewayInv

LEMMA LoseStep ==
    ASSUME GatewayInv, NEW c \in Calls, Lose(c), UNCHANGED <<request, gatewayVars>>
    PROVE  GatewayInv'
<1>1. /\ inbox' = inbox \ {c}
      /\ UNCHANGED <<request, stage, answer, audit, quiet, drips, invocations, ledger, reply>>
  BY DEF Lose, gatewayVars
<1>2. GatewayTypes'
  BY <1>1 DEF GatewayInv, GatewayTypes
<1>3. ASSUME NEW d \in Calls PROVE CallOK(d)'
  BY <1>1 DEF GatewayInv, CallOK, Admitted, Handled, Known, Pending, Refused, Doubted,
     Served, Strayed, Reaches
<1>. QED
  BY <1>2, <1>3 DEF GatewayInv

LEMMA SpoilStep ==
    ASSUME GatewayInv, NEW c \in Calls, Spoil(c), UNCHANGED <<request, gatewayVars>>
    PROVE  GatewayInv'
<1>1. PICK other \in Foreign : reply' = [reply EXCEPT ![c] = other]
  BY DEF Spoil
<1>2. UNCHANGED <<request, stage, answer, audit, quiet, drips, inbox, invocations, ledger>>
  BY DEF Spoil, gatewayVars
<1>3. GatewayTypes'
  BY <1>1, <1>2 DEF GatewayInv, GatewayTypes, Replies
<1>4. ASSUME NEW d \in Calls PROVE CallOK(d)'
  <2>1. reply'[d] \in Outcomes => reply'[d] = reply[d]
    BY <1>1 DEF GatewayInv, GatewayTypes, Outcomes
  <2>. QED
    BY <1>2, <2>1 DEF GatewayInv, CallOK, Admitted, Handled, Known, Pending, Refused,
       Doubted, Served, Strayed, Reaches
<1>. QED
  BY <1>3, <1>4 DEF GatewayInv

LEMMA GatewayStepOK == GatewayInv /\ [Next]_vars => GatewayInv'
<1>. SUFFICES ASSUME GatewayInv, [Next]_vars PROVE GatewayInv'
  OBVIOUS
<1>1. ASSUME NEW c \in Calls, GatewayStep(c) PROVE GatewayInv'
  <2>1. CASE TooLarge(c)
    BY <2>1, ErrorStep DEF TooLarge, Refusals
  <2>2. CASE BodyFails(c)
    BY <2>2, ErrorStep DEF BodyFails, Refusals
  <2>3. CASE Unauthenticated(c)
    BY <2>3, ErrorStep DEF Unauthenticated, Read, Refusals
  <2>4. CASE Malformed(c)
    BY <2>4, ErrorStep DEF Malformed, Read, Refusals
  <2>5. CASE Deny(c)
    BY <2>5, AuditStep DEF Deny, Parsed, Read, Refusals
  <2>6. CASE Forward(c) \/ Send(c) \/ Pass(c) \/ Drip(c)
    BY <2>6, ForwardingStep
  <2>7. CASE Timeout(c)
    BY <2>7, ErrorStep DEF Timeout, Doubts
  <2>8. CASE ConnectionFails(c)
    BY <2>8, ErrorStep DEF ConnectionFails, Doubts
  <2>9. CASE BadReply(c)
    BY <2>9, ErrorStep DEF BadReply, Doubts
  <2>10. CASE GoodReply(c)
    <3>1. reply[c] \in Outcomes \cup {"stray"} /\ stage[c] = "sent"
      BY <2>10 DEF GoodReply, Outcomes, Replies, Foreign, Broken
    <3>. QED
      BY <2>10, <3>1, AuditStep DEF GoodReply
  <2>. QED
    BY <1>1, <2>1, <2>2, <2>3, <2>4, <2>5, <2>6, <2>7, <2>8, <2>9, <2>10 DEF GatewayStep
<1>2. ASSUME NEW c \in Calls, ServerStep(c) PROVE GatewayInv'
  BY <1>2, HandleStep, LoseStep, SpoilStep DEF ServerStep
<1>3. CASE UNCHANGED vars
  <2>1. GatewayTypes'
    BY <1>3 DEF vars, gatewayVars, serverVars, GatewayInv, GatewayTypes
  <2>2. ASSUME NEW d \in Calls PROVE CallOK(d)'
    BY <1>3, SameStaysOK DEF Same, vars, gatewayVars, serverVars, GatewayInv
  <2>. QED
    BY <2>1, <2>2 DEF GatewayInv
<1>. QED
  BY <1>1, <1>2, <1>3 DEF Next, Quiet

THEOREM GatewayInvariant == Spec => []GatewayInv
BY GatewayInit, GatewayStepOK, PTL DEF Spec

\* The type invariant of the gateway and of the tool server behind it.
THEOREM GatewayTypeCorrect == Spec => []TypeOK
<1>1. ASSUME GatewayInv, NEW c \in Calls PROVE Len(audit[c]) <= 1
  <2>1. CASE Pending(c) \/ Doubted(c)
    BY <2>1 DEF Pending, Doubted
  <2>2. CASE Refused(c)
    BY <2>2 DEF Refused
  <2>3. CASE Served(c) \/ Strayed(c)
    <3>1. Len(audit[c]) = 1
      BY <2>3 DEF Served, Strayed
    <3>. QED
      BY ONLY <3>1
  <2>. QED
    BY <1>1, <2>1, <2>2, <2>3 DEF GatewayInv, CallOK, Known
<1>2. ASSUME GatewayInv, NEW c \in Calls
      PROVE  answer[c].status \in {0, 200, 400, 401, 413} /\ answer[c].id \in BOOLEAN
  BY <1>2 DEF GatewayInv, GatewayTypes, Answers
<1>3. GatewayInv => TypeOK
  BY <1>1, <1>2 DEF GatewayInv, GatewayTypes, TypeOK
<1>. QED
  BY <1>3, GatewayInvariant, PTL

-----------------------------------------------------------------------------
(* What the gateway lets through, and what it says of it.                  *)

\* What reaches the tool server, now or later, was let through by the whole
\* pipeline, is not answered with an HTTP error and not audited as denied.
THEOREM OnlyPermittedCallsReach == Spec => []OnlyPermittedReach
<1>1. GatewayInv => OnlyPermittedReach
  BY DEF GatewayInv, CallOK, Admitted, Known, Pending, Refused, Doubted, Served, Strayed,
     NoAnswer, OnlyPermittedReach
<1>. QED
  BY <1>1, GatewayInvariant, PTL

\* An audit event says "called" only of a call the tool server has handled, or in
\* whose place something else answered; a denied call never reaches the server; and
\* the server's own outcome is never handed on without its event.
THEOREM AuditTellsTheTruth == Spec => []AuditIsTrue
<1>1. ASSUME GatewayInv, NEW c \in Calls
      PROVE  /\ \A i \in DOMAIN audit[c] :
                   IF audit[c][i].called
                   THEN c \in ToSet(invocations) \/ answer[c].kind = "stray"
                   ELSE ~Reaches(c)
             /\ answer[c].kind \in Outcomes => Len(audit[c]) = 1 /\ audit[c][1].called
  <2>1. CallOK(c) /\ audit[c] \in Seq(Events)
    BY <1>1 DEF GatewayInv, GatewayTypes
  <2>2. CASE Pending(c)
    BY <2>2, KindsApart DEF Pending, NoAnswer
  <2>3. CASE Refused(c)
    BY <2>3, KindsApart DEF Refused
  <2>4. CASE Doubted(c)
    BY <2>4, KindsApart DEF Doubted
  <2>5. CASE Served(c)
    BY <2>1, <2>5 DEF Served
  <2>6. CASE Strayed(c)
    BY <2>6, KindsApart DEF Strayed
  <2>. QED
    BY <2>1, <2>2, <2>3, <2>4, <2>5, <2>6 DEF CallOK, Known
<1>2. GatewayInv => AuditIsTrue
  BY <1>1 DEF AuditIsTrue, Outcomes
<1>. QED
  BY <1>2, GatewayInvariant, PTL

-----------------------------------------------------------------------------
(* Gateway and tool server together are one refund desk.                   *)

\* What a client has been told, by where its handler stands.
LEMMA WhatIsTold ==
    ASSUME NEW c \in Calls, CallOK(c)
    PROVE  /\ Told(c) \in {"nothing", "receipt", "no receipt", "unknown"}
           /\ Told(c) = "nothing" <=> stage[c] # "done"
           /\ Told(c) = "receipt" => c \in ToSet(ledger)
           /\ Told(c) = "no receipt" => ~Reaches(c) \/ c \in ToSet(invocations)
           /\ Told(c) = "no receipt" => c \notin ToSet(ledger)
<1>1. CASE Pending(c)
  BY <1>1 DEF Pending, Told, NoAnswer
<1>2. CASE Refused(c)
  <2>1. Told(c) = "no receipt" /\ stage[c] = "done" /\ ~Reaches(c)
    BY <1>2 DEF Refused, Refusals, Told
  <2>2. c \notin ToSet(ledger)
    BY <2>1 DEF CallOK, Handled, Reaches
  <2>. QED
    BY <2>1, <2>2
<1>3. CASE Doubted(c)
  BY <1>3 DEF Doubted, Doubts, Told
<1>4. CASE Served(c)
  <2>1. /\ stage[c] = "done" /\ c \in ToSet(invocations)
        /\ Told(c) = IF Outcome(request[c]) = "receipt" THEN "receipt" ELSE "no receipt"
    BY <1>4 DEF Served, Outcomes, Replies, Foreign, Broken, Told
  <2>2. c \in ToSet(ledger) <=> Outcome(request[c]) = "receipt"
    BY <2>1 DEF CallOK, Handled
  <2>. QED
    BY <2>1, <2>2
<1>5. CASE Strayed(c)
  BY <1>5 DEF Strayed, Told
<1>. QED
  BY <1>1, <1>2, <1>3, <1>4, <1>5 DEF CallOK, Known

\* An answer tells its client something, once.
LEMMA AnswerTells ==
    ASSUME GatewayInv, GatewayInv', NEW c \in Calls, NEW kind, NEW id,
           Answer(c, kind, id), stage[c] # "done", UNCHANGED ledger
    PROVE  Desk!DeskNext
<1>1. /\ stage' = [stage EXCEPT ![c] = "done"]
      /\ answer' = [answer EXCEPT ![c] = [status |-> HttpStatus(kind), kind |-> kind, id |-> id]]
  BY DEF Answer
<1>2. CallOK(c) /\ CallOK(c)' /\ stage'[c] = "done"
  BY <1>1 DEF GatewayInv, GatewayTypes
<1>3. Told(c) = "nothing"
  BY <1>2, WhatIsTold
<1>4. /\ Told(c)' \in {"receipt", "no receipt", "unknown"}
      /\ Told(c)' = "receipt" => c \in ToSet(ledger')
      /\ Told(c)' = "no receipt" => c \notin ToSet(ledger')
  BY <1>2, KindsApart DEF CallOK, Handled, Known, Pending, Refused, Doubted, Served, Strayed, Told,
     NoAnswer, Reaches, Refusals, Doubts, Outcomes, Replies, Foreign, Broken
<1>5. \A d \in Calls : d # c => Told(d)' = Told(d)
  BY <1>1 DEF GatewayInv, GatewayTypes, Told
<1>6. Desk!Tell(c, Told(c)')
  <2>. DEFINE told == [d \in Calls |-> Told(d)]
  <2>1. told' = [d \in Calls |-> Told(d)']
    OBVIOUS
  <2>2. told' = [told EXCEPT ![c] = Told(c)']
    <3>. HIDE DEF Told
    <3>1. \A d \in Calls : told'[d] = IF d = c THEN Told(c)' ELSE Told(d)
      BY <1>5, <2>1
    <3>. QED
      BY <2>1, <3>1
  <2>3. told[c] = "nothing"
    BY <1>3
  <2>4. /\ Told(c)' = "receipt" => c \in Desk!ToSet(ledger)
        /\ Told(c)' = "no receipt" => c \notin Desk!ToSet(ledger)
    <3>. HIDE DEF Told
    <3>. QED
      BY <1>4 DEF ToSet, Desk!ToSet
  <2>. QED
    BY <2>2, <2>3, <2>4 DEF Desk!Tell
<1>. QED
  BY <1>4, <1>6 DEF Desk!DeskNext

\* A call whose refund is being recorded has been told nothing, or that nobody
\* knows; any other call the server handles leaves the desk as it is.
LEMMA HandleRecords ==
    ASSUME GatewayInv, NEW c \in Calls, Handle(c), UNCHANGED <<request, gatewayVars>>
    PROVE  [Desk!DeskNext]_(Desk!deskVars)
<1>. DEFINE told == [d \in Calls |-> Told(d)]
<1>1. told' = told
  BY DEF gatewayVars, Told
<1>2. CASE Outcome(request[c]) = "receipt"
  <2>1. c \in inbox /\ ledger' = Append(ledger, c) /\ CallOK(c)
    BY <1>2 DEF Handle, GatewayInv
  <2>2. c \notin ToSet(invocations) /\ c \notin ToSet(ledger) /\ Reaches(c)
    BY <2>1 DEF CallOK, Handled, Reaches
  <2>3. Told(c) \in {"nothing", "unknown"}
    BY <2>1, <2>2, WhatIsTold
  <2>4. c \notin Desk!ToSet(ledger)
    BY <2>2 DEF ToSet, Desk!ToSet
  <2>5. told[c] \in {"nothing", "unknown"}
    BY <2>3
  <2>6. Desk!Record(c)
    BY <1>1, <2>1, <2>4, <2>5 DEF Desk!Record
  <2>. QED
    BY <2>6 DEF Desk!DeskNext
<1>3. CASE Outcome(request[c]) # "receipt"
  BY <1>1, <1>3 DEF Handle, Desk!deskVars
<1>. QED
  BY <1>2, <1>3

LEMMA DeskStep == GatewayInv /\ GatewayInv' /\ [Next]_vars => [Desk!DeskNext]_(Desk!deskVars)
<1>. SUFFICES ASSUME GatewayInv, GatewayInv', [Next]_vars
              PROVE  [Desk!DeskNext]_(Desk!deskVars)
  OBVIOUS
<1>. DEFINE told == [d \in Calls |-> Told(d)]
<1>1. ASSUME UNCHANGED <<answer, ledger>> PROVE UNCHANGED Desk!deskVars
  <2>1. told' = told
    BY <1>1 DEF Told
  <2>. QED
    BY <1>1, <2>1 DEF Desk!deskVars
<1>2. ASSUME NEW c \in Calls, GatewayStep(c) PROVE [Desk!DeskNext]_(Desk!deskVars)
  <2>1. CASE Forward(c) \/ Send(c) \/ Pass(c) \/ Drip(c)
    BY <1>1, <2>1 DEF Forward, Send, Pass, Drip, serverVars
  <2>2. CASE \/ TooLarge(c) \/ BodyFails(c) \/ Unauthenticated(c) \/ Malformed(c)
             \/ Timeout(c) \/ ConnectionFails(c) \/ BadReply(c)
    BY <2>2, AnswerTells DEF TooLarge, BodyFails, Unauthenticated, Malformed, Read, Timeout,
       ConnectionFails, BadReply, Error, serverVars
  <2>3. CASE Deny(c) \/ GoodReply(c)
    BY <2>3, AnswerTells DEF Deny, GoodReply, Parsed, Read, serverVars
  <2>. QED
    BY <1>2, <2>1, <2>2, <2>3 DEF GatewayStep
<1>3. ASSUME NEW c \in Calls, ServerStep(c) PROVE [Desk!DeskNext]_(Desk!deskVars)
  <2>1. CASE Handle(c)
    BY <1>3, <2>1, HandleRecords DEF ServerStep
  <2>2. CASE Lose(c) \/ Spoil(c)
    BY <1>1, <1>3, <2>2 DEF ServerStep, Lose, Spoil, gatewayVars
  <2>. QED
    BY <1>3, <2>1, <2>2 DEF ServerStep
<1>4. CASE UNCHANGED vars
  BY <1>1, <1>4 DEF vars, gatewayVars, serverVars
<1>. QED
  BY <1>2, <1>3, <1>4 DEF Next, Quiet

\* The gateway with the tool server behind it gives its clients what one refund
\* desk would: whatever is lost, late, refused or spoiled in between, a refund is
\* recorded at most once, and what a client was told of it stays true.
THEOREM GatewayImplementsDesk == Spec => ImplementsRefundDesk
<1>1. Init => Desk!DeskInit
  BY DEF Init, Desk!DeskInit, NoAnswer, Told
<1>. QED
  BY <1>1, DeskStep, GatewayInvariant, PTL DEF Spec, ImplementsRefundDesk, Desk!DeskSpec
=============================================================================
