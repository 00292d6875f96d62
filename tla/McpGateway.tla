------------------------------ MODULE McpGateway ------------------------------
(***************************************************************************)
(* rpc of mcp_gateway/app.py with authenticate, parse_request, authorize   *)
(* and DownstreamMcpClient.forward: a bounded body is read, its sender     *)
(* authenticated, its envelope parsed, the call authorised, forwarded over *)
(* a bounded pool of connections, answered and audited.                    *)
(*                                                                         *)
(* A request handler awaits in two places: the body, and the tool server.  *)
(* httpx limits the time without progress (for a connection, between two   *)
(* pieces of the reply), not the time of a call.                           *)
(***************************************************************************)
EXTENDS ToolServer, FiniteSets

CONSTANTS
    RoleOf,         \* RoleOf[token]: "viewer", "admin" or "nobody"
    PoolSize,       \* connections of the shared client (64)
    Patience        \* ticks without progress until httpx gives up

ASSUME MGAssumption ==
    /\ PoolSize \in Nat \ {0}
    /\ Patience \in Nat \ {0}

VARIABLES
    stage,          \* stage[c]: where the handler of c stands
    answer,         \* answer[c]: the response to c
    audit,          \* audit[c]: the audit events of c
    quiet,          \* quiet[c]: ticks since c's connection made progress
    drips           \* the tool server sends its replies piece by piece

gatewayVars == <<stage, answer, audit, quiet, drips>>
vars == <<request, gatewayVars, serverVars>>

NoAnswer == [status |-> 0, kind |-> "none", id |-> FALSE]

Init ==
    /\ request \in [Calls -> Requests]
    /\ inbox = {}
    /\ invocations = <<>>
    /\ ledger = <<>>
    /\ reply = [c \in Calls |-> None]
    /\ stage = [c \in Calls |-> "reading"]
    /\ answer = [c \in Calls |-> NoAnswer]
    /\ audit = [c \in Calls |-> <<>>]
    /\ quiet = [c \in Calls |-> 0]
    /\ drips \in BOOLEAN

-----------------------------------------------------------------------------
(* Who may do what.                                                        *)

\* METHOD_POLICY: an allowlist. "tools/call" is decided by its tool.
Forwarded == {"initialize", "notifications/initialized", "ping", "tools/list",
              "prompts/list", "resources/list", "resources/read"}

\* Names that begin with the prefix admin_ need the role.
Administrative == {ResetKey, "admin_other"}

Rank(role) == IF role = "admin" THEN 10 ELSE 0
RequiredRole(tool) == IF tool \in Administrative THEN "admin" ELSE "viewer"

\* authorize
Allowed(r) ==
    \/ r.method \in Forwarded
    \/ /\ r.method = "tools/call"
       /\ r.tool # "unreadable"
       /\ Rank(RoleOf[r.token]) >= Rank(RequiredRole(r.tool))

\* What the pipeline lets through as a whole.
Permitted(r) ==
    /\ ~r.large
    /\ RoleOf[r.token] # "nobody"
    /\ r.envelope = "valid"
    /\ Allowed(r)

-----------------------------------------------------------------------------
\* TRANSPORT_LEVEL_STATUS: everything else is an outcome of JSON-RPC.
HttpStatus(kind) ==
    CASE kind = "unauthenticated" -> 401
      [] kind = "too large" -> 413
      [] kind \in {"parse error", "invalid request"} -> 400
      [] OTHER -> 200

Answer(c, kind, id) ==
    /\ stage' = [stage EXCEPT ![c] = "done"]
    /\ answer' = [answer EXCEPT ![c] = [status |-> HttpStatus(kind), kind |-> kind, id |-> id]]

Audit(c, outcome, called) ==
    audit' = [audit EXCEPT ![c] = Append(@, [outcome |-> outcome, called |-> called])]

\* _error_response: the id of the request is not in it.
Error(c, kind) ==
    /\ Answer(c, kind, FALSE)
    /\ UNCHANGED <<audit, quiet, drips, request>>

\* By the declared length or by the bytes that have come.
TooLarge(c) ==
    /\ stage[c] = "reading"
    /\ request[c].large
    /\ Error(c, "too large")
    /\ UNCHANGED serverVars

\* The client goes away while its body is read: an exception nobody expected. (A
\* token that is not ASCII, which compare_digest refuses, ends the same way.)
BodyFails(c) ==
    /\ stage[c] = "reading"
    /\ Error(c, "internal")
    /\ UNCHANGED serverVars

\* The body is there.
Read(c) == stage[c] = "reading" /\ ~request[c].large

Unauthenticated(c) ==
    /\ Read(c)
    /\ RoleOf[request[c].token] = "nobody"
    /\ Error(c, "unauthenticated")
    /\ UNCHANGED serverVars

Malformed(c) ==
    /\ Read(c)
    /\ RoleOf[request[c].token] # "nobody"
    /\ request[c].envelope # "valid"
    /\ Error(c, IF request[c].envelope = "unreadable" THEN "parse error" ELSE "invalid request")
    /\ UNCHANGED serverVars

\* The request is authenticated and parsed.
Parsed(c) ==
    /\ Read(c)
    /\ RoleOf[request[c].token] # "nobody"
    /\ request[c].envelope = "valid"

\* Mutant of Deny: the denial is decided and the call goes on.
DenyAndSend(c) ==
    /\ Parsed(c)
    /\ ~Allowed(request[c])
    /\ Audit(c, "denied", FALSE)
    /\ stage' = [stage EXCEPT ![c] = "pooled"]
    /\ UNCHANGED <<answer, quiet, drips, request, serverVars>>

Deny(c) ==
    /\ Parsed(c)
    /\ ~Allowed(request[c])
    /\ Audit(c, "denied", FALSE)
    /\ Answer(c, IF request[c].method = "tools/call" THEN "denied" ELSE "not in policy", TRUE)
    /\ UNCHANGED <<quiet, drips, request, serverVars>>

\* forward is called and asks the pool for a connection.
Forward(c) ==
    /\ Parsed(c)
    /\ Allowed(request[c])
    /\ stage' = [stage EXCEPT ![c] = "pooled"]
    /\ UNCHANGED <<answer, audit, quiet, drips, request, serverVars>>

\* Mutant of Send: the audit event is written before the call.
SendAudited(c) ==
    /\ stage[c] = "pooled"
    /\ Cardinality({d \in Calls : stage[d] = "sent"}) < PoolSize
    /\ stage' = [stage EXCEPT ![c] = "sent"]
    /\ quiet' = [quiet EXCEPT ![c] = 0]
    /\ inbox' = inbox \cup {c}
    /\ Audit(c, "forwarded", TRUE)
    /\ UNCHANGED <<answer, drips, request, invocations, ledger, reply>>

\* A connection is free: the call is sent.
Send(c) ==
    /\ stage[c] = "pooled"
    /\ Cardinality({d \in Calls : stage[d] = "sent"}) < PoolSize
    /\ stage' = [stage EXCEPT ![c] = "sent"]
    /\ quiet' = [quiet EXCEPT ![c] = 0]
    /\ inbox' = inbox \cup {c}
    /\ UNCHANGED <<answer, audit, drips, request, invocations, ledger, reply>>

Pass(c) ==
    /\ stage[c] \in {"pooled", "sent"}
    /\ quiet[c] < Patience
    /\ quiet' = [quiet EXCEPT ![c] = @ + 1]
    /\ UNCHANGED <<stage, answer, audit, drips, request, serverVars>>

\* A piece of a reply that is not complete.
Drip(c) ==
    /\ drips
    /\ stage[c] = "sent"
    /\ quiet[c] > 0
    /\ quiet' = [quiet EXCEPT ![c] = 0]
    /\ UNCHANGED <<stage, answer, audit, drips, request, serverVars>>

\* Mutant of Timeout: the limit is for a connection, not for the reply.
TimeoutOfPool(c) ==
    /\ stage[c] = "pooled"
    /\ quiet[c] = Patience
    /\ Error(c, "timeout")
    /\ UNCHANGED serverVars

\* httpx.TimeoutException: no connection, or nothing comes. The server may still
\* handle the call.
Timeout(c) ==
    /\ stage[c] \in {"pooled", "sent"}
    /\ quiet[c] = Patience
    /\ Error(c, "timeout")
    /\ UNCHANGED serverVars

\* httpx.HTTPError: no connection can be made, or it breaks.
ConnectionFails(c) ==
    /\ stage[c] = "sent"
    /\ Error(c, "unavailable")
    /\ UNCHANGED serverVars

\* Mutant of BadReply: what cannot be used is taken for a refusal.
BadReplyRefused(c) ==
    /\ stage[c] = "sent"
    /\ reply[c] \in Broken
    /\ Error(c, "refused")
    /\ UNCHANGED serverVars

\* A 5xx, a body over the cap, no JSON, no object.
BadReply(c) ==
    /\ stage[c] = "sent"
    /\ reply[c] \in Broken
    /\ Error(c, IF reply[c] = "5xx" THEN "unavailable" ELSE "protocol")
    /\ UNCHANGED serverVars

\* The reply is handed on as it is, with HTTP 200, whatever status it came with
\* and whether it is JSON-RPC or not.
GoodReply(c) ==
    /\ stage[c] = "sent"
    /\ reply[c] \in Replies \ Broken
    /\ Audit(c, "forwarded", TRUE)
    /\ Answer(c, reply[c], reply[c] # "stray")
    /\ UNCHANGED <<quiet, drips, request, serverVars>>

\* The tool server, and the network between.
ServerStep(c) ==
    /\ Handle(c) \/ Lose(c) \/ (stage[c] = "sent" /\ Spoil(c))
    /\ UNCHANGED <<request, gatewayVars>>

-----------------------------------------------------------------------------
GatewayStep(c) ==
    \/ TooLarge(c)
    \/ BodyFails(c)
    \/ Unauthenticated(c)
    \/ Malformed(c)
    \/ Deny(c)
    \/ Forward(c)
    \/ Send(c)
    \/ Pass(c)
    \/ Drip(c)
    \/ Timeout(c)
    \/ ConnectionFails(c)
    \/ BadReply(c)
    \/ GoodReply(c)

\* Everything is answered and nothing is on its way.
Quiet ==
    /\ \A c \in Calls : stage[c] = "done"
    /\ inbox = {}
    /\ UNCHANGED vars

Next ==
    \/ \E c \in Calls : GatewayStep(c) \/ ServerStep(c)
    \/ Quiet

Spec == Init /\ [][Next]_vars

\* Time goes on, and httpx raises when its limit is reached.
Fairness == \A c \in Calls : WF_vars(Pass(c)) /\ WF_vars(Timeout(c))

FairSpec == Spec /\ Fairness

-----------------------------------------------------------------------------
\* The type invariant.
TypeOK ==
    /\ request \in [Calls -> Requests]
    /\ inbox \subseteq Calls
    /\ invocations \in Seq(Calls)
    /\ ledger \in Seq(Calls)
    /\ reply \in [Calls -> Replies \cup {None}]
    /\ stage \in [Calls -> {"reading", "pooled", "sent", "done"}]
    /\ \A c \in Calls : answer[c].status \in {0, 200, 400, 401, 413} /\ answer[c].id \in BOOLEAN
    /\ \A c \in Calls : Len(audit[c]) <= 1
    /\ quiet \in [Calls -> 0..Patience]
    /\ drips \in BOOLEAN

Reaches(c) == c \in inbox \/ c \in ToSet(invocations)

\* Nothing reaches the tool server, now or later, but what the whole pipeline lets
\* through; in particular nothing that was answered with an HTTP error or that
\* the audit trail says was denied.
OnlyPermittedReach ==
    \A c \in Calls : Reaches(c) =>
        /\ Permitted(request[c])
        /\ answer[c].status \in {0, 200}
        /\ \A i \in DOMAIN audit[c] : audit[c][i].called

\* The audit trail against what the tool server sees of a call. "called" is said
\* only of a call that it has handled, or in whose place something else answered
\* (what it says is handed on as the server's); a denial only of one that it never
\* sees; and a client that was given the server's own outcome has one event.
AuditIsTrue ==
    \A c \in Calls :
        /\ \A i \in DOMAIN audit[c] :
              IF audit[c][i].called
              THEN c \in ToSet(invocations) \/ answer[c].kind = "stray"
              ELSE ~Reaches(c)
        /\ answer[c].kind \in Replies \ Foreign => Len(audit[c]) = 1 /\ audit[c][1].called

\* What the client is told of its refund. (A JSON object of something else is no
\* JSON-RPC response.)
Told(c) ==
    IF answer[c].kind \in {"none"} THEN "nothing"
    ELSE IF answer[c].kind = "receipt" THEN "receipt"
    ELSE IF answer[c].kind \in {"timeout", "unavailable", "protocol", "stray"} THEN "unknown"
    ELSE "no receipt"

\* The gateway and the tool server together give access to refunds as one desk
\* would that records a refund at most once, tells a client it is recorded only
\* if it is, and that it is not only if it never will be, and otherwise says that
\* it does not know.
Desk == INSTANCE RefundDesk WITH
    recorded <- ledger,
    told <- [c \in Calls |-> Told(c)]

ImplementsRefundDesk == Desk!DeskSpec

\* A call that is forwarded is answered, if the tool server does not draw its
\* reply out: whatever it does otherwise, and however full the pool is.
ForwardedCallEnds ==
    \A c \in Calls : stage[c] \in {"pooled", "sent"} /\ ~drips ~> stage[c] = "done"
=============================================================================
