------------------------------ MODULE ToolServer ------------------------------
(***************************************************************************)
(* The MCP tool server behind the gateway: rpc of mcp_server/http_mock.py  *)
(* with the ToolDispatcher and the ledger of mcp_server/tools/refund.py,   *)
(* as seen over one HTTP connection per call.                              *)
(*                                                                         *)
(* A call that was sent stays in the inbox until the server handles it or  *)
(* it is lost; whoever sent it may have given up by then.                  *)
(***************************************************************************)
EXTENDS ToolDispatcher, Naturals, Sequences, SequencesExt

CONSTANTS
    Calls,          \* HTTP requests
    Requests,       \* what may be in the body of one
    None            \* no reply

VARIABLES
    request,        \* request[c]: what call c asks for
    inbox,          \* calls that are on their way to the server
    invocations,    \* calls the server has seen, in order
    ledger,         \* calls that recorded a refund, in order
    reply           \* reply[c]: what came back over the connection of c

serverVars == <<inbox, invocations, ledger, reply>>

\* The tools the server has registered: no search, and one of its own.
Registered == {Lookup, Refund, ResetKey}

\* Methods the server answers itself.
Plain == {"initialize", "ping", "tools/list"}

-----------------------------------------------------------------------------
Outcome(r) ==
    CASE r.method \in Plain -> "result"
      [] r.method = "tools/call" -> Dispatch(Registered, r)
      [] OTHER -> "method not found"

\* What comes back if it is not an outcome. DownstreamMcpClient.forward refuses a
\* 5xx and a body it cannot use; a JSON object with a status below 500 (a 404 or
\* 429 of a proxy) it takes for the server's reply.
Broken == {"5xx", "unusable"}
Foreign == Broken \cup {"stray"}
Replies == {"result", "receipt", "refused", "invalid params", "method not found"} \cup Foreign

\* Arguments are valid or not, and no reply is not a reply.
ASSUME TSAssumption ==
    /\ \A r \in Requests : r.valid \in BOOLEAN
    /\ None \notin Replies

\* The server handles a call, whether somebody waits for the reply or not. (It
\* parses the envelope as the gateway did; a handler has no await in it.)
Handle(c) ==
    /\ c \in inbox
    /\ inbox' = inbox \ {c}
    /\ invocations' = Append(invocations, c)
    /\ ledger' = IF Outcome(request[c]) = "receipt" THEN Append(ledger, c) ELSE ledger
    /\ reply' = [reply EXCEPT ![c] = IF @ = None THEN Outcome(request[c]) ELSE @]

\* A call that was sent never arrives.
Lose(c) ==
    /\ c \in inbox
    /\ inbox' = inbox \ {c}
    /\ UNCHANGED <<invocations, ledger, reply>>

\* What is in between, or a server that crashes or raises, answers in place of the
\* handler: before it has handled the call or after.
Spoil(c) ==
    /\ \E other \in Foreign : reply' = [reply EXCEPT ![c] = other]
    /\ UNCHANGED <<inbox, invocations, ledger>>
=============================================================================
