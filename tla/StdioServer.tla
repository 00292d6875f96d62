----------------------------- MODULE StdioServer -----------------------------
(***************************************************************************)
(* The MCP server of mcp_server/server.py, which a client spawns and talks *)
(* to over stdin and stdout.  The SDK runs the handler of every tools/call *)
(* in a task of its own, so that calls overlap where a handler awaits: in  *)
(* the search of the knowledge base (KnowledgeSearch).                     *)
(*                                                                         *)
(* Every call is one of the Searches, whether it searches or not.          *)
(***************************************************************************)
EXTENDS KnowledgeSearch, ToolDispatcher, Errors, FiniteSets

CONSTANT Asks   \* what a call may ask for: its tool, valid arguments, a customer

VARIABLES
    catalogue,  \* the names tools/list tells
    answer,     \* answer[s]: the answers to call s
    ledger      \* the calls that recorded a refund, in order

serverVars == <<catalogue, answer, ledger>>
allVars == <<serverVars, vars>>

\* The search is registered if the corpus directory is there when the process
\* starts.
build_default_deps == \E search \in {{}, {SearchTool}} : catalogue = {Lookup, Refund} \cup search

ServerInit ==
    /\ Init
    /\ build_default_deps
    /\ answer = [s \in Searches |-> <<>>]
    /\ ledger = <<>>

-----------------------------------------------------------------------------
\* A JSON-RPC error, and the result of a tool.
McpError(code) == [error |-> JsonRpcCode(code), isError |-> FALSE]
CallToolResult(isError) == [error |-> 0, isError |-> isError]

Reply(s, frame) == answer' = [answer EXCEPT ![s] = Append(@, frame)]

Arrives(s) == place[s] = "idle" /\ answer[s] = <<>>

(* on_call_tool, up to where the handler awaits. *)

\* (Validating the amount of a refund may raise something else than invalid params,
\* when float() overflows.)
Reject(s, r) ==
    /\ Arrives(s)
    /\ \/ /\ Dispatch(catalogue, r) = "method not found"
          /\ Reply(s, McpError("METHOD_NOT_FOUND"))
       \/ /\ Dispatch(catalogue, r) = "invalid params"
          /\ \/ Reply(s, McpError("INVALID_PARAMS"))
             \/ r.tool = Refund /\ Reply(s, McpError("INTERNAL_ERROR"))
    /\ UNCHANGED <<catalogue, ledger, vars>>

Handle(s, r) ==
    LET outcome == Dispatch(catalogue, r) IN
    /\ Arrives(s)
    /\ outcome \in {"result", "refused", "receipt"}
    /\ ledger' = IF outcome = "receipt" THEN Append(ledger, s) ELSE ledger
    /\ Reply(s, CallToolResult(outcome = "refused"))
    /\ UNCHANGED <<catalogue, vars>>

Await(s, r) ==
    /\ Arrives(s)
    /\ Dispatch(catalogue, r) = "awaits"
    /\ Search(s)
    /\ UNCHANGED serverVars

Work(s) == SearchStep(s) /\ UNCHANGED serverVars

Cancel(s) == CancelWaiting(s) /\ UNCHANGED serverVars

\* Mutant of Finish: an exception of a handler is left to the SDK.
FinishRaising(s) ==
    /\ place[s] \in Over /\ answer[s] = <<>>
    /\ Reply(s, IF place[s] = "failed" THEN McpError("INTERNAL_ERROR") ELSE CallToolResult(FALSE))
    /\ UNCHANGED <<catalogue, ledger, vars>>

\* The handler has returned or raised; the dispatcher makes a result of either.
\* (How a call that its client has cancelled is answered is up to the SDK.)
Finish(s) ==
    /\ place[s] \in Over /\ answer[s] = <<>>
    /\ Reply(s, CallToolResult(place[s] = "failed"))
    /\ UNCHANGED <<catalogue, ledger, vars>>

-----------------------------------------------------------------------------
\* Every call is answered; the server goes on reading.
Reads == (\A s \in Searches : answer[s] # <<>>) /\ UNCHANGED allVars

ServerNext ==
    \/ \E s \in Searches :
          \/ \E r \in Asks : Reject(s, r) \/ Handle(s, r) \/ Await(s, r)
          \/ Work(s)
          \/ Cancel(s)
          \/ Finish(s)
    \/ Reads

\* The event loop runs the handlers; the embedder and the database answer or
\* raise in the end.
ServerFairness == \A s \in Searches : WF_allVars(Work(s)) /\ WF_allVars(Finish(s))

FairSpec == ServerInit /\ [][ServerNext]_allVars /\ ServerFairness

-----------------------------------------------------------------------------
\* A failure is that of one call: a build that fails takes none of the searches
\* with it that wait for it, unless a cancelled BEGIN has locked the file. To the
\* client it is the result of a tool; a protocol error never comes from a call that
\* reached a handler.
FailuresAreIsolated ==
    /\ Cardinality({s \in Searches : place[s] = "failed"}) <= failures \/ orphan
    /\ \A s \in Searches : \A i \in DOMAIN answer[s] :
          /\ answer[s][i].isError => place[s] \in {"idle", "failed"}
          /\ answer[s][i].error # 0 => place[s] = "idle" /\ \A k \in DOMAIN ledger : ledger[k] # s

\* Every search that has begun is answered: a build that fails or is cancelled
\* leaves the lock, and the next search builds.
EverySearchEnds == \A s \in Searches : place[s] = "waiting" ~> answer[s] # <<>>
=============================================================================
