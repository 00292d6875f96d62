---------------------------- MODULE ToolDispatcher ----------------------------
(***************************************************************************)
(* ToolDispatcher.call of mcp_server/registry.py with the handlers of      *)
(* build_dispatcher and the rules of the refund ledger: what becomes of a  *)
(* tools/call, by the tool, its arguments and its customer.                *)
(***************************************************************************)
CONSTANT StatusOf       \* StatusOf[customer]: "active", "suspended" or "unknown"

Lookup == "get_customer_record"
Refund == "trigger_refund"
SearchTool == "search_knowledge_base"
ResetKey == "admin_reset_key"

\* The tool is looked up, then its arguments are validated, then its handler is
\* called. Only that of a search awaits something. (What else than invalid params a
\* validation may raise is up to the server: Reject of StdioServer, Spoil of ToolServer.)
Dispatch(registered, r) ==
    IF r.tool \notin registered THEN "method not found"
    ELSE IF ~r.valid THEN "invalid params"
    ELSE CASE r.tool = Refund ->
                IF StatusOf[r.customer] = "active" THEN "receipt" ELSE "refused"
           [] r.tool = Lookup ->
                IF StatusOf[r.customer] = "unknown" THEN "refused" ELSE "result"
           [] r.tool = ResetKey -> "result"
           [] r.tool = SearchTool -> "awaits"
=============================================================================
