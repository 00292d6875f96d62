---------------------------- MODULE MCMcpGateway ----------------------------
(* Two calls over one connection; every request a stage treats differently.  *)
EXTENDS McpGateway, TLC

CONSTANTS c1, c2

MCRoles == "viewer token" :> "viewer" @@ "admin token" :> "admin" @@ "forged" :> "nobody"
MCStatus == "ada" :> "active" @@ "alan" :> "suspended" @@ "bob" :> "unknown"

Call(token, tool, customer) ==
    [large |-> FALSE, token |-> token, envelope |-> "valid", method |-> "tools/call",
     tool |-> tool, valid |-> TRUE, customer |-> customer]

Ordinary == Call("viewer token", Refund, "ada")

MCRequests ==
    {Ordinary,
     [Ordinary EXCEPT !.large = TRUE],
     [Ordinary EXCEPT !.token = "forged"],
     [Ordinary EXCEPT !.envelope = "unreadable"],
     [Ordinary EXCEPT !.envelope = "invalid"],
     [Ordinary EXCEPT !.method = "ping"],
     [Ordinary EXCEPT !.method = "prompts/list"],
     [Ordinary EXCEPT !.method = "tools/delete"],
     [Ordinary EXCEPT !.tool = "unreadable"],
     [Ordinary EXCEPT !.tool = "refund_all"],
     [Ordinary EXCEPT !.valid = FALSE],
     Call("viewer token", Refund, "alan"),
     Call("viewer token", Lookup, "bob"),
     Call("viewer token", ResetKey, "ada"),
     Call("admin token", ResetKey, "ada")}
=============================================================================
