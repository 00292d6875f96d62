---------------------------- MODULE MCStdioServer ----------------------------
(* One MCP server, a corpus of two documents, and some calls.                *)
EXTENDS StdioServer, TLC

CONSTANTS w1, t1, d1, d2, s1, s2, s3

MCPieces == "long" :> 2 @@ "short" :> 1
File(d, c) == [tenant |-> t1, doc |-> d, version |-> [content |-> c, settings |-> "a"]]
MCUploads == w1 :> {File(d1, "long"), File(d2, "short")}
MCFiles == w1 :> <<File(d1, "long"), File(d2, "short")>>
MCServerOf == [s \in Searches |-> w1]

\* The condition of the proofs is met.
ASSUME MCCorpora == OwnCorpus

MCStatus == "ada" :> "active" @@ "alan" :> "suspended"
Ask(tool, valid, customer) == [tool |-> tool, valid |-> valid, customer |-> customer]
MCAsks ==
    {Ask(SearchTool, TRUE, "ada"), Ask(SearchTool, FALSE, "ada"), Ask("no_tool", TRUE, "ada"),
     Ask(Refund, TRUE, "ada"), Ask(Refund, TRUE, "alan"), Ask(Lookup, TRUE, "ada")}
=============================================================================
