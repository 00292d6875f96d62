--------------------------- MODULE MCRagIngestion ---------------------------
(* Instances of RagIngestion for TLC.  The text "long" is cut into two pieces, *)
(* "short" into one and "blank" into none.                                   *)
EXTENDS RagIngestion, TLC

CONSTANTS w1, w2, t1, t2, d1, d2

Texts == {"long", "short", "blank"}
MCPieces == "long" :> 2 @@ "short" :> 1 @@ "blank" :> 0

Of(t, d, cs) == [tenant : {t}, doc : {d}, version : [content : cs, settings : {"a"}]]
Retitled == [tenant |-> t1, doc |-> d1, version |-> [content |-> "long", settings |-> "b"]]

\* Worker w1 has a document that is edited or gets another title; w1 and w2 have the
\* same copy of another one, w2 for two tenants.
Shared == Of(t1, d2, {"long"})
SharedCorpus ==
    w1 :> (Of(t1, d1, Texts) \cup {Retitled} \cup Shared)
    @@ w2 :> (Shared \cup Of(t2, d2, {"long"}))

\* One document that is edited.
Edited == w1 :> Of(t1, d1, {"long", "short"})
=============================================================================
