----------------------------- MODULE MCRetrieval -----------------------------
(* Many single documents to be cut; a few corpora to be searched.            *)
EXTENDS Retrieval, TLC

CONSTANTS d1, d2, d3, d4, t1, t2

MCTenantOf == d1 :> t1 @@ d2 :> t1 @@ d3 :> t1 @@ d4 :> t2
MCTypeOf == d1 :> "faq" @@ d2 :> "faq" @@ d3 :> "policy" @@ d4 :> "faq"
MCGrowth == d1 :> 0 @@ d2 :> 3 @@ d3 :> -1 @@ d4 :> 0

\* The id of d1 is the end of that of d2; and the first passage of d3 speaks of
\* another document's, of its own next one, and of another tenant's.
MCNamedIn ==
    {<<<<d1, i>>, <<d2, i>>>> : i \in 1..12}
    \cup {<<id, <<d3, 1>>>> : id \in {<<d1, 2>>, <<d3, 2>>, <<d4, 1>>}}

Paragraphs == {<<1>>, <<3>>, <<6>>, <<8>>, <<2, 3>>, <<4, 4>>, <<2, 7>>}
Single == {d1 :> t @@ [d \in {d2, d3, d4} |-> <<>>] :
              t \in UNION {[1..n -> Paragraphs] : n \in 0..4}}

Long == <<<<5>>, <<5>>, <<6>>>>
Short == <<<<3>>, <<4>>>>
Corpus == [{d1, d2, d3} -> {Long, Short}]

\* A query ranks by document or by index first, either way round.
Rank == [{d1, d2, d3} -> 0..2]
ByDocument(r) == [d \in Documents |-> [i \in 1..12 |-> IF d = d4 THEN 9 ELSE 2 * r[d] - i + 3]]
ByIndex(r) == [d \in Documents |-> [i \in 1..12 |-> IF d = d4 THEN 9 ELSE r[d] + 4 - 2 * i]]
Query(score, k, type) == [tenant |-> t1, type |-> type, topK |-> k, score |-> score]
Queries == {Query(score, k, type) :
                score \in {ByDocument(r) : r \in Rank} \cup {ByIndex(r) : r \in Rank},
                k \in {0, 1, 2, 4, 5}, type \in {"any", "faq"}}

MCCases ==
    [corpus : {c @@ d4 :> Short : c \in Corpus}, request : Queries]
    \cup [corpus : Single, request : {Query(ByIndex([d \in Documents |-> 0]), 1, "any")}]
=============================================================================
