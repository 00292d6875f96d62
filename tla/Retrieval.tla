------------------------------ MODULE Retrieval ------------------------------
(***************************************************************************)
(* RagService.augment: a question is answered from passages.  The store    *)
(* ranks the chunks that the caller may see, the retriever selects some of *)
(* them under a budget, the pipeline puts them into the prompt and cites   *)
(* them.  The chunks are those that Chunking cuts the documents into.      *)
(***************************************************************************)
EXTENDS Chunking

CONSTANTS
    Documents,  \* document ids
    TenantOf,   \* TenantOf[d]
    TypeOf,     \* TypeOf[d]: its document_type
    Growth,     \* Growth[d]: by how much neutralize lengthens a chunk of d
    NamedIn,    \* <<a, b>>: chunk_id a occurs in what the prompt says of chunk b
    Cases,      \* a corpus (a text for each document) and a request
    MaxTopK,    \* RAG_MAX_TOP_K
    MaxContext, \* RAG_MAX_CONTEXT_CHARS
    MinScore    \* MIN_SCORE

ASSUME RVAssumption ==
    /\ IsFiniteSet(Documents)
    /\ \A d \in Documents : Growth[d] \in Int
    /\ \A case \in Cases :
          /\ case.request.topK \in Int
          /\ \A d \in Documents :
                /\ case.corpus[d] \in Text
                /\ \A i \in DOMAIN chunk_text(case.corpus[d]) : case.request.score[d][i] \in Int
    /\ MaxTopK \in Nat \ {0} /\ MaxContext \in Nat /\ MinScore \in Nat

VARIABLES
    corpus,     \* the text of each document
    request,    \* tenant, type, topK, and how well each chunk answers it
    raw,        \* the hits of the store
    selected,   \* the hits of the retriever
    shown,      \* the passages of the context block
    sources,    \* the citations
    phase       \* "asked", "found", "augmented" or "failed"

vars == <<corpus, request, raw, selected, shown, sources, phase>>

-----------------------------------------------------------------------------
\* What ingestion has stored.
Rows == UNION {LET chunks == chunk_text(corpus[d]) IN
               {[doc |-> d, index |-> i, size |-> Len(chunks[i])] : i \in DOMAIN chunks} :
                   d \in Documents}

Score(hit) == request.score[hit.doc][hit.index]

\* SqliteVectorStore.search: the chunks in scope, the best ones first (one of
\* the orders, if some are as good as others). A classification restricts the
\* scope as a type does.
search(top_k) ==
    LET scope == {r \in Rows : /\ TenantOf[r.doc] = request.tenant
                               /\ request.type \in {"any", TypeOf[r.doc]}}
        Best(left) == CHOOSE r \in left : \A s \in left : Score(s) <= Score(r)
        ranked[n \in 0..Cardinality(scope)] ==
            IF n = 0 THEN <<>>
            ELSE Append(ranked[n - 1], Best(scope \ ToSet(ranked[n - 1])))
    IN ranked[Min({top_k, Cardinality(scope)})]

effective_k == Max({1, Min({request.topK, MaxTopK})})

Size(hits) ==
    LET sum[k \in 0..Len(hits)] == IF k = 0 THEN 0 ELSE sum[k - 1] + hits[k].size
    IN sum[Len(hits)]
DocsOf(hits) == {hits[k].doc : k \in DOMAIN hits}

\* Mutant of Take: the rule of breadth is for every hit.
TakeFirstHalf(hits, hit) ==
    IF \/ Len(hits) >= effective_k
       \/ Score(hit) < MinScore
       \/ Len(hits) >= Max({1, effective_k \div 2})
       \/ hit.size > MaxContext - Size(hits)
    THEN hits
    ELSE Append(hits, hit)

\* One turn of the retriever's loop: a hit is taken unless there are enough, it
\* is noise, its document is there and half of the hits are, or it is too long.
Take(hits, hit) ==
    IF \/ Len(hits) >= effective_k
       \/ Score(hit) < MinScore
       \/ hit.doc \in DocsOf(hits) /\ Len(hits) >= effective_k \div 2
       \/ hit.size > MaxContext - Size(hits)
    THEN hits
    ELSE Append(hits, hit)

Selection(hits) ==
    LET taken[k \in 0..Len(hits)] == IF k = 0 THEN <<>> ELSE Take(taken[k - 1], hits[k])
    IN taken[Len(hits)]

\* The passages as the prompt has them.
Neutralised(hits) == [k \in DOMAIN hits |-> [hits[k] EXCEPT !.size = @ + Growth[hits[k].doc]]]

\* The hits up to the first one whose passage does not fit.
build_context_block(hits) ==
    LET Fits(n) == Size(Neutralised(SubSeq(hits, 1, n))) <= MaxContext
    IN SubSeq(hits, 1, Max({n \in 0..Len(hits) : \A m \in 0..n : Fits(m)}))

\* Mutant of citations: what was retrieved is cited.
citationsOfAll(hits, block) == ToSet(hits)

\* The chunk_id of a hit, "<document_id>#<index>", occurs in what the block says
\* of a passage: it is the passage's own, or it is part of that or stands in the
\* passage's document_id, title or text.
Id(hit) == <<hit.doc, hit.index>>
Names(passage, hit) == Id(hit) = Id(passage) \/ <<Id(hit), Id(passage)>> \in NamedIn

\* A hit is cited if its chunk_id occurs anywhere in the block.
citations(hits, block) ==
    {hit \in ToSet(hits) : \E k \in DOMAIN block : Names(block[k], hit)}

-----------------------------------------------------------------------------
Init ==
    /\ \E case \in Cases : corpus = case.corpus /\ request = case.request
    /\ raw = <<>> /\ selected = <<>> /\ shown = <<>> /\ sources = {}
    /\ phase = "asked"

\* Retriever.search, with three times as many hits as are wanted.
Search ==
    /\ phase = "asked"
    /\ raw' = search(3 * effective_k)
    /\ selected' = Selection(raw')
    /\ phase' = "found"
    /\ UNCHANGED <<corpus, request, shown, sources>>

\* There is no question, or the embedder or the store fails: RetrievalError.
Fail ==
    /\ phase = "asked"
    /\ phase' = "failed"
    /\ UNCHANGED <<corpus, request, raw, selected, shown, sources>>

\* The prompt and its citations.
augment ==
    /\ phase = "found"
    /\ shown' = build_context_block(selected)
    /\ sources' = citations(selected, shown')
    /\ phase' = "augmented"
    /\ UNCHANGED <<corpus, request, raw, selected>>

Answered == phase \in {"augmented", "failed"} /\ UNCHANGED vars

Next == Search \/ Fail \/ augment \/ Answered

Spec == Init /\ [][Next]_vars

-----------------------------------------------------------------------------
\* Whatever the paragraphs and sentences of a document, its chunks hold all of
\* its text in order, and each fits the size (rag/chunking.py: "at most
\* chunk_size"), although each may begin with the end of the one before.
ChunksKeepText ==
    phase = "asked" => \A d \in Documents : KeepsText(corpus[d], chunk_text(corpus[d]))

\* "several documents beat several chunks of one": a document of which a fitting
\* hit was found is left out only if there are enough hits; and only the first
\* half of them may repeat a document.
Breadth ==
    phase \in {"found", "augmented"} =>
        /\ \A k \in DOMAIN raw :
              \/ raw[k].doc \in DocsOf(selected)
              \/ Score(raw[k]) < MinScore
              \/ Len(selected) = effective_k
              \/ Size(selected) + raw[k].size > MaxContext
        /\ \A k \in DOMAIN selected :
              k > Max({1, effective_k \div 2}) =>
                  selected[k].doc \notin DocsOf(SubSeq(selected, 1, k - 1))

\* The prompt holds the best of the hits, within the budget even where neutralize
\* has lengthened them, and ends only at one that does not fit. What it holds is
\* cited, and whatever ids its passages mention, nothing is cited but relevant
\* hits of the caller's tenant. A hit that the budget dropped is cited only if a
\* passage in the prompt mentions its chunk_id.
SourcesAreShown ==
    phase = "augmented" =>
        /\ shown = SubSeq(selected, 1, Len(shown))
        /\ Size(Neutralised(shown)) <= MaxContext
        /\ Len(shown) < Len(selected) =>
              ~(Size(Neutralised(SubSeq(selected, 1, Len(shown) + 1))) <= MaxContext)
        /\ ToSet(shown) \subseteq sources
        /\ \A hit \in sources :
              TenantOf[hit.doc] = request.tenant /\ Score(hit) >= MinScore
        /\ \A hit \in sources \ ToSet(shown) :
              \E k \in DOMAIN shown : <<Id(hit), Id(shown[k])>> \in NamedIn
=============================================================================
