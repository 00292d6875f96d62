------------------------------ MODULE Chunking -------------------------------
(***************************************************************************)
(* chunk_text of rag/chunking.py, on a text that is normalised already: a  *)
(* sequence of paragraphs, each the lengths of its sentences.  A character *)
(* is its place in the text, so that one can see where it went.            *)
(***************************************************************************)
EXTENDS Integers, Sequences, FiniteSets, SequencesExt

CONSTANTS
    ChunkSize,  \* RAG_CHUNK_SIZE
    Overlap     \* RAG_CHUNK_OVERLAP

ASSUME CKAssumption ==
    /\ ChunkSize \in Nat \ {0}
    /\ Overlap \in 0..ChunkSize - 1

\* Paragraphs have sentences, and sentences have characters.
Text == Seq({paragraph \in Seq(Nat \ {0}) : paragraph # <<>>})

\* White space: between two sentences one, between two spans two.
Blank == <<>>
Break == <<Blank, Blank>>

\* (White space inside a sentence, which is stripped at the edges of a hard split,
\* is not told apart from its other characters.)
Sentence(text, p, s) == [k \in 1..text[p][s] |-> <<p, s, k>>]
Sentences(text, p) == [s \in DOMAIN text[p] |-> Sentence(text, p, s)]

Join(before, between, part) == IF before = <<>> THEN part ELSE before \o between \o part

Paragraph(text, p) ==
    LET joined[s \in 0..Len(text[p])] ==
            IF s = 0 THEN <<>> ELSE Join(joined[s - 1], <<Blank>>, Sentence(text, p, s))
    IN joined[Len(text[p])]

Strip(chars) ==
    LET solid == {k \in DOMAIN chars : chars[k] # Blank} IN
    IF solid = {} THEN <<>> ELSE SubSeq(chars, Min(solid), Max(solid))

\* Pieces of at most ChunkSize characters.
HardSplit(chars) ==
    [k \in 1..(Len(chars) + ChunkSize - 1) \div ChunkSize |->
        SubSeq(chars, (k - 1) * ChunkSize + 1, Min({k * ChunkSize, Len(chars)}))]

\* By sentences, and those that are too long wherever the size ends.
split_oversized(sentences) == FlattenSeq([s \in DOMAIN sentences |-> HardSplit(sentences[s])])

Spans(text) ==
    FlattenSeq([p \in DOMAIN text |->
        IF Len(Paragraph(text, p)) <= ChunkSize
          THEN <<Paragraph(text, p)>>
          ELSE split_oversized(Sentences(text, p))])

\* Mutant of Restarted: the overlap is kept whatever comes after it.
RestartedTooLarge(current, span) ==
    LET tail == SubSeq(current, Max({1, Len(current) - Overlap + 1}), Len(current)) IN
    IF Overlap = 0 THEN span ELSE Strip(tail \o Break \o span)

\* The next chunk begins with the end of the one before, if there is room.
Restarted(current, span) ==
    LET tail == SubSeq(current, Max({1, Len(current) - Overlap + 1}), Len(current))
        both == IF Overlap = 0 THEN span ELSE Strip(tail \o Break \o span)
    IN IF Len(both) > ChunkSize THEN span ELSE both

\* (A span fits alone, so that acc.current is not empty where it is closed.)
Accumulate(acc, span) ==
    LET candidate == Join(acc.current, Break, span) IN
    IF Len(candidate) <= ChunkSize
      THEN [acc EXCEPT !.current = candidate]
      ELSE [chunks |-> Append(acc.chunks, acc.current),
            current |-> Restarted(acc.current, span)]

chunk_text(text) ==
    LET spans == Spans(text)
        acc[i \in 0..Len(spans)] ==
            IF i = 0 THEN [chunks |-> <<>>, current |-> <<>>]
            ELSE Accumulate(acc[i - 1], spans[i])
        last == acc[Len(spans)]
    IN IF last.current = <<>> THEN last.chunks ELSE Append(last.chunks, last.current)

-----------------------------------------------------------------------------
\* part stands somewhere in whole, in one piece.
StandsIn(part, whole) ==
    \E from \in 0..Len(whole) - Len(part) :
        \A k \in DOMAIN part : whole[from + k] = part[k]

\* What chunk_text promises: no chunk is empty or too large, all of the text is in
\* them, every span in one piece, and they follow the text.
KeepsText(text, chunks) ==
    LET spans == Spans(text)
        homes == [i \in DOMAIN spans |->
                     {k \in DOMAIN chunks : StandsIn(spans[i], chunks[k])}]
    IN /\ \A k \in DOMAIN chunks : Len(chunks[k]) \in 1..ChunkSize
       /\ \A p \in DOMAIN text : \A s \in DOMAIN text[p] :
             ToSet(Sentence(text, p, s)) \subseteq UNION {ToSet(chunks[k]) : k \in DOMAIN chunks}
       /\ \A i \in DOMAIN spans : homes[i] # {}
       /\ \A i \in 2..Len(spans) : Min(homes[i - 1]) <= Min(homes[i])
=============================================================================
