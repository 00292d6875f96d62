--------------------------- MODULE Retrieval_proofs ---------------------------
(***************************************************************************)
(* Proofs about Chunking and Retrieval, for any sizes, documents, scores   *)
(* and budgets.                                                            *)
(*                                                                         *)
(* All of it is loops: over sentences, spans, hits.  For each there is an  *)
(* invariant of its turns, and a lemma that a turn keeps it.               *)
(***************************************************************************)
EXTENDS Retrieval, Loops, FiniteSetTheorems

-----------------------------------------------------------------------------
(* Chunks of spans.                                                        *)

Solid == Nat \X Nat \X Nat
Char == Solid \cup {Blank}

\* What chunk_text puts together: pieces of text that fit and have no blank ends.
Span == {x \in Seq(Char) : Len(x) \in 1..ChunkSize /\ x[1] \in Solid /\ x[Len(x)] \in Solid}

\* The second one begins with a character that the first one has not.
Fresh == {xy \in Seq(Char) \X Seq(Char) : \A a \in 1..Len(xy[1]) : xy[1][a] # xy[2][1]}

\* The characters of a chunk are those of the first i spans.
From(chunk, spans, i) == \A a \in 1..Len(chunk) : chunk[a] \in {Blank} \cup Within(spans, i)

\* Each of the first i spans stands in the chunk home, and begins in none before.
Housed(all, spans, i, home) ==
    /\ home \in [1..i -> 1..Len(all)]
    /\ \A j \in 1..i : StandsIn(spans[j], all[home[j]])
    /\ \A j \in 1..i : \A k \in 1..Len(all) : k < home[j] =>
          \A a \in 1..Len(all[k]) : all[k][a] # spans[j][1]
    /\ \A j \in 2..i : home[j - 1] <= home[j]
    /\ i # 0 => home[i] = Len(all)

\* The loop of chunk_text after i spans.
Cut(acc, spans, i) ==
    /\ acc \in [chunks : Seq(Seq(Char)), current : Seq(Char)]
    /\ \A k \in 1..Len(acc.chunks) : Len(acc.chunks[k]) \in 1..ChunkSize
    /\ Len(acc.current) <= ChunkSize
    /\ i # 0 => acc.current # <<>>
    /\ i = 0 => acc.chunks = <<>> /\ acc.current = <<>>
    /\ \A k \in 1..Len(acc.chunks) : From(acc.chunks[k], spans, i)
    /\ From(acc.current, spans, i)
    /\ \E home : Housed(Append(acc.chunks, acc.current), spans, i, home)

LEMMA SizeNat == ChunkSize \in Nat /\ ChunkSize >= 1 /\ Overlap \in Nat /\ Overlap < ChunkSize
BY CKAssumption

LEMMA BlankNotSolid == Blank \notin Solid /\ Blank \in Char /\ Solid \subseteq Char
<1>1. ASSUME Blank \in Solid PROVE FALSE
  <2>1. Len(Blank) = 0 /\ Blank \in Seq(Nat)
    BY EmptySeq DEF Blank
  <2>2. PICK a \in Nat, b \in Nat, c \in Nat : Blank = <<a, b, c>>
    BY <1>1 DEF Solid
  <2>3. Len(<<a, b, c>>) = 3
    OBVIOUS
  <2>. QED
    BY <2>1, <2>2, <2>3
<1>. QED
  BY <1>1 DEF Char

LEMMA StandsFront ==
    ASSUME NEW S, NEW x \in Seq(S), NEW w \in Seq(S), NEW r \in Seq(S), StandsIn(x, w)
    PROVE  StandsIn(x, w \o r)
<1>1. PICK from \in 0..Len(w) - Len(x) : \A k \in DOMAIN x : w[from + k] = x[k]
  BY DEF StandsIn
<1>. DEFINE both == w \o r
<1>2. /\ Len(w) \in Nat /\ Len(r) \in Nat /\ Len(x) \in Nat /\ DOMAIN x = 1..Len(x)
      /\ Len(both) = Len(w) + Len(r)
      /\ \A k \in 1..Len(w) + Len(r) : both[k] = IF k <= Len(w) THEN w[k] ELSE r[k - Len(w)]
  BY ConcatProperties, LenProperties
<1>. HIDE DEF both
<1>3. from \in 0..Len(both) - Len(x)
  BY <1>2
<1>4. ASSUME NEW k \in DOMAIN x PROVE both[from + k] = x[k]
  <2>1. from + k \in 1..Len(w) + Len(r) /\ from + k <= Len(w)
    BY <1>2
  <2>. QED
    BY <1>1, <1>2, <2>1
<1>. QED
  BY <1>3, <1>4 DEF StandsIn, both

LEMMA StandsBehind ==
    ASSUME NEW S, NEW x \in Seq(S), NEW w \in Seq(S), NEW m \in 1..Len(w) + 1
    PROVE  StandsIn(x, SubSeq(w \o x, m, Len(w \o x)))
<1>. DEFINE both == w \o x
            part == SubSeq(both, m, Len(both))
            from == Len(w) - m + 1
<1>1. /\ Len(w) \in Nat /\ Len(x) \in Nat /\ DOMAIN x = 1..Len(x)
      /\ both \in Seq(S) /\ Len(both) = Len(w) + Len(x)
      /\ \A k \in 1..Len(w) + Len(x) : both[k] = IF k <= Len(w) THEN w[k] ELSE x[k - Len(w)]
  BY ConcatProperties, LenProperties
<1>. HIDE DEF both
<1>2. \A k \in m..Len(both) : both[k] \in S
  <2>1. \A k \in m..Len(both) : k \in 1..Len(both)
    BY <1>1
  <2>. QED
    BY <1>1, <2>1, ElementOfSeq
<1>3. m \in Int /\ Len(both) \in Int
  BY <1>1
<1>4. /\ Len(part) = IF m <= Len(both) THEN Len(both) - m + 1 ELSE 0
      /\ \A k \in 1..Len(both) - m + 1 : part[k] = both[m + k - 1]
  BY <1>2, <1>3, SubSeqProperties
<1>. HIDE DEF part
<1>5. from \in 0..Len(part) - Len(x)
  BY <1>1, <1>4
<1>6. ASSUME NEW k \in DOMAIN x PROVE part[from + k] = x[k]
  <2>1. from + k \in 1..Len(both) - m + 1 /\ m + (from + k) - 1 = Len(w) + k
        /\ Len(w) + k \in 1..Len(w) + Len(x) /\ ~(Len(w) + k <= Len(w))
        /\ (Len(w) + k) - Len(w) = k
    BY <1>1
  <2>2. part[from + k] = both[Len(w) + k]
    BY <1>4, <2>1
  <2>3. both[Len(w) + k] = x[k]
    BY <1>1, <2>1
  <2>. QED
    BY <2>2, <2>3
<1>. QED
  BY <1>5, <1>6 DEF StandsIn, part, both

\* A part of a sequence has its characters.
LEMMA PartOf ==
    ASSUME NEW S, NEW s \in Seq(S), NEW m \in Nat, m >= 1, NEW n \in Int, n <= Len(s)
    PROVE  /\ SubSeq(s, m, n) \in Seq(S)
           /\ Len(SubSeq(s, m, n)) = IF m <= n THEN n - m + 1 ELSE 0
           /\ \A a \in 1..Len(SubSeq(s, m, n)) :
                 m + a - 1 \in 1..Len(s) /\ SubSeq(s, m, n)[a] = s[m + a - 1]
<1>1. Len(s) \in Nat
  BY LenProperties
<1>2. \A i \in m..n : s[i] \in S
  <2>1. \A i \in m..n : i \in 1..Len(s)
    BY <1>1
  <2>. QED
    BY <2>1, ElementOfSeq
<1>3. /\ SubSeq(s, m, n) \in Seq(S)
      /\ Len(SubSeq(s, m, n)) = IF m <= n THEN n - m + 1 ELSE 0
      /\ \A i \in 1..n - m + 1 : SubSeq(s, m, n)[i] = s[m + i - 1]
  <2>1. m \in Int
    OBVIOUS
  <2>. QED
    BY <1>2, <2>1, SubSeqProperties
<1>4. ASSUME NEW a \in 1..Len(SubSeq(s, m, n))
      PROVE  a \in 1..n - m + 1 /\ m + a - 1 \in 1..Len(s)
  BY <1>1, <1>3
<1>. QED
  BY <1>3, <1>4

LEMMA StripEnd ==
    ASSUME NEW chars \in Seq(Char), NEW solid \in 1..Len(chars),
           chars[solid] # Blank, chars[Len(chars)] # Blank
    PROVE  \E m \in 1..solid : Strip(chars) = SubSeq(chars, m, Len(chars))
<1>. DEFINE S == {k \in DOMAIN chars : chars[k] # Blank}
<1>1. Len(chars) \in Nat /\ DOMAIN chars = 1..Len(chars)
  BY LenProperties
<1>2. S \in SUBSET Nat /\ S \in SUBSET (0..Len(chars)) /\ S # {} /\ solid \in S /\ Len(chars) \in S
  BY <1>1
<1>3. Strip(chars) = SubSeq(chars, Min(S), Max(S))
  BY <1>2 DEF Strip
<1>4. \A k \in S : k \in 1..Len(chars)
  BY <1>1
<1>. HIDE DEF S
<1>5. Min(S) \in S /\ Min(S) <= solid
  BY <1>2, Lowest
<1>6. Max(S) \in S /\ Len(chars) <= Max(S)
  BY <1>1, <1>2, Largest
<1>7. Max(S) = Len(chars) /\ Min(S) \in 1..solid
  BY <1>1, <1>4, <1>5, <1>6
<1>. QED
  BY <1>3, <1>7

LEMMA TailTyped ==
    ASSUME NEW current \in Seq(Char)
    PROVE  LET tail == SubSeq(current, Max({1, Len(current) - Overlap + 1}), Len(current)) IN
           /\ tail \in Seq(Char)
           /\ \A a \in 1..Len(tail) : \E b \in 1..Len(current) : tail[a] = current[b]
<1>. DEFINE m == Max({1, Len(current) - Overlap + 1})
<1>1. Len(current) \in Nat
  BY LenProperties
<1>2. Len(current) - Overlap + 1 \in Int /\ Len(current) - Overlap + 1 <= Len(current) + 1
  BY <1>1, SizeNat
<1>3. m \in Nat /\ m >= 1
  <2>. DEFINE o == Len(current) - Overlap + 1
  <2>1. o \in Int
    BY <1>2
  <2>. HIDE DEF o
  <2>2. \E x \in {1, o} : \A y \in {1, o} : x >= y
    BY <2>1
  <2>3. Max({1, o}) \in {1, o} /\ \A y \in {1, o} : Max({1, o}) >= y
    BY <2>2 DEF Max
  <2>4. Max({1, o}) \in Nat /\ Max({1, o}) >= 1
    BY <2>1, <2>3
  <2>. QED
    BY <2>4 DEF o
<1>. HIDE DEF m
<1>4. /\ SubSeq(current, m, Len(current)) \in Seq(Char)
      /\ \A a \in 1..Len(SubSeq(current, m, Len(current))) :
            m + a - 1 \in 1..Len(current) /\ SubSeq(current, m, Len(current))[a] = current[m + a - 1]
  <2>1. Len(current) \in Int /\ Len(current) <= Len(current)
    BY <1>1
  <2>. QED
    BY <1>3, <2>1, PartOf
<1>. QED
  BY <1>4 DEF m

\* What stands in a chunk with which one goes on.
LEMMA RestartedHolds ==
    ASSUME NEW current \in Seq(Char), NEW span \in Span
    PROVE  /\ Restarted(current, span) \in Seq(Char)
           /\ Len(Restarted(current, span)) \in 1..ChunkSize
           /\ StandsIn(span, Restarted(current, span))
           /\ \A a \in 1..Len(Restarted(current, span)) :
                 \/ Restarted(current, span)[a] = Blank
                 \/ \E b \in 1..Len(current) : Restarted(current, span)[a] = current[b]
                 \/ \E b \in 1..Len(span) : Restarted(current, span)[a] = span[b]
<1>. DEFINE tail == SubSeq(current, Max({1, Len(current) - Overlap + 1}), Len(current))
            w == tail \o Break
            whole == w \o span
            both == IF Overlap = 0 THEN span ELSE Strip(whole)
            Allowed(c) == \/ c = Blank \/ \E b \in 1..Len(current) : c = current[b]
                          \/ \E b \in 1..Len(span) : c = span[b]
            Holds(r) == /\ r \in Seq(Char) /\ Len(r) >= 1 /\ StandsIn(span, r)
                        /\ \A a \in 1..Len(r) : Allowed(r[a])
<1>1. span \in Seq(Char) /\ Len(span) \in 1..ChunkSize /\ Len(span) \in Nat /\ DOMAIN span = 1..Len(span)
      /\ span[1] # Blank /\ span[Len(span)] # Blank
  BY SizeNat, BlankNotSolid, LenProperties DEF Span
<1>2. Holds(span)
  <2>1. StandsIn(span, span)
    <3>1. 0 \in 0..Len(span) - Len(span) /\ \A k \in DOMAIN span : 0 + k = k
      BY <1>1
    <3>. QED
      BY <3>1 DEF StandsIn
  <2>. QED
    BY <1>1, <2>1
<1>3. tail \in Seq(Char) /\ \A a \in 1..Len(tail) : \E b \in 1..Len(current) : tail[a] = current[b]
  BY TailTyped
<1>. HIDE DEF tail
<1>4. Break \in Seq(Char) /\ Len(Break) = 2 /\ Break[1] = Blank /\ Break[2] = Blank
  BY BlankNotSolid DEF Break
<1>5. w \in Seq(Char) /\ Len(w) \in Nat /\ \A a \in 1..Len(w) : Allowed(w[a])
  <2>1. /\ w \in Seq(Char) /\ Len(w) = Len(tail) + Len(Break) /\ Len(tail) \in Nat /\ Len(w) \in Nat
        /\ \A a \in 1..Len(tail) + Len(Break) :
              w[a] = IF a <= Len(tail) THEN tail[a] ELSE Break[a - Len(tail)]
    BY <1>3, <1>4, ConcatProperties, LenProperties
  <2>. HIDE DEF w
  <2>2. ASSUME NEW a \in 1..Len(w) PROVE Allowed(w[a])
    <3>1. CASE a <= Len(tail)
      BY <1>3, <2>1, <3>1
    <3>2. CASE ~(a <= Len(tail))
      <4>1. a - Len(tail) \in {1, 2} /\ a \in 1..Len(tail) + Len(Break)
        BY <1>4, <2>1, <3>2
      <4>2. w[a] = Blank
        BY <1>4, <2>1, <3>2, <4>1
      <4>. QED
        BY <4>2
    <3>. QED
      BY <3>1, <3>2
  <2>. QED
    BY <2>1, <2>2
<1>. HIDE DEF w
<1>6. /\ whole \in Seq(Char) /\ Len(whole) = Len(w) + Len(span) /\ Len(whole) \in Nat
      /\ \A a \in 1..Len(w) + Len(span) : whole[a] = IF a <= Len(w) THEN w[a] ELSE span[a - Len(w)]
  BY <1>1, <1>5, ConcatProperties, LenProperties
<1>7. \A a \in 1..Len(whole) : Allowed(whole[a])
  <2>. HIDE DEF whole
  <2>1. ASSUME NEW a \in 1..Len(whole) PROVE Allowed(whole[a])
    <3>1. CASE a <= Len(w)
      <4>1. a \in 1..Len(w)
        BY <1>5, <1>6, <3>1
      <4>2. whole[a] = w[a]
        BY <1>6, <3>1
      <4>3. Allowed(w[a])
        BY <1>5, <4>1
      <4>. HIDE DEF Allowed
      <4>. QED
        BY <4>2, <4>3, Zenon
    <3>2. CASE ~(a <= Len(w))
      <4>1. a - Len(w) \in 1..Len(span) /\ whole[a] = span[a - Len(w)]
        BY <1>1, <1>5, <1>6, <3>2
      <4>. QED
        BY <4>1
    <3>. QED
      BY <3>1, <3>2
  <2>. QED
    BY <2>1
<1>8. PICK m \in 1..Len(w) + 1 : Strip(whole) = SubSeq(whole, m, Len(whole))
  <2>. HIDE DEF whole
  <2>1. Len(w) + 1 \in 1..Len(whole) /\ whole[Len(w) + 1] = span[1] /\ whole[Len(whole)] = span[Len(span)]
    <3>1. Len(w) + 1 \in 1..Len(w) + Len(span) /\ ~(Len(w) + 1 <= Len(w)) /\ (Len(w) + 1) - Len(w) = 1
      BY <1>1, <1>5
    <3>2. Len(whole) \in 1..Len(w) + Len(span) /\ ~(Len(whole) <= Len(w)) /\ Len(whole) - Len(w) = Len(span)
      BY <1>1, <1>5, <1>6
    <3>. QED
      BY <1>6, <3>1, <3>2
  <2>. QED
    BY <1>1, <1>6, <2>1, StripEnd
<1>9. Holds(Strip(whole))
  <2>1. StandsIn(span, SubSeq(whole, m, Len(whole)))
    BY <1>1, <1>5, StandsBehind
  <2>. HIDE DEF whole
  <2>2. m \in Nat /\ m >= 1 /\ Len(whole) \in Int /\ Len(whole) <= Len(whole) /\ m <= Len(whole)
    BY <1>1, <1>5, <1>6
  <2>. DEFINE r == SubSeq(whole, m, Len(whole))
  <2>3. /\ r \in Seq(Char) /\ Len(r) = Len(whole) - m + 1
        /\ \A a \in 1..Len(r) : m + a - 1 \in 1..Len(whole) /\ r[a] = whole[m + a - 1]
    BY <1>6, <2>2, PartOf
  <2>. HIDE DEF r
  <2>4. Len(r) >= 1 /\ \A a \in 1..Len(r) : Allowed(r[a])
    <3>1. Len(r) >= 1
      BY <2>2, <2>3
    <3>. HIDE DEF Allowed
    <3>2. ASSUME NEW a \in 1..Len(r) PROVE Allowed(r[a])
      <4>1. r[a] = whole[m + a - 1] /\ m + a - 1 \in 1..Len(whole)
        BY <2>3
      <4>. QED
        BY <1>7, <4>1, Zenon
    <3>. QED
      BY <3>1, <3>2
  <2>5. StandsIn(span, r) /\ Strip(whole) = r
    BY <1>8, <2>1 DEF r
  <2>6. Holds(r)
    BY <2>3, <2>4, <2>5
  <2>. QED
    BY <2>5, <2>6
<1>. HIDE DEF whole
<1>10. Holds(both)
  <2>1. CASE Overlap = 0
    BY <1>2, <2>1
  <2>2. CASE Overlap # 0
    BY <1>9, <2>2
  <2>. QED
    BY <2>1, <2>2
<1>11. Restarted(current, span) = IF Len(both) > ChunkSize THEN span ELSE both
  BY DEF Restarted, whole, w, tail
<1>. DEFINE r == Restarted(current, span)
<1>. HIDE DEF both
<1>12. Holds(r) /\ Len(r) \in 1..ChunkSize
  <2>1. Len(both) \in Nat
    BY <1>10, LenProperties
  <2>2. CASE Len(both) > ChunkSize
    BY <1>1, <1>2, <1>11, <2>2
  <2>3. CASE ~(Len(both) > ChunkSize)
    <3>1. r = both
      BY <1>11, <2>3
    <3>. HIDE DEF r
    <3>2. Len(r) \in 1..ChunkSize
      BY <1>10, <2>1, <2>3, <3>1, SizeNat
    <3>. QED
      BY <1>10, <3>1, <3>2
  <2>. QED
    BY <2>2, <2>3
<1>. QED
  BY <1>12

LEMMA StandsBack ==
    ASSUME NEW S, NEW x \in Seq(S), NEW w \in Seq(S)
    PROVE  StandsIn(x, w \o x)
<1>. DEFINE both == w \o x
<1>1. /\ Len(w) \in Nat /\ Len(x) \in Nat /\ DOMAIN x = 1..Len(x)
      /\ Len(both) = Len(w) + Len(x)
      /\ \A k \in 1..Len(w) + Len(x) : both[k] = IF k <= Len(w) THEN w[k] ELSE x[k - Len(w)]
  BY ConcatProperties, LenProperties
<1>. HIDE DEF both
<1>2. Len(w) \in 0..Len(both) - Len(x)
  BY <1>1
<1>3. ASSUME NEW k \in DOMAIN x PROVE both[Len(w) + k] = x[k]
  <2>1. Len(w) + k \in 1..Len(w) + Len(x) /\ ~(Len(w) + k <= Len(w)) /\ (Len(w) + k) - Len(w) = k
    BY <1>1
  <2>. QED
    BY <1>1, <2>1
<1>. QED
  BY <1>2, <1>3 DEF StandsIn, both

\* The first character of what stands in a chunk is one of the chunk.
LEMMA StandsFirst ==
    ASSUME NEW x, NEW w, Len(x) \in Nat, Len(x) >= 1, Len(w) \in Nat, DOMAIN x = 1..Len(x),
           StandsIn(x, w)
    PROVE  \E a \in 1..Len(w) : w[a] = x[1]
<1>1. PICK from \in 0..Len(w) - Len(x) : \A k \in DOMAIN x : w[from + k] = x[k]
  BY DEF StandsIn
<1>2. 1 \in DOMAIN x /\ from + 1 \in 1..Len(w)
  OBVIOUS
<1>. QED
  BY <1>1, <1>2

\* With one span more there are the characters of that span, too.
LEMMA WithinMore ==
    ASSUME NEW spans, NEW i \in Nat, i >= 1
    PROVE  /\ Within(spans, i - 1) \subseteq Within(spans, i)
           /\ \A b \in 1..Len(spans[i]) : spans[i][b] \in Within(spans, i)
           /\ \A c \in Within(spans, i - 1) :
                 \E j \in 1..i - 1 : \E b \in 1..Len(spans[j]) : c = spans[j][b]
<1>1. 1..i - 1 \subseteq 1..i /\ i \in 1..i
  OBVIOUS
<1>. DEFINE Of(j) == {spans[j][b] : b \in 1..Len(spans[j])}
<1>2. Within(spans, i) = UNION {Of(j) : j \in 1..i}
      /\ Within(spans, i - 1) = UNION {Of(j) : j \in 1..i - 1}
  BY DEF Within
<1>3. \A j : \A c \in Of(j) : \E b \in 1..Len(spans[j]) : c = spans[j][b]
  OBVIOUS
<1>4. \A j : \A b \in 1..Len(spans[j]) : spans[j][b] \in Of(j)
  OBVIOUS
<1>. HIDE DEF Of
<1>5. Within(spans, i - 1) \subseteq Within(spans, i)
  BY <1>1, <1>2
<1>6. ASSUME NEW b \in 1..Len(spans[i]) PROVE spans[i][b] \in Within(spans, i)
  BY <1>1, <1>2, <1>4
<1>7. ASSUME NEW c \in Within(spans, i - 1)
      PROVE  \E j \in 1..i - 1 : \E b \in 1..Len(spans[j]) : c = spans[j][b]
  <2>1. PICK j \in 1..i - 1 : c \in Of(j)
    BY <1>2
  <2>. QED
    BY <1>3, <2>1
<1>. QED
  BY <1>5, <1>6, <1>7

LEMMA FromMore ==
    ASSUME NEW chunk, NEW spans, NEW i \in Nat, i >= 1, From(chunk, spans, i - 1)
    PROVE  From(chunk, spans, i)
BY WithinMore DEF From

\* A new span begins with a character that no chunk holds yet.
LEMMA NewFirst ==
    ASSUME NEW spans \in Seq(Span), InOrder(spans, Fresh), NEW i \in 1..Len(spans), NEW chunk,
           From(chunk, spans, i - 1)
    PROVE  \A a \in 1..Len(chunk) : chunk[a] # spans[i][1]
<1>1. Len(spans) \in Nat /\ i \in Nat /\ i >= 1
  BY LenProperties
<1>2. spans[i][1] # Blank
  <2>1. spans[i] \in Span
    BY ElementOfSeq
  <2>. QED
    BY <2>1, BlankNotSolid DEF Span
<1>3. ASSUME NEW j \in 1..i - 1, NEW b \in 1..Len(spans[j]) PROVE spans[j][b] # spans[i][1]
  <2>1. j \in 1..Len(spans) /\ j < i
    <3>. DEFINE n == Len(spans)
    <3>1. n \in Nat /\ i \in 1..n
      BY <1>1
    <3>. HIDE DEF n
    <3>2. j \in 1..n /\ j < i
      BY <3>1
    <3>. QED
      BY <3>2 DEF n
  <2>2. <<spans[j], spans[i]>> \in Fresh
    BY <2>1, Zenon DEF InOrder
  <2>. QED
    BY <2>2 DEF Fresh
<1>4. spans[i][1] \notin Within(spans, i - 1)
  <2>1. SUFFICES ASSUME spans[i][1] \in Within(spans, i - 1) PROVE FALSE
    OBVIOUS
  <2>2. \A c \in Within(spans, i - 1) : \E j \in 1..i - 1 : \E b \in 1..Len(spans[j]) : c = spans[j][b]
    BY <1>1, WithinMore
  <2>3. PICK j \in 1..i - 1 : \E b \in 1..Len(spans[j]) : spans[i][1] = spans[j][b]
    BY <2>1, <2>2, Zenon
  <2>. QED
    BY <1>3, <2>3
<1>. QED
  BY <1>2, <1>4 DEF From

\* The last chunk goes on, or the next one begins.
LEMMA HousedOn ==
    ASSUME NEW spans, NEW i \in Nat, i >= 1, NEW all, NEW more,
           Len(all) \in Nat, Len(all) >= 1, Len(more) \in Nat, Len(more) >= Len(all),
           NEW home, Housed(all, spans, i - 1, home),
           \A k \in 1..Len(all) - 1 : more[k] = all[k],
           \A j \in 1..i - 1 : StandsIn(spans[j], all[Len(all)]) => StandsIn(spans[j], more[Len(all)]),
           StandsIn(spans[i], more[Len(more)]),
           \A k \in 1..Len(more) - 1 : \A a \in 1..Len(more[k]) : more[k][a] # spans[i][1]
    PROVE  \E h : Housed(more, spans, i, h)
<1>. DEFINE h == [j \in 1..i |-> IF j < i THEN home[j] ELSE Len(more)]
<1>0. /\ home \in [1..i - 1 -> 1..Len(all)]
      /\ \A j \in 1..i - 1 : StandsIn(spans[j], all[home[j]])
      /\ \A j \in 1..i - 1 : \A k \in 1..Len(all) : k < home[j] =>
            \A a \in 1..Len(all[k]) : all[k][a] # spans[j][1]
      /\ \A j \in 2..i - 1 : home[j - 1] <= home[j]
  BY DEF Housed
<1>1. \A j \in 1..i - 1 : h[j] = home[j] /\ home[j] \in 1..Len(all)
  BY <1>0
<1>2. h[i] = Len(more)
  OBVIOUS
<1>3. h \in [1..i -> 1..Len(more)]
  <2>1. ASSUME NEW j \in 1..i PROVE (IF j < i THEN home[j] ELSE Len(more)) \in 1..Len(more)
    <3>1. CASE j < i
      <4>1. j \in 1..i - 1
        BY <3>1
      <4>2. home[j] \in 1..Len(more)
        <5>1. home[j] \in 1..Len(all)
          BY <1>1, <4>1
        <5>2. 1..Len(all) \subseteq 1..Len(more)
          OBVIOUS
        <5>. QED
          BY <5>1, <5>2
      <4>. QED
        BY <3>1, <4>2
    <3>2. CASE ~(j < i)
      BY <3>2
    <3>. QED
      BY <3>1, <3>2
  <2>. QED
    BY <2>1
<1>. HIDE DEF h
<1>4. ASSUME NEW j \in 1..i PROVE StandsIn(spans[j], more[h[j]])
  <2>1. CASE j = i
    BY <1>2, <2>1
  <2>2. CASE j # i
    <3>1. j \in 1..i - 1
      BY <2>2
    <3>2. StandsIn(spans[j], all[home[j]]) /\ h[j] = home[j] /\ home[j] \in 1..Len(all)
      BY <1>0, <1>1, <3>1
    <3>3. CASE home[j] = Len(all)
      BY <3>1, <3>2, <3>3, Zenon
    <3>4. CASE home[j] # Len(all)
      <4>1. home[j] \in 1..Len(all) - 1
        BY <3>2, <3>4
      <4>. QED
        BY <3>2, <4>1, Zenon
    <3>. QED
      BY <3>3, <3>4
  <2>. QED
    BY <2>1, <2>2
<1>5. ASSUME NEW j \in 1..i, NEW k \in 1..Len(more), k < h[j], NEW a \in 1..Len(more[k])
      PROVE  more[k][a] # spans[j][1]
  <2>1. CASE j = i
    <3>1. k \in 1..Len(more) - 1
      BY <1>2, <1>5, <2>1
    <3>. QED
      BY <2>1, <3>1
  <2>2. CASE j # i
    <3>1. j \in 1..i - 1
      BY <2>2
    <3>2. h[j] = home[j] /\ home[j] \in 1..Len(all)
      BY <1>1, <3>1
    <3>3. k \in 1..Len(all) - 1 /\ k \in 1..Len(all) /\ k < home[j]
      BY <1>5, <3>2
    <3>4. more[k] = all[k]
      BY <3>3
    <3>5. all[k][a] # spans[j][1]
      <4>1. a \in 1..Len(all[k])
        BY <3>4
      <4>2. \A b \in 1..Len(all[k]) : all[k][b] # spans[j][1]
        BY <1>0, <3>1, <3>3, Zenon
      <4>. QED
        BY <4>1, <4>2
    <3>. QED
      BY <3>4, <3>5
  <2>. QED
    BY <2>1, <2>2
<1>6. ASSUME NEW j \in 2..i PROVE h[j - 1] <= h[j]
  <2>1. j - 1 \in 1..i - 1
    OBVIOUS
  <2>2. h[j - 1] = home[j - 1] /\ home[j - 1] \in 1..Len(all)
    BY <1>1, <2>1
  <2>3. CASE j = i
    BY <1>2, <2>2, <2>3
  <2>4. CASE j # i
    <3>1. j \in 2..i - 1 /\ j \in 1..i - 1
      BY <2>4
    <3>. QED
      BY <1>0, <1>1, <2>2, <3>1
  <2>. QED
    BY <2>3, <2>4
<1>7. Housed(more, spans, i, h)
  BY <1>2, <1>3, <1>4, <1>5, <1>6 DEF Housed
<1>. QED
  BY <1>7

\* The last chunk with a break and a span behind it.
LEMMA JoinHolds ==
    ASSUME NEW current \in Seq(Char), NEW span \in Span
    PROVE  LET joined == Join(current, Break, span) IN
           /\ joined \in Seq(Char) /\ Len(joined) >= 1
           /\ StandsIn(span, joined)
           /\ \A x \in Seq(Char) : StandsIn(x, current) /\ current # <<>> => StandsIn(x, joined)
           /\ current = <<>> => joined = span
           /\ \A a \in 1..Len(joined) :
                 \/ joined[a] = Blank
                 \/ \E b \in 1..Len(current) : joined[a] = current[b]
                 \/ \E b \in 1..Len(span) : joined[a] = span[b]
<1>. DEFINE joined == Join(current, Break, span)
            w == current \o Break
            whole == w \o span
            Allowed(c) == \/ c = Blank \/ \E b \in 1..Len(current) : c = current[b]
                          \/ \E b \in 1..Len(span) : c = span[b]
<1>1. span \in Seq(Char) /\ Len(span) >= 1 /\ Len(span) \in Nat /\ DOMAIN span = 1..Len(span)
  BY SizeNat, LenProperties DEF Span
<1>2. Break \in Seq(Char) /\ Len(Break) = 2 /\ Break[1] = Blank /\ Break[2] = Blank
  BY BlankNotSolid DEF Break
<1>3. /\ w \in Seq(Char) /\ Len(w) = Len(current) + Len(Break) /\ Len(current) \in Nat /\ Len(w) \in Nat
      /\ \A a \in 1..Len(current) + Len(Break) :
            w[a] = IF a <= Len(current) THEN current[a] ELSE Break[a - Len(current)]
  BY <1>2, ConcatProperties, LenProperties
<1>4. /\ whole \in Seq(Char) /\ Len(whole) = Len(w) + Len(span) /\ Len(whole) \in Nat
      /\ \A a \in 1..Len(w) + Len(span) : whole[a] = IF a <= Len(w) THEN w[a] ELSE span[a - Len(w)]
  BY <1>1, <1>3, ConcatProperties, LenProperties
<1>5. StandsIn(span, whole)
  BY <1>1, <1>3, StandsBack
<1>6. ASSUME NEW x \in Seq(Char), StandsIn(x, current) PROVE StandsIn(x, whole)
  <2>1. StandsIn(x, w)
    BY <1>2, <1>6, StandsFront
  <2>. QED
    BY <1>1, <1>3, <2>1, StandsFront
<1>. HIDE DEF whole, w
<1>7. ASSUME NEW a \in 1..Len(whole) PROVE Allowed(whole[a])
  <2>1. CASE a <= Len(current)
    <3>1. a \in 1..Len(current) /\ whole[a] = current[a]
      BY <1>2, <1>3, <1>4, <2>1
    <3>. QED
      BY <3>1
  <2>2. CASE a > Len(current) /\ a <= Len(w)
    <3>1. a - Len(current) \in {1, 2} /\ a \in 1..Len(current) + Len(Break) /\ ~(a <= Len(current))
          /\ a \in 1..Len(w) + Len(span)
      BY <1>1, <1>2, <1>3, <2>2
    <3>2. whole[a] = w[a] /\ w[a] = Break[a - Len(current)]
      BY <1>3, <1>4, <2>2, <3>1
    <3>. QED
      BY <1>2, <3>1, <3>2
  <2>3. CASE a > Len(w)
    <3>1. a - Len(w) \in 1..Len(span) /\ whole[a] = span[a - Len(w)]
      BY <1>1, <1>3, <1>4, <2>3
    <3>. QED
      BY <3>1
  <2>. QED
    BY <1>2, <1>3, <1>4, <2>1, <2>2, <2>3
<1>8. joined = IF current = <<>> THEN span ELSE whole
  BY DEF Join, whole, w
<1>9. Len(whole) >= 1
  BY <1>1, <1>3, <1>4
<1>10. StandsIn(span, span)
  <2>1. 0 \in 0..Len(span) - Len(span) /\ \A k \in DOMAIN span : 0 + k = k
    BY <1>1
  <2>. QED
    BY <2>1 DEF StandsIn
<1>. HIDE DEF joined
<1>11. CASE current = <<>>
  <2>1. joined = span
    BY <1>8, <1>11
  <2>2. \A a \in 1..Len(span) : Allowed(span[a])
    OBVIOUS
  <2>. HIDE DEF Allowed
  <2>3. /\ joined \in Seq(Char) /\ Len(joined) >= 1 /\ StandsIn(span, joined)
        /\ \A a \in 1..Len(joined) : Allowed(joined[a])
    BY <1>1, <1>10, <2>1, <2>2
  <2>. QED
    BY <1>11, <2>1, <2>3 DEF joined, Allowed
<1>12. CASE current # <<>>
  <2>1. joined = whole
    BY <1>8, <1>12
  <2>. HIDE DEF Allowed
  <2>2. /\ joined \in Seq(Char) /\ Len(joined) >= 1 /\ StandsIn(span, joined)
        /\ \A x \in Seq(Char) : StandsIn(x, current) => StandsIn(x, joined)
        /\ \A a \in 1..Len(joined) : Allowed(joined[a])
    BY <1>4, <1>5, <1>6, <1>7, <1>9, <2>1
  <2>. QED
    BY <1>12, <2>2 DEF joined, Allowed
<1>. QED
  BY <1>11, <1>12

LEMMA FromNext ==
    ASSUME NEW chunk, NEW current, NEW spans, NEW i \in Nat, i >= 1, From(current, spans, i - 1),
           \A a \in 1..Len(chunk) :
              \/ chunk[a] = Blank
              \/ \E b \in 1..Len(current) : chunk[a] = current[b]
              \/ \E b \in 1..Len(spans[i]) : chunk[a] = spans[i][b]
    PROVE  From(chunk, spans, i)
<1>1. ASSUME NEW a \in 1..Len(chunk) PROVE chunk[a] \in {Blank} \cup Within(spans, i)
  <2>1. CASE chunk[a] = Blank
    BY <2>1
  <2>2. ASSUME NEW b \in 1..Len(current), chunk[a] = current[b] PROVE chunk[a] \in {Blank} \cup Within(spans, i)
    <3>1. current[b] \in {Blank} \cup Within(spans, i - 1)
      BY DEF From
    <3>2. Within(spans, i - 1) \subseteq Within(spans, i)
      BY WithinMore
    <3>. QED
      BY <2>2, <3>1, <3>2
  <2>3. ASSUME NEW b \in 1..Len(spans[i]), chunk[a] = spans[i][b] PROVE chunk[a] \in {Blank} \cup Within(spans, i)
    <3>1. spans[i][b] \in Within(spans, i)
      BY WithinMore
    <3>. QED
      BY <2>3, <3>1
  <2>. QED
    BY <2>1, <2>2, <2>3
<1>. QED
  BY <1>1 DEF From

LEMMA AppendSeq ==
    ASSUME NEW S, NEW s \in Seq(S), NEW x \in S
    PROVE  /\ Append(s, x) \in Seq(S) /\ Len(Append(s, x)) = Len(s) + 1 /\ Len(s) \in Nat
           /\ \A k \in 1..Len(s) : Append(s, x)[k] = s[k]
           /\ Append(s, x)[Len(s) + 1] = x
BY AppendProperties, LenProperties

\* One turn of chunk_text's loop.
LEMMA AccumulateKeeps ==
    ASSUME NEW spans \in Seq(Span), InOrder(spans, Fresh), NEW i \in 1..Len(spans),
           NEW acc, Cut(acc, spans, i - 1)
    PROVE  Cut(Accumulate(acc, spans[i]), spans, i)
<1>. DEFINE span == spans[i]
            chunks == acc.chunks
            current == acc.current
            all == Append(chunks, current)
            joined == Join(current, Break, span)
            r == Restarted(current, span)
<1>1. i \in Nat /\ i >= 1 /\ span \in Span /\ span \in Seq(Char) /\ Len(span) \in 1..ChunkSize
  <2>1. span \in Span
    BY ElementOfSeq
  <2>. QED
    BY <2>1, LenProperties DEF Span
<1>2. /\ chunks \in Seq(Seq(Char)) /\ current \in Seq(Char)
      /\ \A k \in 1..Len(chunks) : Len(chunks[k]) \in 1..ChunkSize
      /\ Len(current) <= ChunkSize
      /\ i - 1 # 0 => current # <<>>
      /\ \A k \in 1..Len(chunks) : From(chunks[k], spans, i - 1)
      /\ From(current, spans, i - 1)
      /\ acc = [chunks |-> chunks, current |-> current]
  BY DEF Cut
<1>3. PICK home : Housed(all, spans, i - 1, home)
  BY DEF Cut
<1>. HIDE DEF chunks, current
<1>4. /\ all \in Seq(Seq(Char)) /\ Len(all) = Len(chunks) + 1 /\ Len(chunks) \in Nat
      /\ \A k \in 1..Len(chunks) : all[k] = chunks[k]
      /\ all[Len(chunks) + 1] = current
  BY <1>2, AppendSeq
<1>5. Accumulate(acc, span) = IF Len(joined) <= ChunkSize
                                THEN [chunks |-> chunks, current |-> joined]
                                ELSE [chunks |-> all, current |-> r]
  <2>1. [acc EXCEPT !.current = joined] = [chunks |-> chunks, current |-> joined]
    BY <1>2
  <2>. QED
    BY <2>1 DEF Accumulate, chunks, current
<1>6. /\ joined \in Seq(Char) /\ Len(joined) >= 1 /\ StandsIn(span, joined)
      /\ \A x \in Seq(Char) : StandsIn(x, current) /\ current # <<>> => StandsIn(x, joined)
      /\ current = <<>> => joined = span
      /\ \A a \in 1..Len(joined) :
            \/ joined[a] = Blank
            \/ \E b \in 1..Len(current) : joined[a] = current[b]
            \/ \E b \in 1..Len(span) : joined[a] = span[b]
  BY <1>1, <1>2, JoinHolds
<1>7. /\ r \in Seq(Char) /\ Len(r) \in 1..ChunkSize /\ StandsIn(span, r)
      /\ \A a \in 1..Len(r) :
            \/ r[a] = Blank
            \/ \E b \in 1..Len(current) : r[a] = current[b]
            \/ \E b \in 1..Len(span) : r[a] = span[b]
  BY <1>1, <1>2, RestartedHolds
<1>8. /\ \A k \in 1..Len(chunks) : From(chunks[k], spans, i)
      /\ From(current, spans, i) /\ From(joined, spans, i) /\ From(r, spans, i)
  <2>1. From(joined, spans, i)
    BY <1>1, <1>2, <1>6, FromNext DEF span
  <2>2. From(r, spans, i)
    BY <1>1, <1>2, <1>7, FromNext DEF span
  <2>. QED
    BY <1>1, <1>2, <2>1, <2>2, FromMore
<1>9. /\ \A k \in 1..Len(chunks) : \A a \in 1..Len(chunks[k]) : chunks[k][a] # span[1]
      /\ \A a \in 1..Len(current) : current[a] # span[1]
  BY <1>2, NewFirst
<1>. HIDE DEF joined, r
<1>10. \A j \in 1..i - 1 : spans[j] \in Seq(Char)
  <2>1. \A j \in 1..i - 1 : j \in 1..Len(spans)
    BY LenProperties
  <2>. QED
    BY <2>1, ElementOfSeq DEF Span
<1>11. CASE Len(joined) <= ChunkSize
  <2>. DEFINE more == Append(chunks, joined)
  <2>1. /\ Len(more) = Len(chunks) + 1
        /\ \A k \in 1..Len(chunks) : more[k] = chunks[k]
        /\ more[Len(chunks) + 1] = joined
    BY <1>2, <1>6, AppendSeq
  <2>. HIDE DEF more, all, span
  <2>2. Len(all) \in Nat /\ Len(all) >= 1 /\ Len(more) = Len(all) /\ Len(all) - 1 = Len(chunks)
        /\ all[Len(all)] = current /\ more[Len(all)] = joined
    BY <1>4, <2>1
  <2>3. \A k \in 1..Len(all) - 1 : more[k] = all[k]
    BY <1>4, <2>1, <2>2
  <2>4. ASSUME NEW j \in 1..i - 1, StandsIn(spans[j], all[Len(all)])
        PROVE  StandsIn(spans[j], more[Len(all)])
    <3>1. i - 1 # 0
      BY <1>1
    <3>. QED
      BY <1>2, <1>6, <1>10, <2>2, <2>4, <3>1
  <2>5. StandsIn(span, more[Len(more)])
    BY <1>6, <2>2
  <2>6. \A k \in 1..Len(more) - 1 : \A a \in 1..Len(more[k]) : more[k][a] # span[1]
    BY <1>9, <2>1, <2>2
  <2>7. \E h : Housed(more, spans, i, h)
    <3>1. i \in Nat /\ i >= 1 /\ Len(more) \in Nat /\ Len(more) >= Len(all)
      BY <1>1, <2>2
    <3>2. StandsIn(spans[i], more[Len(more)])
          /\ \A k \in 1..Len(more) - 1 : \A a \in 1..Len(more[k]) : more[k][a] # spans[i][1]
      BY <2>5, <2>6, Zenon DEF span
    <3>. QED
      BY <1>3, <2>2, <2>3, <2>4, <3>1, <3>2, HousedOn
  <2>8. Accumulate(acc, span) = [chunks |-> chunks, current |-> joined]
    BY <1>5, <1>11
  <2>9. joined # <<>>
    BY <1>6, EmptySeq
  <2>. DEFINE new == [chunks |-> chunks, current |-> joined]
  <2>10. new.chunks = chunks /\ new.current = joined
         /\ new \in [chunks : Seq(Seq(Char)), current : Seq(Char)]
    BY <1>2, <1>6
  <2>. HIDE DEF new
  <2>11. Cut(new, spans, i)
    BY <1>1, <1>2, <1>8, <1>11, <2>7, <2>9, <2>10 DEF Cut, more
  <2>. QED
    BY <2>8, <2>11 DEF new, span
<1>12. CASE ~(Len(joined) <= ChunkSize)
  <2>. DEFINE more == Append(all, r)
  <2>1. /\ Len(more) = Len(all) + 1 /\ Len(all) \in Nat
        /\ \A k \in 1..Len(all) : more[k] = all[k]
        /\ more[Len(all) + 1] = r
    BY <1>4, <1>7, AppendSeq
  <2>0. current # <<>>
    BY <1>1, <1>6, <1>12
  <2>. HIDE DEF more, all, span
  <2>2. Len(all) \in Nat /\ Len(all) >= 1 /\ Len(more) \in Nat /\ Len(more) >= Len(all)
        /\ Len(more) - 1 = Len(all) /\ more[Len(more)] = r /\ more[Len(all)] = all[Len(all)]
    BY <1>4, <2>1
  <2>3. \A k \in 1..Len(all) - 1 : more[k] = all[k]
    BY <2>1, <2>2
  <2>4. \A j \in 1..i - 1 : StandsIn(spans[j], all[Len(all)]) => StandsIn(spans[j], more[Len(all)])
    BY <2>2
  <2>5. StandsIn(span, more[Len(more)])
    BY <1>7, <2>2
  <2>6. \A k \in 1..Len(more) - 1 : \A a \in 1..Len(more[k]) : more[k][a] # span[1]
    <3>1. ASSUME NEW k \in 1..Len(all), NEW a \in 1..Len(all[k]) PROVE all[k][a] # span[1]
      <4>1. CASE k = Len(chunks) + 1
        BY <1>4, <1>9, <3>1, <4>1
      <4>2. CASE k # Len(chunks) + 1
        <5>1. k \in 1..Len(chunks)
          BY <1>4, <4>2
        <5>. QED
          BY <1>4, <1>9, <3>1, <5>1
      <4>. QED
        BY <4>1, <4>2
    <3>. QED
      BY <2>1, <2>2, <3>1
  <2>7. \E h : Housed(more, spans, i, h)
    <3>1. i \in Nat /\ i >= 1 /\ Len(more) \in Nat /\ Len(more) >= Len(all)
      BY <1>1, <2>2
    <3>2. StandsIn(spans[i], more[Len(more)])
          /\ \A k \in 1..Len(more) - 1 : \A a \in 1..Len(more[k]) : more[k][a] # spans[i][1]
      BY <2>5, <2>6, Zenon DEF span
    <3>. QED
      BY <1>3, <2>2, <2>3, <2>4, <3>1, <3>2, HousedOn
  <2>8. Accumulate(acc, span) = [chunks |-> all, current |-> r]
    BY <1>5, <1>12
  <2>9. r # <<>> /\ Len(current) \in 1..ChunkSize /\ Len(r) <= ChunkSize
    <3>1. Len(current) \in Nat /\ Len(current) # 0
      BY <1>2, <2>0, LenProperties, EmptySeq
    <3>. QED
      BY <1>2, <1>7, <3>1, EmptySeq, SizeNat
  <2>10. ASSUME NEW k \in 1..Len(all)
         PROVE  Len(all[k]) \in 1..ChunkSize /\ From(all[k], spans, i)
    <3>1. CASE k = Len(chunks) + 1
      BY <1>4, <1>8, <2>9, <3>1
    <3>2. CASE k # Len(chunks) + 1
      <4>1. k \in 1..Len(chunks)
        BY <1>4, <3>2
      <4>. QED
        BY <1>2, <1>4, <1>8, <4>1
    <3>. QED
      BY <3>1, <3>2
  <2>. DEFINE new == [chunks |-> all, current |-> r]
  <2>11. new.chunks = all /\ new.current = r
         /\ new \in [chunks : Seq(Seq(Char)), current : Seq(Char)]
    BY <1>4, <1>7
  <2>. HIDE DEF new
  <2>12. Cut(new, spans, i)
    BY <1>1, <1>8, <2>7, <2>9, <2>10, <2>11 DEF Cut, more
  <2>. QED
    BY <2>8, <2>12 DEF new, span
<1>. QED
  BY <1>11, <1>12

\* What KeepsText says of the spans.
KeepsSpans(spans, chunks) ==
    LET homes == [i \in DOMAIN spans |-> {k \in DOMAIN chunks : StandsIn(spans[i], chunks[k])}] IN
    /\ \A k \in DOMAIN chunks : Len(chunks[k]) \in 1..ChunkSize
    /\ \A i \in DOMAIN spans : homes[i] # {}
    /\ \A i \in 2..Len(spans) : Min(homes[i - 1]) <= Min(homes[i])

Start == [chunks |-> <<>>, current |-> <<>>]
Accumulates(spans, acc) ==
    acc = [i \in 0..Len(spans) |-> IF i = 0 THEN Start ELSE Accumulate(acc[i - 1], spans[i])]

LEMMA CutStart == ASSUME NEW spans PROVE Cut(Start, spans, 0)
<1>1. <<>> \in Seq(Char) /\ <<>> \in Seq(Seq(Char)) /\ Len(<<>>) = 0
  BY EmptySeq
<1>2. Start.chunks = <<>> /\ Start.current = <<>>
      /\ Start \in [chunks : Seq(Seq(Char)), current : Seq(Char)]
  BY <1>1 DEF Start
<1>3. Len(Append(<<>>, <<>>)) = 1
  BY <1>1
<1>4. \E home : Housed(Append(<<>>, <<>>), spans, 0, home)
  <2>. DEFINE h == [j \in 1..0 |-> 1]
  <2>1. h \in [1..0 -> 1..1]
    OBVIOUS
  <2>. HIDE DEF h
  <2>2. Housed(Append(<<>>, <<>>), spans, 0, h)
    BY <1>3, <2>1 DEF Housed
  <2>. QED
    BY <2>2
<1>5. From(<<>>, spans, 0)
  BY <1>1 DEF From
<1>. QED
  BY <1>1, <1>2, <1>4, <1>5, SizeNat DEF Cut

LEMMA AccumulateTyped ==
    ASSUME NEW acc \in [chunks : Seq(Seq(Char)), current : Seq(Char)], NEW span \in Span
    PROVE  Accumulate(acc, span) \in [chunks : Seq(Seq(Char)), current : Seq(Char)]
<1>. DEFINE joined == Join(acc.current, Break, span)
            r == Restarted(acc.current, span)
<1>1. joined \in Seq(Char)
  BY JoinHolds
<1>2. r \in Seq(Char)
  BY RestartedHolds
<1>3. Append(acc.chunks, acc.current) \in Seq(Seq(Char))
  BY AppendSeq
<1>. HIDE DEF joined, r
<1>4. /\ [acc EXCEPT !.current = joined] \in [chunks : Seq(Seq(Char)), current : Seq(Char)]
      /\ [chunks |-> Append(acc.chunks, acc.current), current |-> r]
            \in [chunks : Seq(Seq(Char)), current : Seq(Char)]
  BY <1>1, <1>2, <1>3
<1>. QED
  BY <1>4 DEF Accumulate, joined, r

LEMMA AccumulatesOnce ==
    ASSUME NEW text, Spans(text) \in Seq(Span)
    PROVE  \E acc : /\ Accumulates(Spans(text), acc)
                    /\ LET last == acc[Len(Spans(text))] IN
                       chunk_text(text) = IF last.current = <<>> THEN last.chunks
                                          ELSE Append(last.chunks, last.current)
<1>. DEFINE spans == Spans(text)
            n == Len(spans)
            V == [chunks : Seq(Seq(Char)), current : Seq(Char)]
            step == [kv \in (1..n) \X V |-> Accumulate(kv[2], spans[kv[1]])]
<1>1. n \in Nat /\ Start \in V /\ \A k \in 1..n : spans[k] \in Span
  BY LenProperties, ElementOfSeq, CutStart DEF Cut
<1>2. \A k \in 1..n : \A v \in V : step[<<k, v>>] = Accumulate(v, spans[k])
  OBVIOUS
<1>3. StepsIn(n, V, step)
  <2>1. \A k \in 1..n : \A v \in V : Accumulate(v, spans[k]) \in V
    BY <1>1, AccumulateTyped
  <2>. HIDE DEF n, V, step, spans
  <2>. QED
    BY <1>2, <2>1 DEF StepsIn
<1>. HIDE DEF step, V
<1>4. PICK f \in [0..n -> V] : Follows(n, Start, step, f)
  <2>. HIDE DEF n
  <2>. QED
    BY <1>1, <1>3, Recursion
<1>5. ASSUME NEW k \in 0..n
      PROVE  f[k] = (IF k = 0 THEN Start ELSE Accumulate(f[k - 1], spans[k]))
  <2>. HIDE DEF n, spans
  <2>1. CASE k = 0
    BY <1>4, <2>1 DEF Follows
  <2>2. CASE k # 0
    <3>1. k \in 1..n /\ k - 1 \in 0..n
      BY <1>1, <2>2
    <3>2. f[k - 1] \in V
      BY <1>4, <3>1
    <3>. QED
      BY <1>2, <1>4, <2>2, <3>1, <3>2 DEF Follows
  <2>. QED
    BY <2>1, <2>2
<1>6. Accumulates(spans, f)
  <2>. HIDE DEF spans
  <2>. QED
    BY <1>4, <1>5 DEF Accumulates
<1>. DEFINE last == (CHOOSE g : Accumulates(spans, g))[n]
<1>7. chunk_text(text) = IF last.current = <<>> THEN last.chunks ELSE Append(last.chunks, last.current)
  BY DEF chunk_text, Accumulates, Start
<1>8. Accumulates(spans, CHOOSE g : Accumulates(spans, g))
  BY <1>6
<1>. QED
  BY <1>7, <1>8

\* The chunks keep what they are cut from, whatever it is cut into.
LEMMA SpansKept ==
    ASSUME NEW text, Spans(text) \in Seq(Span), InOrder(Spans(text), Fresh)
    PROVE  chunk_text(text) \in Seq(Seq(Char)) /\ KeepsSpans(Spans(text), chunk_text(text))
<1>. DEFINE spans == Spans(text)
            n == Len(spans)
            all == chunk_text(text)
<1>1. n \in Nat
  BY LenProperties
<1>2. PICK acc : /\ Accumulates(spans, acc)
                 /\ chunk_text(text) = IF acc[n].current = <<>> THEN acc[n].chunks
                                       ELSE Append(acc[n].chunks, acc[n].current)
  BY AccumulatesOnce
<1>3. Cut(acc[n], spans, n)
  <2>. DEFINE Good == {k \in 0..n : Cut(acc[k], spans, k)}
  <2>. HIDE DEF n, spans
  <2>0. \A k \in 0..n : acc[k] = IF k = 0 THEN Start ELSE Accumulate(acc[k - 1], spans[k])
    BY <1>2 DEF Accumulates, n
  <2>1. 0 \in Good
    BY <1>1, <2>0, CutStart
  <2>2. ASSUME NEW k \in 1..n, k - 1 \in Good PROVE k \in Good
    <3>1. k \in 0..n /\ acc[k] = Accumulate(acc[k - 1], spans[k])
      BY <1>1, <2>0
    <3>2. Cut(acc[k - 1], spans, k - 1)
      BY <2>2
    <3>3. Cut(Accumulate(acc[k - 1], spans[k]), spans, k)
      BY <3>2, AccumulateKeeps DEF n, spans
    <3>. QED
      BY <3>1, <3>3
  <2>. HIDE DEF Good
  <2>3. n \in Good
    <3>1. \A k \in 0..n : k \in Good
      BY <1>1, <2>1, <2>2, UpTo
    <3>2. n \in 0..n
      BY <1>1
    <3>. QED
      BY <3>1, <3>2
  <2>. QED
    BY <2>3 DEF Good
<1>. DEFINE last == acc[n]
<1>4. /\ last.chunks \in Seq(Seq(Char)) /\ last.current \in Seq(Char)
      /\ \A k \in 1..Len(last.chunks) : Len(last.chunks[k]) \in 1..ChunkSize
      /\ Len(last.current) <= ChunkSize
      /\ n # 0 => last.current # <<>>
      /\ n = 0 => last.chunks = <<>> /\ last.current = <<>>
      /\ \E home : Housed(Append(last.chunks, last.current), spans, n, home)
  BY <1>3 DEF Cut
<1>5. CASE n = 0
  <2>1. all = <<>>
    BY <1>2, <1>4, <1>5
  <2>2. \A k \in DOMAIN all : FALSE
    BY <2>1
  <2>3. \A i \in DOMAIN spans : FALSE
    BY <1>5, LenProperties
  <2>4. \A i \in 2..n : FALSE
    BY <1>5
  <2>. HIDE DEF all
  <2>5. KeepsSpans(spans, all)
    BY <2>2, <2>3, <2>4 DEF KeepsSpans
  <2>. QED
    BY <2>1, <2>5, EmptySeq DEF all
<1>6. CASE n # 0
  <2>. DEFINE homes == [i \in DOMAIN spans |-> {k \in DOMAIN all : StandsIn(spans[i], all[k])}]
  <2>1. all = Append(last.chunks, last.current) /\ last.current # <<>>
    BY <1>2, <1>4, <1>6
  <2>2. PICK home : Housed(all, spans, n, home)
    BY <1>4, <2>1
  <2>3. /\ all \in Seq(Seq(Char)) /\ Len(all) = Len(last.chunks) + 1 /\ Len(last.chunks) \in Nat
        /\ \A k \in 1..Len(last.chunks) : all[k] = last.chunks[k]
        /\ all[Len(last.chunks) + 1] = last.current
    <3>. HIDE DEF last, all
    <3>. QED
      BY <1>4, <2>1, AppendSeq
  <2>. HIDE DEF last, all
  <2>4. DOMAIN all = 1..Len(all) /\ Len(all) \in Nat /\ \A k \in 1..Len(all) : all[k] \in Seq(Char)
    BY <2>3, LenProperties, ElementOfSeq
  <2>5. ASSUME NEW k \in DOMAIN all PROVE Len(all[k]) \in 1..ChunkSize
    <3>1. CASE k = Len(last.chunks) + 1
      <4>1. Len(last.current) \in Nat \ {0}
        BY <1>4, <2>1, EmptySeq
      <4>. QED
        BY <1>4, <2>3, <3>1, <4>1, SizeNat
    <3>2. CASE k # Len(last.chunks) + 1
      <4>1. k \in 1..Len(last.chunks)
        BY <2>3, <2>4, <3>2
      <4>. QED
        BY <1>4, <2>3, <4>1
    <3>. QED
      BY <3>1, <3>2
  <2>6. DOMAIN spans = 1..n
    BY LenProperties
  <2>7. /\ home \in [1..n -> 1..Len(all)]
        /\ \A j \in 1..n : StandsIn(spans[j], all[home[j]])
        /\ \A j \in 1..n : \A k \in 1..Len(all) : k < home[j] =>
              \A a \in 1..Len(all[k]) : all[k][a] # spans[j][1]
        /\ \A j \in 2..n : home[j - 1] <= home[j]
    BY <2>2 DEF Housed
  <2>8. ASSUME NEW j \in 1..n PROVE Min(homes[j]) = home[j] /\ homes[j] # {}
    <3>. DEFINE S == {k \in DOMAIN all : StandsIn(spans[j], all[k])}
    <3>1. homes[j] = S
      BY <2>6
    <3>2. home[j] \in S /\ S \subseteq 1..Len(all)
      BY <2>4, <2>7
    <3>3. ASSUME NEW k \in S PROVE home[j] <= k
      <4>1. SUFFICES ASSUME k < home[j] PROVE FALSE
        BY <2>4, <3>2
      <4>2. spans[j] \in Seq(Char) /\ Len(spans[j]) \in Nat /\ Len(spans[j]) >= 1
            /\ DOMAIN spans[j] = 1..Len(spans[j])
        <5>1. spans[j] \in Span
          BY ElementOfSeq
        <5>. QED
          BY <5>1, SizeNat, LenProperties DEF Span
      <4>3. all[k] \in Seq(Char) /\ Len(all[k]) \in Nat /\ k \in 1..Len(all)
        BY <2>4, LenProperties
      <4>4. \E a \in 1..Len(all[k]) : all[k][a] = spans[j][1]
        <5>1. StandsIn(spans[j], all[k])
          OBVIOUS
        <5>. QED
          BY <4>2, <4>3, <5>1, StandsFirst
      <4>. QED
        BY <2>7, <4>1, <4>3, <4>4
    <3>. HIDE DEF S
    <3>4. Min(S) \in S /\ \A k \in S : Min(S) <= k
      <4>1. S \in SUBSET Nat /\ S # {}
        BY <3>2
      <4>. QED
        BY <4>1, Lowest
    <3>5. Min(S) = home[j]
      <4>1. Min(S) <= home[j] /\ home[j] <= Min(S) /\ Min(S) \in Int /\ home[j] \in Int
        <5>1. Min(S) <= home[j] /\ home[j] <= Min(S)
          BY <3>2, <3>3, <3>4
        <5>2. Min(S) \in 1..Len(all) /\ home[j] \in 1..Len(all)
          BY <3>2, <3>4
        <5>. QED
          BY <5>1, <5>2
      <4>. QED
        BY <4>1
    <3>. QED
      BY <3>1, <3>2, <3>5
  <2>. HIDE DEF homes
  <2>9. ASSUME NEW j \in 2..n PROVE Min(homes[j - 1]) <= Min(homes[j])
    <3>1. j \in 1..n /\ j - 1 \in 1..n
      OBVIOUS
    <3>. QED
      BY <2>7, <2>8, <3>1
  <2>10. KeepsSpans(spans, all)
    BY <2>5, <2>6, <2>8, <2>9 DEF KeepsSpans, homes
  <2>. QED
    BY <2>3, <2>10 DEF all
<1>. QED
  BY <1>5, <1>6

-----------------------------------------------------------------------------
(* Spans of a text.                                                        *)

Place(p, s, k) == <<p, s, k>>

\* Spans whose characters are of the paragraph p.
SpansOf(p) == {x \in Span : \A a \in 1..Len(x) :
                  x[a] = Blank \/ \E s \in Nat, k \in Nat : x[a] = Place(p, s, k)}

LEMMA PlaceSolid ==
    ASSUME NEW p \in Nat, NEW s \in Nat, NEW k \in Nat
    PROVE  Place(p, s, k) \in Solid /\ Place(p, s, k) \in Char /\ Place(p, s, k) # Blank
<1>1. Place(p, s, k) \in Solid
  BY DEF Place, Solid
<1>. QED
  BY <1>1, BlankNotSolid

LEMMA TextHolds ==
    ASSUME NEW text \in Text
    PROVE  /\ Len(text) \in Nat /\ DOMAIN text = 1..Len(text)
           /\ \A p \in 1..Len(text) :
                 /\ text[p] \in Seq(Nat \ {0}) /\ Len(text[p]) \in Nat /\ Len(text[p]) >= 1
                 /\ DOMAIN text[p] = 1..Len(text[p])
                 /\ \A s \in 1..Len(text[p]) : text[p][s] \in Nat /\ text[p][s] >= 1
<1>. DEFINE S == {paragraph \in Seq(Nat \ {0}) : paragraph # <<>>}
<1>1. text \in Seq(S)
  BY DEF Text
<1>2. ASSUME NEW x \in S
      PROVE  /\ x \in Seq(Nat \ {0}) /\ Len(x) \in Nat /\ Len(x) >= 1 /\ DOMAIN x = 1..Len(x)
             /\ \A s \in 1..Len(x) : x[s] \in Nat /\ x[s] >= 1
  <2>1. x \in Seq(Nat \ {0}) /\ x # <<>>
    OBVIOUS
  <2>2. \A s \in 1..Len(x) : x[s] \in Nat \ {0}
    BY <2>1, ElementOfSeq
  <2>3. Len(x) \in Nat \ {0} /\ DOMAIN x = 1..Len(x)
    BY <2>1, EmptySeq, LenProperties
  <2>. QED
    BY <2>1, <2>2, <2>3
<1>. HIDE DEF S
<1>3. Len(text) \in Nat /\ DOMAIN text = 1..Len(text) /\ \A p \in 1..Len(text) : text[p] \in S
  BY <1>1, LenProperties, ElementOfSeq
<1>. QED
  BY <1>2, <1>3

LEMMA SentenceHolds ==
    ASSUME NEW text \in Text, NEW p \in 1..Len(text), NEW s \in 1..Len(text[p])
    PROVE  /\ Sentence(text, p, s) \in Seq(Char)
           /\ Len(Sentence(text, p, s)) = text[p][s]
           /\ \A k \in 1..text[p][s] : Sentence(text, p, s)[k] = Place(p, s, k)
<1>. DEFINE n == text[p][s]
<1>1. n \in Nat /\ p \in Nat /\ s \in Nat
  BY TextHolds
<1>2. Sentence(text, p, s) = [k \in 1..n |-> Place(p, s, k)]
  BY DEF Sentence, Place
<1>. HIDE DEF n
<1>3. \A k \in 1..n : Place(p, s, k) \in Char
  BY <1>1, PlaceSolid
<1>4. [k \in 1..n |-> Place(p, s, k)] \in Seq(Char)
  BY <1>1, <1>3, IsASeq
<1>. QED
  BY <1>1, <1>2, <1>4 DEF n

\* A sequence of characters of a paragraph, with no blank ends.
Piece(p) == {x \in Seq(Char) :
                /\ Len(x) >= 1 /\ x[1] \in Solid /\ x[Len(x)] \in Solid
                /\ \A a \in 1..Len(x) : x[a] = Blank \/ \E s \in Nat, k \in Nat : x[a] = Place(p, s, k)}

LEMMA SentencePiece ==
    ASSUME NEW text \in Text, NEW p \in 1..Len(text), NEW s \in 1..Len(text[p])
    PROVE  Sentence(text, p, s) \in Piece(p)
<1>. DEFINE x == Sentence(text, p, s)
<1>1. /\ x \in Seq(Char) /\ Len(x) \in Nat /\ Len(x) >= 1 /\ p \in Nat /\ s \in Nat
      /\ \A k \in 1..Len(x) : x[k] = Place(p, s, k)
  <2>1. text[p][s] \in Nat /\ text[p][s] >= 1 /\ p \in Nat /\ s \in Nat
    BY TextHolds
  <2>2. x \in Seq(Char) /\ Len(x) = text[p][s] /\ \A k \in 1..text[p][s] : x[k] = Place(p, s, k)
    BY SentenceHolds
  <2>. HIDE DEF x
  <2>. QED
    BY <2>1, <2>2
<1>. HIDE DEF x
<1>2. x[1] \in Solid /\ x[Len(x)] \in Solid
  <2>1. 1 \in 1..Len(x) /\ Len(x) \in 1..Len(x) /\ 1 \in Nat
    BY <1>1
  <2>. QED
    BY <1>1, <2>1, PlaceSolid
<1>3. \A a \in 1..Len(x) : \E k \in Nat : x[a] = Place(p, s, k)
  <2>1. \A a \in 1..Len(x) : a \in Nat
    BY <1>1
  <2>. QED
    BY <1>1, <2>1
<1>. QED
  BY <1>1, <1>2, <1>3 DEF Piece, x

LEMMA JoinPieces ==
    ASSUME NEW p, NEW before \in Seq(Char), before # <<>> => before \in Piece(p), NEW part \in Piece(p)
    PROVE  Join(before, <<Blank>>, part) \in Piece(p)
<1>1. CASE before = <<>>
  BY <1>1 DEF Join
<1>2. CASE before # <<>>
  <2>. DEFINE gap == <<Blank>>
              w == before \o gap
              whole == w \o part
  <2>1. gap \in Seq(Char) /\ Len(gap) = 1 /\ gap[1] = Blank
    BY BlankNotSolid
  <2>2. /\ before \in Seq(Char) /\ Len(before) \in Nat /\ Len(before) >= 1
        /\ part \in Seq(Char) /\ Len(part) \in Nat /\ Len(part) >= 1
        /\ before[1] \in Solid /\ part[Len(part)] \in Solid
    BY <1>2, LenProperties DEF Piece
  <2>. HIDE DEF gap
  <2>3. /\ w \in Seq(Char) /\ Len(w) = Len(before) + Len(gap) /\ Len(w) \in Nat
        /\ \A a \in 1..Len(before) + Len(gap) :
              w[a] = IF a <= Len(before) THEN before[a] ELSE gap[a - Len(before)]
    BY <2>1, <2>2, ConcatProperties, LenProperties
  <2>. HIDE DEF w
  <2>4. /\ whole \in Seq(Char) /\ Len(whole) = Len(w) + Len(part) /\ Len(whole) \in Nat
        /\ \A a \in 1..Len(w) + Len(part) : whole[a] = IF a <= Len(w) THEN w[a] ELSE part[a - Len(w)]
    <3>1. part \in Seq(Char) /\ w \in Seq(Char)
      BY <2>2, <2>3
    <3>. QED
      BY <3>1, ConcatProperties, LenProperties
  <2>. HIDE DEF whole
  <2>5. whole[1] = before[1]
    <3>1. 1 \in 1..Len(w) + Len(part) /\ 1 <= Len(w) /\ 1 \in 1..Len(before) + Len(gap) /\ 1 <= Len(before)
      BY <2>1, <2>2, <2>3
    <3>. QED
      BY <2>3, <2>4, <3>1
  <2>6. whole[Len(whole)] = part[Len(part)]
    <3>1. /\ Len(whole) \in 1..Len(w) + Len(part) /\ ~(Len(whole) <= Len(w))
          /\ Len(whole) - Len(w) = Len(part)
      BY <2>2, <2>3, <2>4
    <3>. QED
      BY <2>4, <3>1
  <2>. DEFINE Own(c) == c = Blank \/ \E s \in Nat, k \in Nat : c = Place(p, s, k)
  <2>7. (\A a \in 1..Len(before) : Own(before[a])) /\ (\A a \in 1..Len(part) : Own(part[a]))
    BY <1>2 DEF Piece
  <2>8. Own(Blank)
    OBVIOUS
  <2>. HIDE DEF Own
  <2>9. ASSUME NEW a \in 1..Len(whole) PROVE Own(whole[a])
    <3>1. CASE a <= Len(before)
      <4>0. a \in 1..Len(before) /\ a \in 1..Len(before) + Len(gap) /\ a \in 1..Len(w) + Len(part)
            /\ a <= Len(w)
        BY <2>1, <2>2, <2>3, <2>4, <3>1
      <4>1. whole[a] = w[a] /\ w[a] = before[a]
        BY <2>3, <2>4, <3>1, <4>0
      <4>. QED
        BY <2>7, <4>0, <4>1
    <3>2. CASE a = Len(before) + 1
      <4>1. a \in 1..Len(w) + Len(part) /\ a <= Len(w) /\ a \in 1..Len(before) + Len(gap)
            /\ ~(a <= Len(before)) /\ a - Len(before) = 1
        BY <2>1, <2>2, <2>3, <2>4, <3>2
      <4>2. whole[a] = Blank
        BY <2>1, <2>3, <2>4, <4>1
      <4>. QED
        BY <2>8, <4>2
    <3>3. CASE a > Len(w)
      <4>1. a - Len(w) \in 1..Len(part) /\ whole[a] = part[a - Len(w)]
        BY <2>2, <2>3, <2>4, <3>3
      <4>. QED
        BY <2>7, <4>1
    <3>. QED
      BY <2>1, <2>2, <2>3, <2>4, <3>1, <3>2, <3>3
  <2>10. whole \in Piece(p)
    BY <2>2, <2>3, <2>4, <2>5, <2>6, <2>9 DEF Piece, Own
  <2>11. Join(before, <<Blank>>, part) = whole
    BY <1>2 DEF Join, whole, w, gap
  <2>. QED
    BY <2>10, <2>11
<1>. QED
  BY <1>1, <1>2

\* A sequence has x at some place.
Has(s, x) == \E a \in 1..Len(s) : s[a] = x

LEMMA ConcatHas ==
    ASSUME NEW S, NEW s \in Seq(S), NEW r \in Seq(S), NEW x, Has(s, x) \/ Has(r, x)
    PROVE  Has(s \o r, x)
<1>. DEFINE both == s \o r
<1>1. /\ Len(s) \in Nat /\ Len(r) \in Nat /\ Len(both) = Len(s) + Len(r)
      /\ \A k \in 1..Len(s) + Len(r) : both[k] = IF k <= Len(s) THEN s[k] ELSE r[k - Len(s)]
  BY ConcatProperties, LenProperties
<1>. HIDE DEF both
<1>2. CASE Has(s, x)
  <2>1. PICK a \in 1..Len(s) : s[a] = x
    BY <1>2 DEF Has
  <2>2. a \in 1..Len(s) + Len(r) /\ a <= Len(s)
    BY <1>1
  <2>. QED
    BY <1>1, <2>1, <2>2 DEF Has, both
<1>3. CASE Has(r, x)
  <2>1. PICK a \in 1..Len(r) : r[a] = x
    BY <1>3 DEF Has
  <2>2. Len(s) + a \in 1..Len(s) + Len(r) /\ ~(Len(s) + a <= Len(s)) /\ (Len(s) + a) - Len(s) = a
    BY <1>1
  <2>. QED
    BY <1>1, <2>1, <2>2 DEF Has, both
<1>. QED
  BY <1>2, <1>3

LEMMA JoinHas ==
    ASSUME NEW before \in Seq(Char), NEW part \in Seq(Char), NEW x, Has(before, x) \/ Has(part, x)
    PROVE  Has(Join(before, <<Blank>>, part), x)
<1>1. <<Blank>> \in Seq(Char)
  BY BlankNotSolid
<1>2. CASE before = <<>>
  <2>1. ~Has(before, x)
    BY <1>2 DEF Has
  <2>. QED
    BY <1>2, <2>1 DEF Join
<1>3. CASE before # <<>>
  <2>. DEFINE w == before \o <<Blank>>
  <2>1. w \in Seq(Char) /\ (Has(before, x) => Has(w, x))
    BY <1>1, ConcatHas, ConcatProperties
  <2>. HIDE DEF w
  <2>2. Has(w \o part, x)
    BY <2>1, ConcatHas
  <2>. QED
    BY <1>3, <2>2 DEF Join, w
<1>. QED
  BY <1>2, <1>3

Joins(text, p, joined) ==
    joined = [s \in 0..Len(text[p]) |->
                IF s = 0 THEN <<>> ELSE Join(joined[s - 1], <<Blank>>, Sentence(text, p, s))]

LEMMA ParagraphOnce ==
    ASSUME NEW text \in Text, NEW p \in 1..Len(text)
    PROVE  \E joined : Joins(text, p, joined) /\ Paragraph(text, p) = joined[Len(text[p])]
<1>. DEFINE n == Len(text[p])
            V == Seq(Char)
            step == [kv \in (1..n) \X V |-> Join(kv[2], <<Blank>>, Sentence(text, p, kv[1]))]
<1>1. n \in Nat /\ n >= 1 /\ <<>> \in V
  BY TextHolds, EmptySeq
<1>2. \A k \in 1..n : Sentence(text, p, k) \in Piece(p)
  BY SentencePiece
<1>3. \A k \in 1..n : \A v \in V : step[<<k, v>>] = Join(v, <<Blank>>, Sentence(text, p, k))
  OBVIOUS
<1>4. StepsIn(n, V, step)
  <2>1. ASSUME NEW k \in 1..n, NEW v \in V PROVE Join(v, <<Blank>>, Sentence(text, p, k)) \in V
    <3>1. Sentence(text, p, k) \in Seq(Char)
      BY <1>2 DEF Piece
    <3>2. <<Blank>> \in Seq(Char)
      BY BlankNotSolid
    <3>3. (v \o <<Blank>>) \o Sentence(text, p, k) \in Seq(Char)
      BY <3>1, <3>2, ConcatProperties
    <3>. QED
      BY <3>1, <3>3 DEF Join
  <2>. HIDE DEF n, V, step
  <2>. QED
    BY <1>3, <2>1 DEF StepsIn
<1>. HIDE DEF step
<1>5. PICK f \in [0..n -> V] : Follows(n, <<>>, step, f)
  <2>. HIDE DEF n, V
  <2>. QED
    BY <1>1, <1>4, Recursion
<1>6. ASSUME NEW k \in 0..n
      PROVE  f[k] = (IF k = 0 THEN <<>> ELSE Join(f[k - 1], <<Blank>>, Sentence(text, p, k)))
  <2>. HIDE DEF n
  <2>1. CASE k = 0
    BY <1>5, <2>1 DEF Follows
  <2>2. CASE k # 0
    <3>1. k \in 1..n /\ k - 1 \in 0..n
      BY <1>1, <2>2
    <3>2. f[k - 1] \in V
      BY <1>5, <3>1
    <3>. HIDE DEF V
    <3>. QED
      BY <1>3, <1>5, <2>2, <3>1, <3>2 DEF Follows
  <2>. QED
    BY <2>1, <2>2
<1>7. Joins(text, p, f)
  <2>. HIDE DEF V
  <2>. QED
    BY <1>5, <1>6 DEF Joins
<1>. DEFINE g == CHOOSE x : Joins(text, p, x)
<1>8. Paragraph(text, p) = g[n]
  BY DEF Paragraph, Joins
<1>9. Joins(text, p, g)
  BY <1>7
<1>. QED
  BY <1>8, <1>9

\* Of its sentences a paragraph has all characters.
LEMMA ParagraphHolds ==
    ASSUME NEW text \in Text, NEW p \in 1..Len(text)
    PROVE  /\ Paragraph(text, p) \in Piece(p)
           /\ \A s \in 1..Len(text[p]) : \A k \in 1..text[p][s] : Has(Paragraph(text, p), Place(p, s, k))
<1>. DEFINE n == Len(text[p])
<1>1. n \in Nat /\ n >= 1 /\ <<>> \in Seq(Char)
  BY TextHolds, EmptySeq
<1>2. PICK g : Joins(text, p, g) /\ Paragraph(text, p) = g[n]
  BY ParagraphOnce
<1>3. \A k \in 0..n : g[k] = IF k = 0 THEN <<>> ELSE Join(g[k - 1], <<Blank>>, Sentence(text, p, k))
  BY <1>2 DEF Joins
<1>. HIDE DEF n
<1>. DEFINE Have(k) == \A s \in 1..k : \A l \in 1..text[p][s] : Has(g[k], Place(p, s, l))
            Good == {k \in 0..n : /\ g[k] \in Seq(Char) /\ (g[k] # <<>> => g[k] \in Piece(p))
                                  /\ k # 0 => g[k] \in Piece(p)
                                  /\ Have(k)}
<1>4. 0 \in Good
  <2>1. 0 \in 0..n /\ \A s \in 1..0 : FALSE
    BY <1>1
  <2>2. g[0] = <<>>
    BY <1>3, <2>1, Zenon
  <2>. QED
    BY <1>1, <2>1, <2>2
<1>5. ASSUME NEW k \in 1..n, k - 1 \in Good PROVE k \in Good
  <2>. DEFINE before == g[k - 1]
              part == Sentence(text, p, k)
  <2>1. k \in 0..n /\ k # 0
    BY <1>1
  <2>2. g[k] = Join(before, <<Blank>>, part)
    BY <1>3, <2>1, Zenon
  <2>3. before \in Seq(Char) /\ (before # <<>> => before \in Piece(p)) /\ Have(k - 1)
    BY <1>5
  <2>4. part \in Piece(p) /\ part \in Seq(Char)
    BY SentencePiece DEF Piece, n
  <2>5. ASSUME NEW l \in 1..text[p][k] PROVE Has(part, Place(p, k, l))
    <3>1. Len(part) = text[p][k] /\ part[l] = Place(p, k, l)
      BY SentenceHolds DEF n
    <3>. QED
      BY <3>1 DEF Has
  <2>. HIDE DEF part, before
  <2>6. Join(before, <<Blank>>, part) \in Piece(p)
    BY <2>3, <2>4, JoinPieces
  <2>7. \A x : Has(before, x) \/ Has(part, x) => Has(g[k], x)
    BY <2>2, <2>3, <2>4, JoinHas
  <2>8. ASSUME NEW s \in 1..k, NEW l \in 1..text[p][s] PROVE Has(g[k], Place(p, s, l))
    <3>1. CASE s = k
      BY <2>5, <2>7, <3>1
    <3>2. CASE s # k
      <4>1. s \in 1..k - 1
        BY <1>1, <3>2
      <4>2. Has(before, Place(p, s, l))
        BY <2>3, <4>1, Zenon DEF before
      <4>. QED
        BY <2>7, <4>2
    <3>. QED
      BY <3>1, <3>2
  <2>9. g[k] \in Piece(p) /\ g[k] \in Seq(Char)
    BY <2>2, <2>6 DEF Piece
  <2>. QED
    BY <2>1, <2>8, <2>9
<1>6. \A k \in 0..n : k \in Good
  <2>. HIDE DEF Good
  <2>. QED
    BY <1>1, <1>4, <1>5, UpTo
<1>7. g[n] \in Piece(p) /\ Have(n)
  <2>1. n \in 0..n /\ n # 0
    BY <1>1
  <2>. QED
    BY <1>6, <2>1
<1>. QED
  BY <1>2, <1>7 DEF n

\* A piece that fits is a span.
LEMMA PieceSpan ==
    ASSUME NEW p, NEW x \in Piece(p), Len(x) <= ChunkSize
    PROVE  x \in SpansOf(p)
<1>1. x \in Seq(Char) /\ Len(x) \in Nat /\ Len(x) >= 1 /\ x[1] \in Solid /\ x[Len(x)] \in Solid
      /\ \A a \in 1..Len(x) : x[a] = Blank \/ \E s \in Nat, k \in Nat : x[a] = Place(p, s, k)
  BY LenProperties DEF Piece
<1>2. Len(x) \in 1..ChunkSize
  BY <1>1, SizeNat
<1>. QED
  BY <1>1, <1>2 DEF SpansOf, Span

LEMMA Division ==
    ASSUME NEW n \in Nat, NEW c \in Nat, c >= 1
    PROVE  /\ (n + c - 1) \div c \in Nat
           /\ \A k \in 1..(n + c - 1) \div c : (k - 1) * c \in Nat /\ k * c = (k - 1) * c + c /\ (k - 1) * c < n
<1>. DEFINE q == (n + c - 1) \div c
<1>1. q \in Int /\ q * c <= n + c - 1 /\ q >= 0
  OBVIOUS
<1>. HIDE DEF q
<1>2. ASSUME NEW k \in 1..q PROVE (k - 1) * c \in Nat /\ k * c = (k - 1) * c + c /\ (k - 1) * c < n
  <2>1. k \in Nat /\ k - 1 \in Nat /\ k <= q
    BY <1>1
  <2>2. k * c <= q * c
    BY <1>1, <2>1
  <2>3. (k - 1) * c \in Nat /\ k * c = (k - 1) * c + c
    BY <2>1
  <2>. QED
    BY <1>1, <2>2, <2>3
<1>. QED
  BY <1>1, <1>2 DEF q

\* Where the piece k of chars begins and ends.
LEMMA HardSplitHolds ==
    ASSUME NEW chars \in Seq(Char)
    PROVE  LET pieces == HardSplit(chars)
               n == (Len(chars) + ChunkSize - 1) \div ChunkSize IN
           /\ n \in Nat
           /\ \A k \in 1..n : \E at \in Nat, to \in Nat :
                 /\ at >= 1 /\ to >= at /\ to <= Len(chars) /\ to - at + 1 <= ChunkSize
                 /\ at = (k - 1) * ChunkSize + 1 /\ to <= k * ChunkSize
                 /\ (to = k * ChunkSize \/ to = Len(chars))
                 /\ pieces[k] = SubSeq(chars, at, to)
           /\ pieces = [k \in 1..n |-> pieces[k]]
<1>. DEFINE pieces == HardSplit(chars)
            n == (Len(chars) + ChunkSize - 1) \div ChunkSize
            From1(k) == (k - 1) * ChunkSize + 1
            To(k) == Min({k * ChunkSize, Len(chars)})
<1>1. Len(chars) \in Nat
  BY LenProperties
<1>2. /\ n \in Nat
      /\ \A k \in 1..n : /\ (k - 1) * ChunkSize \in Nat
                         /\ k * ChunkSize = (k - 1) * ChunkSize + ChunkSize
                         /\ (k - 1) * ChunkSize < Len(chars)
  BY <1>1, SizeNat, Division
<1>3. pieces = [k \in 1..n |-> SubSeq(chars, From1(k), To(k))]
  BY DEF HardSplit
<1>. HIDE DEF pieces, n, From1, To
<1>4. pieces = [k \in 1..n |-> pieces[k]] /\ \A k \in 1..n : pieces[k] = SubSeq(chars, From1(k), To(k))
  BY <1>3
<1>5. ASSUME NEW k \in 1..n
      PROVE  \E at \in Nat, to \in Nat :
                 /\ at >= 1 /\ to >= at /\ to <= Len(chars) /\ to - at + 1 <= ChunkSize
                 /\ at = (k - 1) * ChunkSize + 1 /\ to <= k * ChunkSize
                 /\ (to = k * ChunkSize \/ to = Len(chars))
                 /\ pieces[k] = SubSeq(chars, at, to)
  <2>. DEFINE a == (k - 1) * ChunkSize
              b == k * ChunkSize
              S == {b, Len(chars)}
  <2>1. a \in Nat /\ b = a + ChunkSize /\ a < Len(chars)
    BY <1>2
  <2>2. From1(k) = a + 1 /\ To(k) = Min(S)
    BY DEF From1, To
  <2>. HIDE DEF a, b
  <2>3. S \in SUBSET Nat /\ S # {} /\ b \in S /\ Len(chars) \in S
    BY <1>1, <2>1, SizeNat
  <2>4. Min(S) \in S /\ \A y \in S : Min(S) <= y
    <3>. HIDE DEF S
    <3>. QED
      BY <2>3, Lowest
  <2>. HIDE DEF S
  <2>5. Min(S) \in {b, Len(chars)} /\ Min(S) <= b /\ Min(S) <= Len(chars)
    BY <2>3, <2>4 DEF S
  <2>. DEFINE m == Min(S)
  <2>. HIDE DEF m
  <2>6. m \in Nat /\ a + 1 \in Nat /\ a + 1 >= 1 /\ m >= a + 1 /\ m <= Len(chars)
        /\ m - (a + 1) + 1 <= ChunkSize /\ m <= b /\ (m = b \/ m = Len(chars))
    BY <1>1, <2>1, <2>5, SizeNat DEF m
  <2>7. pieces[k] = SubSeq(chars, a + 1, m)
    BY <1>4, <2>2, Zenon DEF m
  <2>8. a + 1 = (k - 1) * ChunkSize + 1 /\ m <= k * ChunkSize /\ (m = k * ChunkSize \/ m = Len(chars))
    BY <2>6 DEF a, b
  <2>. QED
    BY <2>6, <2>7, <2>8
<1>. QED
  BY <1>2, <1>4, <1>5 DEF pieces, n

LEMMA SplitSentence ==
    ASSUME NEW text \in Text, NEW p \in 1..Len(text), NEW s \in 1..Len(text[p])
    PROVE  LET pieces == HardSplit(Sentence(text, p, s)) IN
           /\ pieces \in Seq(SpansOf(p)) /\ InOrder(pieces, Fresh)
           /\ \A k \in 1..Len(pieces) : \A a \in 1..Len(pieces[k]) :
                 \E b \in Nat : pieces[k][a] = Place(p, s, b)
<1>. DEFINE x == Sentence(text, p, s)
            pieces == HardSplit(x)
            n == (Len(x) + ChunkSize - 1) \div ChunkSize
            Edge(k, at, to) == at = (k - 1) * ChunkSize + 1 /\ to <= k * ChunkSize
<1>1. x \in Seq(Char) /\ Len(x) \in Nat /\ p \in Nat /\ s \in Nat
      /\ \A k \in 1..Len(x) : x[k] = Place(p, s, k)
  <2>1. text[p][s] \in Nat /\ p \in Nat /\ s \in Nat
    BY TextHolds
  <2>2. /\ x \in Seq(Char) /\ Len(x) = text[p][s]
        /\ \A k \in 1..text[p][s] : x[k] = Place(p, s, k)
    BY SentenceHolds
  <2>. HIDE DEF x
  <2>. QED
    BY <2>1, <2>2
<1>. HIDE DEF x
<1>2. /\ n \in Nat
      /\ \A k \in 1..n : \E at \in Nat, to \in Nat :
            /\ at >= 1 /\ to >= at /\ to <= Len(x) /\ to - at + 1 <= ChunkSize
            /\ Edge(k, at, to)
            /\ pieces[k] = SubSeq(x, at, to)
      /\ pieces = [k \in 1..n |-> pieces[k]]
  BY <1>1, HardSplitHolds
<1>. HIDE DEF n, pieces, Edge
<1>3. ASSUME NEW k \in 1..n
      PROVE  \E at \in Nat, to \in Nat :
                /\ at >= 1 /\ to >= at /\ to <= Len(x) /\ to - at + 1 <= ChunkSize
                /\ Edge(k, at, to)
                /\ pieces[k] \in Seq(Char) /\ Len(pieces[k]) = to - at + 1
                /\ \A a \in 1..Len(pieces[k]) : pieces[k][a] = Place(p, s, at + a - 1)
  <2>1. PICK at \in Nat, to \in Nat :
            /\ at >= 1 /\ to >= at /\ to <= Len(x) /\ to - at + 1 <= ChunkSize
            /\ Edge(k, at, to)
            /\ pieces[k] = SubSeq(x, at, to)
    BY <1>2
  <2>. DEFINE y == SubSeq(x, at, to)
  <2>2. /\ y \in Seq(Char) /\ Len(y) = to - at + 1
        /\ \A a \in 1..Len(y) : at + a - 1 \in 1..Len(x) /\ y[a] = x[at + a - 1]
    <3>1. x \in Seq(Char) /\ at \in Nat /\ at >= 1 /\ to \in Int /\ to <= Len(x) /\ at <= to
      BY <1>1, <2>1
    <3>2. /\ SubSeq(x, at, to) \in Seq(Char)
          /\ Len(SubSeq(x, at, to)) = IF at <= to THEN to - at + 1 ELSE 0
          /\ \A a \in 1..Len(SubSeq(x, at, to)) :
                at + a - 1 \in 1..Len(x) /\ SubSeq(x, at, to)[a] = x[at + a - 1]
      BY <3>1, PartOf
    <3>. HIDE DEF y
    <3>3. /\ y \in Seq(Char) /\ Len(y) = IF at <= to THEN to - at + 1 ELSE 0
          /\ \A a \in 1..Len(y) : at + a - 1 \in 1..Len(x) /\ y[a] = x[at + a - 1]
      BY <3>2, Zenon DEF y
    <3>. QED
      BY <3>1, <3>3
  <2>. HIDE DEF y
  <2>3. \A a \in 1..Len(y) : y[a] = Place(p, s, at + a - 1)
    BY <1>1, <2>2
  <2>4. pieces[k] = y
    BY <2>1 DEF y
  <2>5. /\ pieces[k] \in Seq(Char) /\ Len(pieces[k]) = to - at + 1
        /\ \A a \in 1..Len(pieces[k]) : pieces[k][a] = Place(p, s, at + a - 1)
    BY <2>2, <2>3, <2>4
  <2>. QED
    BY <2>1, <2>5
<1>4. ASSUME NEW k \in 1..n PROVE pieces[k] \in SpansOf(p)
  <2>1. PICK at \in Nat, to \in Nat :
                /\ at >= 1 /\ to >= at /\ to <= Len(x) /\ to - at + 1 <= ChunkSize
                /\ Edge(k, at, to)
                /\ pieces[k] \in Seq(Char) /\ Len(pieces[k]) = to - at + 1
                /\ \A a \in 1..Len(pieces[k]) : pieces[k][a] = Place(p, s, at + a - 1)
    BY <1>3
  <2>. DEFINE y == pieces[k]
  <2>. HIDE DEF y
  <2>2. y \in Seq(Char) /\ Len(y) \in Nat /\ Len(y) >= 1 /\ Len(y) <= ChunkSize
        /\ \A a \in 1..Len(y) : y[a] = Place(p, s, at + a - 1)
    <3>1. Len(y) = to - at + 1
      BY <2>1 DEF y
    <3>2. Len(y) \in Nat /\ Len(y) >= 1 /\ Len(y) <= ChunkSize
      BY <2>1, <3>1, SizeNat
    <3>. QED
      BY <2>1, <3>2 DEF y
  <2>3. \A a \in 1..Len(y) : at + a - 1 \in Nat
    <3>1. at \in Nat /\ at >= 1 /\ Len(y) \in Nat
      BY <2>1, <2>2
    <3>. QED
      BY <3>1
  <2>4. \A a \in 1..Len(y) : y[a] \in Solid /\ \E b \in Nat : y[a] = Place(p, s, b)
    BY <1>1, <2>2, <2>3, PlaceSolid
  <2>5. y[1] \in Solid /\ y[Len(y)] \in Solid
    BY <2>2, <2>4
  <2>6. y \in Piece(p)
    BY <1>1, <2>2, <2>4, <2>5 DEF Piece
  <2>. QED
    BY <2>2, <2>6, PieceSpan DEF y
<1>5. pieces \in Seq(SpansOf(p)) /\ Len(pieces) = n
  <2>. DEFINE q == pieces
  <2>1. [k \in 1..n |-> q[k]] \in Seq(SpansOf(p))
    <3>. DEFINE T == SpansOf(p)
    <3>. HIDE DEF q, T
    <3>1. n \in Nat /\ \A k \in 1..n : q[k] \in T
      BY <1>2, <1>4 DEF q, T
    <3>2. [k \in 1..n |-> q[k]] \in Seq(T)
      BY <3>1, IsASeq
    <3>. QED
      BY <3>2 DEF T
  <2>2. DOMAIN pieces = 1..n
    BY <1>2
  <2>3. pieces \in Seq(SpansOf(p))
    BY <1>2, <2>1
  <2>. QED
    BY <1>2, <2>2, <2>3, LenProperties
<1>6. ASSUME NEW i \in 1..n, NEW k \in 1..n, i < k PROVE <<pieces[i], pieces[k]>> \in Fresh
  <2>1. PICK at \in Nat, to \in Nat :
                /\ at >= 1 /\ to >= at /\ to <= Len(x) /\ to - at + 1 <= ChunkSize
                /\ Edge(i, at, to)
                /\ pieces[i] \in Seq(Char) /\ Len(pieces[i]) = to - at + 1
                /\ \A a \in 1..Len(pieces[i]) : pieces[i][a] = Place(p, s, at + a - 1)
    BY <1>3
  <2>2. PICK at2 \in Nat, to2 \in Nat :
                /\ at2 >= 1 /\ to2 >= at2 /\ to2 <= Len(x) /\ to2 - at2 + 1 <= ChunkSize
                /\ Edge(k, at2, to2)
                /\ pieces[k] \in Seq(Char) /\ Len(pieces[k]) = to2 - at2 + 1
                /\ \A a \in 1..Len(pieces[k]) : pieces[k][a] = Place(p, s, at2 + a - 1)
    BY <1>3
  <2>3. to < at2
    <3>1. i \in Nat /\ k - 1 \in Nat /\ i <= k - 1
      <4>1. n \in Nat
        BY <1>2
      <4>. QED
        BY <1>6, <4>1
    <3>2. i * ChunkSize <= (k - 1) * ChunkSize /\ i * ChunkSize \in Nat /\ (k - 1) * ChunkSize \in Nat
      BY <3>1, SizeNat
    <3>. DEFINE u == i * ChunkSize
                v == (k - 1) * ChunkSize
    <3>3. at2 = v + 1 /\ to <= u /\ u <= v /\ u \in Nat /\ v \in Nat
      BY <2>1, <2>2, <3>2 DEF Edge
    <3>. HIDE DEF u, v
    <3>. QED
      BY <3>3
  <2>4. pieces[k][1] = Place(p, s, at2)
    BY <2>2
  <2>5. ASSUME NEW a \in 1..Len(pieces[i]) PROVE pieces[i][a] # pieces[k][1]
    <3>1. pieces[i][a] = Place(p, s, at + a - 1)
      BY <2>1
    <3>2. at + a - 1 # at2
      BY <2>1, <2>3
    <3>. QED
      BY <2>4, <3>1, <3>2 DEF Place
  <2>. QED
    BY <2>1, <2>2, <2>5 DEF Fresh
<1>7. InOrder(pieces, Fresh)
  BY <1>5, <1>6 DEF InOrder
<1>8. ASSUME NEW k \in 1..n, NEW a \in 1..Len(pieces[k]) PROVE \E b \in Nat : pieces[k][a] = Place(p, s, b)
  <2>1. PICK at \in Nat : /\ at >= 1
                          /\ \A c \in 1..Len(pieces[k]) : pieces[k][c] = Place(p, s, at + c - 1)
    BY <1>3
  <2>2. at + a - 1 \in Nat
    BY <2>1
  <2>. QED
    BY <2>1, <2>2
<1>. QED
  BY <1>5, <1>7, <1>8 DEF pieces, x

LEMMA ParagraphsApart ==
    ASSUME NEW p, NEW q, p # q, NEW x \in SpansOf(p), NEW y \in SpansOf(q)
    PROVE  <<x, y>> \in Fresh
<1>1. x \in Seq(Char) /\ y \in Seq(Char) /\ y[1] \in Solid /\ 1 \in 1..Len(y)
  BY SizeNat DEF SpansOf, Span
<1>2. \E s \in Nat, k \in Nat : y[1] = Place(q, s, k)
  BY <1>1, BlankNotSolid DEF SpansOf
<1>3. \A a \in 1..Len(x) : x[a] = Blank \/ \E s \in Nat, k \in Nat : x[a] = Place(p, s, k)
  BY DEF SpansOf
<1>4. y[1] # Blank
  BY <1>1, BlankNotSolid
<1>5. ASSUME NEW a \in 1..Len(x) PROVE x[a] # y[1]
  <2>1. CASE x[a] = Blank
    BY <1>4, <2>1
  <2>2. CASE x[a] # Blank
    <3>1. PICK s \in Nat, k \in Nat : x[a] = Place(p, s, k)
      BY <1>3, <2>2
    <3>2. PICK t \in Nat, l \in Nat : y[1] = Place(q, t, l)
      BY <1>2
    <3>3. Place(p, s, k) # Place(q, t, l)
      BY DEF Place
    <3>. QED
      BY <3>1, <3>2, <3>3
  <2>. QED
    BY <2>1, <2>2
<1>. QED
  BY <1>1, <1>5 DEF Fresh

\* A list given place by place.
LEMMA ListOf ==
    ASSUME NEW n \in Nat, NEW S, NEW f, f = [k \in 1..n |-> f[k]], \A k \in 1..n : f[k] \in S
    PROVE  f \in Seq(S) /\ Len(f) = n
<1>1. [k \in 1..n |-> f[k]] \in Seq(S)
  BY IsASeq
<1>2. f \in Seq(S) /\ DOMAIN f = 1..n
  BY <1>1
<1>. QED
  BY <1>2, LenProperties

SentencePieces(text, p) == [s \in 1..Len(text[p]) |-> HardSplit(Sentence(text, p, s))]

LEMMA SentencePiecesHold ==
    ASSUME NEW text \in Text, NEW p \in 1..Len(text)
    PROVE  LET seqs == SentencePieces(text, p) IN
           /\ seqs \in Seq(Seq(SpansOf(p))) /\ Len(seqs) = Len(text[p])
           /\ \A s \in 1..Len(text[p]) : seqs[s] = HardSplit(Sentence(text, p, s))
           /\ split_oversized(Sentences(text, p)) = FlattenSeq(seqs)
<1>. DEFINE n == Len(text[p])
            seqs == SentencePieces(text, p)
            S == Seq(SpansOf(p))
<1>1. n \in Nat /\ DOMAIN text[p] = 1..n
  BY TextHolds
<1>2. seqs = [s \in 1..n |-> seqs[s]] /\ \A s \in 1..n : seqs[s] = HardSplit(Sentence(text, p, s))
  BY DEF SentencePieces
<1>3. FlattenSeq(seqs) = split_oversized(Sentences(text, p))
  <2>. DEFINE sentences == Sentences(text, p)
  <2>1. DOMAIN sentences = 1..n /\ \A s \in 1..n : sentences[s] = Sentence(text, p, s)
    BY <1>1 DEF Sentences
  <2>. HIDE DEF sentences
  <2>2. seqs = [s \in DOMAIN sentences |-> HardSplit(sentences[s])]
    BY <2>1 DEF SentencePieces
  <2>. QED
    BY <2>2 DEF split_oversized, sentences
<1>4. \A s \in 1..n : seqs[s] \in S
  BY <1>2, SplitSentence
<1>. HIDE DEF n, S, seqs
<1>5. seqs \in Seq(S) /\ Len(seqs) = n
  BY <1>1, <1>2, <1>4, ListOf
<1>. QED
  BY <1>2, <1>3, <1>5 DEF n, S, seqs

LEMMA SplitParagraph ==
    ASSUME NEW text \in Text, NEW p \in 1..Len(text)
    PROVE  LET spans == split_oversized(Sentences(text, p)) IN
           spans \in Seq(SpansOf(p)) /\ InOrder(spans, Fresh)
<1>. DEFINE n == Len(text[p])
            seqs == SentencePieces(text, p)
            sentences == Sentences(text, p)
<1>1. n \in Nat
  BY TextHolds
<1>2. /\ seqs \in Seq(Seq(SpansOf(p))) /\ Len(seqs) = n
      /\ \A s \in 1..n : seqs[s] = HardSplit(Sentence(text, p, s))
      /\ FlattenSeq(seqs) = split_oversized(sentences)
  BY SentencePiecesHold
<1>. HIDE DEF seqs, sentences
<1>4. ASSUME NEW s \in 1..n
      PROVE  /\ seqs[s] \in Seq(SpansOf(p)) /\ InOrder(seqs[s], Fresh)
             /\ \A k \in 1..Len(seqs[s]) : \A a \in 1..Len(seqs[s][k]) :
                   \E b \in Nat : seqs[s][k][a] = Place(p, s, b)
  <2>. DEFINE y == HardSplit(Sentence(text, p, s))
  <2>1. seqs[s] = y
    BY <1>2
  <2>2. /\ y \in Seq(SpansOf(p)) /\ InOrder(y, Fresh)
        /\ \A k \in 1..Len(y) : \A a \in 1..Len(y[k]) : \E b \in Nat : y[k][a] = Place(p, s, b)
    BY SplitSentence
  <2>. HIDE DEF y
  <2>. QED
    BY <2>1, <2>2
<1>6. ASSUME NEW i \in 1..n, NEW k \in 1..n, i < k,
             NEW j \in 1..Len(seqs[i]), NEW l \in 1..Len(seqs[k])
      PROVE  <<seqs[i][j], seqs[k][l]>> \in Fresh
  <2>. DEFINE x == seqs[i][j]
              y == seqs[k][l]
  <2>1. x \in SpansOf(p) /\ y \in SpansOf(p)
    BY <1>4, ElementOfSeq
  <2>2. \A a \in 1..Len(x) : \E b \in Nat : x[a] = Place(p, i, b)
    BY <1>4
  <2>3. \A a \in 1..Len(y) : \E b \in Nat : y[a] = Place(p, k, b)
    BY <1>4
  <2>. HIDE DEF x, y
  <2>4. x \in Seq(Char) /\ y \in Seq(Char) /\ 1 \in 1..Len(y)
    BY <2>1, SizeNat DEF SpansOf, Span
  <2>5. i # k
    BY <1>1, <1>6
  <2>6. ASSUME NEW a \in 1..Len(x) PROVE x[a] # y[1]
    BY <2>2, <2>3, <2>4, <2>5 DEF Place
  <2>7. <<x, y>> \in Fresh
    BY <2>4, <2>6 DEF Fresh
  <2>. QED
    BY <2>7 DEF x, y
<1>7. FlattenSeq(seqs) \in Seq(SpansOf(p)) /\ InOrder(FlattenSeq(seqs), Fresh)
  <2>. HIDE DEF n
  <2>. DEFINE S == SpansOf(p)
  <2>1. seqs \in Seq(Seq(S)) /\ \A i \in 1..Len(seqs) : InOrder(seqs[i], Fresh)
    BY <1>2, <1>4
  <2>2. \A i, k \in 1..Len(seqs) : i < k =>
            \A j \in 1..Len(seqs[i]), l \in 1..Len(seqs[k]) : <<seqs[i][j], seqs[k][l]>> \in Fresh
    BY <1>2, <1>6
  <2>. HIDE DEF S
  <2>3. FlattenSeq(seqs) \in Seq(S) /\ InOrder(FlattenSeq(seqs), Fresh)
    BY <2>1, <2>2, FlattenOrdered
  <2>. QED
    BY <2>3 DEF S
<1>. QED
  BY <1>2, <1>7 DEF sentences

ParagraphSpans(text) ==
    [p \in DOMAIN text |->
        IF Len(Paragraph(text, p)) <= ChunkSize
          THEN <<Paragraph(text, p)>>
          ELSE split_oversized(Sentences(text, p))]

LEMMA ParagraphSpansHold ==
    ASSUME NEW text \in Text
    PROVE  LET seqs == ParagraphSpans(text) IN
           /\ seqs \in Seq(Seq(Span)) /\ Len(seqs) = Len(text) /\ Spans(text) = FlattenSeq(seqs)
           /\ \A p \in 1..Len(text) :
                 /\ seqs[p] \in Seq(SpansOf(p)) /\ InOrder(seqs[p], Fresh)
                 /\ seqs[p] = IF Len(Paragraph(text, p)) <= ChunkSize
                                THEN <<Paragraph(text, p)>>
                                ELSE split_oversized(Sentences(text, p))
<1>. DEFINE n == Len(text)
            seqs == ParagraphSpans(text)
<1>1. n \in Nat /\ DOMAIN text = 1..n
  BY TextHolds
<1>2. seqs = [p \in 1..n |-> seqs[p]]
      /\ \A p \in 1..n : seqs[p] = IF Len(Paragraph(text, p)) <= ChunkSize
                                     THEN <<Paragraph(text, p)>>
                                     ELSE split_oversized(Sentences(text, p))
  BY <1>1 DEF ParagraphSpans
<1>3. Spans(text) = FlattenSeq(seqs)
  BY DEF Spans, ParagraphSpans
<1>. HIDE DEF seqs
<1>4. ASSUME NEW p \in 1..n PROVE seqs[p] \in Seq(SpansOf(p)) /\ InOrder(seqs[p], Fresh)
  <2>1. CASE Len(Paragraph(text, p)) <= ChunkSize
    <3>. DEFINE x == Paragraph(text, p)
    <3>1. x \in SpansOf(p)
      BY <2>1, ParagraphHolds, PieceSpan
    <3>2. seqs[p] = <<x>>
      BY <1>2, <2>1
    <3>. HIDE DEF x
    <3>3. <<x>> \in Seq(SpansOf(p)) /\ Len(<<x>>) = 1
      BY <3>1
    <3>4. InOrder(<<x>>, Fresh)
      BY <3>3 DEF InOrder
    <3>. QED
      BY <3>2, <3>3, <3>4
  <2>2. CASE ~(Len(Paragraph(text, p)) <= ChunkSize)
    <3>1. seqs[p] = split_oversized(Sentences(text, p))
      BY <1>2, <2>2
    <3>. QED
      BY <3>1, SplitParagraph
  <2>. QED
    BY <2>1, <2>2
<1>5. seqs \in Seq(Seq(Span)) /\ Len(seqs) = n
  <2>. DEFINE S == Seq(Span)
  <2>1. ASSUME NEW p \in 1..n PROVE seqs[p] \in S
    <3>1. SpansOf(p) \subseteq Span
      BY DEF SpansOf
    <3>. QED
      BY <1>4, <3>1, SeqMonotonic
  <2>. HIDE DEF n, S
  <2>2. seqs \in Seq(S) /\ Len(seqs) = n
    BY <1>1, <1>2, <2>1, ListOf
  <2>. QED
    BY <2>2 DEF S
<1>. QED
  BY <1>2, <1>3, <1>4, <1>5 DEF n, seqs

\* A text is cut into spans, each new in the text.
LEMMA SpansHold ==
    ASSUME NEW text \in Text
    PROVE  Spans(text) \in Seq(Span) /\ InOrder(Spans(text), Fresh)
<1>. DEFINE n == Len(text)
            seqs == ParagraphSpans(text)
<1>1. n \in Nat
  BY LenProperties, TextHolds
<1>2. /\ seqs \in Seq(Seq(Span)) /\ Len(seqs) = n /\ Spans(text) = FlattenSeq(seqs)
      /\ \A p \in 1..n : seqs[p] \in Seq(SpansOf(p)) /\ InOrder(seqs[p], Fresh)
  BY ParagraphSpansHold
<1>. HIDE DEF seqs
<1>6. ASSUME NEW i \in 1..n, NEW k \in 1..n, i < k,
             NEW j \in 1..Len(seqs[i]), NEW l \in 1..Len(seqs[k])
      PROVE  <<seqs[i][j], seqs[k][l]>> \in Fresh
  <2>1. seqs[i][j] \in SpansOf(i) /\ seqs[k][l] \in SpansOf(k)
    BY <1>2, ElementOfSeq
  <2>2. i # k
    BY <1>1, <1>6
  <2>. QED
    BY <2>1, <2>2, ParagraphsApart
<1>7. FlattenSeq(seqs) \in Seq(Span) /\ InOrder(FlattenSeq(seqs), Fresh)
  <2>. HIDE DEF n
  <2>1. \A i \in 1..Len(seqs) : InOrder(seqs[i], Fresh)
    BY <1>2
  <2>2. \A i, k \in 1..Len(seqs) : i < k =>
            \A j \in 1..Len(seqs[i]), l \in 1..Len(seqs[k]) : <<seqs[i][j], seqs[k][l]>> \in Fresh
    BY <1>2, <1>6
  <2>. QED
    BY <1>2, <2>1, <2>2, FlattenOrdered
<1>. QED
  BY <1>2, <1>7

\* The piece of n that the number b is in.
LEMMA DivisionAt ==
    ASSUME NEW n \in Nat, NEW c \in Nat, c >= 1, NEW b \in 1..n
    PROVE  \E k \in 1..(n + c - 1) \div c : (k - 1) * c + 1 <= b /\ b <= k * c
<1>. DEFINE q == (n + c - 1) \div c
            j == (b - 1) \div c
<1>1. q \in Int /\ n + c - 1 < q * c + c
  OBVIOUS
<1>2. j \in Nat /\ j * c <= b - 1 /\ b - 1 < j * c + c
  OBVIOUS
<1>. HIDE DEF q, j
<1>3. j * c \in Nat /\ q * c \in Int /\ (j + 1) * c = j * c + c /\ (q + 1) * c = q * c + c
  BY <1>1, <1>2
<1>4. (j + 1) * c < (q + 1) * c
  BY <1>1, <1>2, <1>3
<1>5. j + 1 <= q
  <2>1. SUFFICES ASSUME q + 1 <= j + 1 PROVE FALSE
    BY <1>1, <1>2
  <2>2. (q + 1) * c <= (j + 1) * c
    BY <1>1, <1>2, <2>1
  <2>. QED
    BY <1>3, <1>4, <2>2
<1>6. j + 1 \in 1..q /\ ((j + 1) - 1) * c = j * c
  BY <1>1, <1>2, <1>5
<1>7. ((j + 1) - 1) * c + 1 <= b /\ b <= (j + 1) * c
  BY <1>2, <1>3, <1>6
<1>. QED
  BY <1>6, <1>7 DEF q

LEMMA HardSplitHas ==
    ASSUME NEW chars \in Seq(Char), NEW b \in 1..Len(chars)
    PROVE  \E k \in DOMAIN HardSplit(chars) : Has(HardSplit(chars)[k], chars[b])
<1>. DEFINE pieces == HardSplit(chars)
            n == (Len(chars) + ChunkSize - 1) \div ChunkSize
<1>1. Len(chars) \in Nat
  BY LenProperties
<1>2. PICK k \in 1..n : (k - 1) * ChunkSize + 1 <= b /\ b <= k * ChunkSize
  BY <1>1, SizeNat, DivisionAt
<1>3. PICK at \in Nat, to \in Nat :
         /\ at >= 1 /\ to >= at /\ to <= Len(chars)
         /\ at = (k - 1) * ChunkSize + 1 /\ (to = k * ChunkSize \/ to = Len(chars))
         /\ pieces[k] = SubSeq(chars, at, to)
  BY HardSplitHolds
<1>4. at <= b /\ b <= to
  BY <1>1, <1>2, <1>3
<1>5. DOMAIN pieces = 1..n
  BY DEF HardSplit
<1>. HIDE DEF pieces, n
<1>. DEFINE y == SubSeq(chars, at, to)
<1>6. Len(y) = to - at + 1 /\ \A a \in 1..Len(y) : y[a] = chars[at + a - 1]
  <2>1. at \in Nat /\ at >= 1 /\ to \in Int /\ to <= Len(chars) /\ at <= to
    BY <1>1, <1>3
  <2>. QED
    BY <2>1, PartOf
<1>. HIDE DEF y
<1>7. b - at + 1 \in 1..Len(y) /\ at + (b - at + 1) - 1 = b
  <2>. DEFINE l == Len(y)
  <2>1. at \in Nat /\ to \in Nat /\ b \in Int /\ at <= b /\ b <= to /\ l = to - at + 1
    BY <1>1, <1>3, <1>4, <1>6
  <2>. HIDE DEF l
  <2>2. b - at + 1 \in 1..l /\ at + (b - at + 1) - 1 = b
    BY <2>1
  <2>. QED
    BY <2>2 DEF l
<1>8. Has(y, chars[b])
  <2>1. y[b - at + 1] = chars[b]
    BY <1>6, <1>7
  <2>. QED
    BY <1>7, <2>1 DEF Has
<1>. QED
  BY <1>2, <1>3, <1>5, <1>8 DEF pieces, y

\* Each character of the text is in a span.
LEMMA SpansHave ==
    ASSUME NEW text \in Text, NEW p \in 1..Len(text), NEW s \in 1..Len(text[p]), NEW k \in 1..text[p][s]
    PROVE  \E i \in 1..Len(Spans(text)) : Has(Spans(text)[i], Place(p, s, k))
<1>. DEFINE seqs == ParagraphSpans(text)
            x == Place(p, s, k)
<1>1. /\ seqs \in Seq(Seq(Span)) /\ Len(seqs) = Len(text) /\ Spans(text) = FlattenSeq(seqs)
      /\ seqs[p] = IF Len(Paragraph(text, p)) <= ChunkSize
                      THEN <<Paragraph(text, p)>>
                      ELSE split_oversized(Sentences(text, p))
  BY ParagraphSpansHold
<1>. HIDE DEF seqs, x
<1>2. \E j \in 1..Len(seqs[p]) : Has(seqs[p][j], x)
  <2>1. CASE Len(Paragraph(text, p)) <= ChunkSize
    <3>. DEFINE y == Paragraph(text, p)
    <3>1. Has(y, x)
      BY ParagraphHolds DEF x
    <3>2. seqs[p] = <<y>>
      BY <1>1, <2>1
    <3>. HIDE DEF y
    <3>3. 1 \in 1..Len(<<y>>) /\ <<y>>[1] = y
      OBVIOUS
    <3>. QED
      BY <3>1, <3>2, <3>3
  <2>2. CASE ~(Len(Paragraph(text, p)) <= ChunkSize)
    <3>. DEFINE pieces == SentencePieces(text, p)
    <3>1. /\ pieces \in Seq(Seq(SpansOf(p))) /\ Len(pieces) = Len(text[p])
          /\ pieces[s] = HardSplit(Sentence(text, p, s))
          /\ split_oversized(Sentences(text, p)) = FlattenSeq(pieces)
      BY SentencePiecesHold
    <3>. HIDE DEF pieces
    <3>2. \E l \in 1..Len(pieces[s]) : Has(pieces[s][l], x)
      <4>. DEFINE chars == Sentence(text, p, s)
                  split == HardSplit(chars)
      <4>1. chars \in Seq(Char) /\ Len(chars) = text[p][s] /\ chars[k] = x
        BY SentenceHolds DEF x
      <4>2. split \in Seq(SpansOf(p))
        BY SplitSentence
      <4>. HIDE DEF chars
      <4>3. \E l \in DOMAIN split : Has(split[l], chars[k])
        BY <4>1, HardSplitHas
      <4>. HIDE DEF split
      <4>4. DOMAIN split = 1..Len(split)
        BY <4>2, LenProperties
      <4>5. pieces[s] = split
        BY <3>1 DEF split, chars
      <4>. QED
        BY <4>1, <4>3, <4>4, <4>5
    <3>3. PICK l \in 1..Len(pieces[s]) : Has(pieces[s][l], x)
      BY <3>2
    <3>4. \E a \in 1..Len(FlattenSeq(pieces)) : FlattenSeq(pieces)[a] = pieces[s][l]
      <4>. DEFINE S == SpansOf(p)
      <4>1. pieces \in Seq(Seq(S)) /\ s \in 1..Len(pieces)
        BY <3>1
      <4>. HIDE DEF S
      <4>. QED
        BY <4>1, FlattenHolds
    <3>5. seqs[p] = FlattenSeq(pieces)
      BY <1>1, <2>2, <3>1
    <3>. QED
      BY <3>3, <3>4, <3>5
  <2>. QED
    BY <2>1, <2>2
<1>3. PICK j \in 1..Len(seqs[p]) : Has(seqs[p][j], x)
  BY <1>2
<1>4. \E a \in 1..Len(FlattenSeq(seqs)) : FlattenSeq(seqs)[a] = seqs[p][j]
  <2>1. p \in 1..Len(seqs)
    BY <1>1
  <2>. QED
    BY <1>1, <2>1, FlattenHolds
<1>. QED
  BY <1>1, <1>3, <1>4 DEF x

\* What has x still has it where it stands.
LEMMA StandsHas ==
    ASSUME NEW y \in Seq(Char), NEW w \in Seq(Char), StandsIn(y, w), NEW x, Has(y, x)
    PROVE  x \in ToSet(w)
<1>1. PICK from \in 0..Len(w) - Len(y) : \A k \in DOMAIN y : w[from + k] = y[k]
  BY DEF StandsIn
<1>2. Len(w) \in Nat /\ Len(y) \in Nat /\ DOMAIN y = 1..Len(y) /\ DOMAIN w = 1..Len(w)
  BY LenProperties
<1>3. PICK a \in 1..Len(y) : y[a] = x
  BY DEF Has
<1>4. from + a \in 1..Len(w) /\ w[from + a] = x
  BY <1>1, <1>2, <1>3
<1>. QED
  BY <1>2, <1>4 DEF ToSet

\* Whatever the text, its chunks keep it.
LEMMA TextKept ==
    ASSUME NEW text \in Text
    PROVE  chunk_text(text) \in Seq(Seq(Char)) /\ KeepsText(text, chunk_text(text))
<1>. DEFINE spans == Spans(text)
            chunks == chunk_text(text)
<1>1. spans \in Seq(Span) /\ chunks \in Seq(Seq(Char)) /\ KeepsSpans(spans, chunks)
  BY SpansHold, SpansKept
<1>2. ASSUME NEW p \in DOMAIN text, NEW s \in DOMAIN text[p], NEW x \in ToSet(Sentence(text, p, s))
      PROVE  x \in UNION {ToSet(chunks[k]) : k \in DOMAIN chunks}
  <2>1. p \in 1..Len(text) /\ s \in 1..Len(text[p])
    BY TextHolds
  <2>2. PICK k \in 1..text[p][s] : x = Place(p, s, k)
    <3>1. /\ Sentence(text, p, s) \in Seq(Char) /\ Len(Sentence(text, p, s)) = text[p][s]
          /\ \A j \in 1..text[p][s] : Sentence(text, p, s)[j] = Place(p, s, j)
      BY <2>1, SentenceHolds
    <3>2. DOMAIN Sentence(text, p, s) = 1..text[p][s]
      BY <3>1, LenProperties
    <3>. QED
      BY <1>2, <3>1, <3>2 DEF ToSet
  <2>3. PICK i \in 1..Len(spans) : Has(spans[i], x)
    BY <2>1, <2>2, SpansHave
  <2>. HIDE DEF spans, chunks
  <2>4. spans[i] \in Seq(Char) /\ i \in DOMAIN spans
    <3>1. spans[i] \in Span /\ i \in DOMAIN spans
      BY <1>1, ElementOfSeq, LenProperties
    <3>. QED
      BY <3>1 DEF Span
  <2>5. PICK c \in DOMAIN chunks : StandsIn(spans[i], chunks[c])
    BY <1>1, <2>4 DEF KeepsSpans
  <2>6. chunks[c] \in Seq(Char)
    <3>1. c \in 1..Len(chunks)
      BY <1>1, LenProperties
    <3>. QED
      BY <1>1, <3>1, ElementOfSeq
  <2>7. x \in ToSet(chunks[c])
    BY <2>3, <2>4, <2>5, <2>6, StandsHas
  <2>. QED
    BY <2>7
<1>3. KeepsText(text, chunks)
  <2>1. \A p \in DOMAIN text : \A s \in DOMAIN text[p] :
            ToSet(Sentence(text, p, s)) \subseteq UNION {ToSet(chunks[k]) : k \in DOMAIN chunks}
    BY <1>2
  <2>2. KeepsSpans(spans, chunks)
    BY <1>1
  <2>. HIDE DEF chunks
  <2>. QED
    BY <2>1, <2>2 DEF KeepsText, KeepsSpans
<1>. QED
  BY <1>1, <1>3

-----------------------------------------------------------------------------
(* What is found.                                                          *)

\* A case is fixed at the beginning.
Asked == \E case \in Cases : corpus = case.corpus /\ request = case.request

Hit == [doc : Documents, index : Nat, size : Nat]

LEMMA AskedHolds ==
    ASSUME Asked
    PROVE  /\ request.topK \in Int
           /\ \A d \in Documents : /\ corpus[d] \in Text
                                   /\ chunk_text(corpus[d]) \in Seq(Seq(Char))
                                   /\ KeepsText(corpus[d], chunk_text(corpus[d]))
                                   /\ \A i \in 1..Len(chunk_text(corpus[d])) : request.score[d][i] \in Int
<1>1. PICK case \in Cases : corpus = case.corpus /\ request = case.request
  BY DEF Asked
<1>2. /\ request.topK \in Int
      /\ \A d \in Documents : /\ corpus[d] \in Text
                              /\ \A i \in DOMAIN chunk_text(corpus[d]) : request.score[d][i] \in Int
  BY <1>1, RVAssumption
<1>3. \A d \in Documents : /\ chunk_text(corpus[d]) \in Seq(Seq(Char))
                           /\ KeepsText(corpus[d], chunk_text(corpus[d]))
  BY <1>2, TextKept
<1>4. \A d \in Documents : DOMAIN chunk_text(corpus[d]) = 1..Len(chunk_text(corpus[d]))
  BY <1>3, LenProperties
<1>. QED
  BY <1>2, <1>3, <1>4

LEMMA AskedInit == Init => Asked
BY DEF Init, Asked

LEMMA AskedStays == Asked /\ [Next]_vars => Asked'
BY DEF Asked, Next, Search, Fail, augment, Answered, vars

\* The chunks of each document keep all of its text, in order and in size.
THEOREM ChunksHoldText == Spec => []ChunksKeepText
<1>1. Asked => ChunksKeepText
  BY AskedHolds DEF ChunksKeepText
<1>. QED
  BY <1>1, AskedInit, AskedStays, PTL DEF Spec

\* The image of a range of numbers is finite.
LEMMA FiniteRange ==
    ASSUME NEW n \in Nat, NEW f, NEW S, f \in [1..n -> S], \A x \in S : \E k \in 1..n : f[k] = x
    PROVE  IsFiniteSet(S)
<1>1. f \in Surjection(1..n, S)
  BY DEF Surjection
<1>2. IsFiniteSet(1..n)
  BY FS_Interval
<1>. QED
  BY <1>1, <1>2, FS_Surjection

\* Of the members of a finite set there is one of the highest value.
LEMMA HighestExists ==
    ASSUME NEW S, IsFiniteSet(S), S # {}, NEW value, \A x \in S : value[x] \in Int
    PROVE  \E x \in S : \A y \in S : value[y] <= value[x]
<1>. DEFINE n == Cardinality(S)
<1>1. PICK f \in [1..n -> S] : \A x \in S : \E k \in 1..n : f[k] = x
  BY FS_CardinalityType DEF ExistsBijection, Bijection, Surjection
<1>2. n \in Nat /\ n # 0
  BY FS_CardinalityType, FS_EmptySet
<1>. HIDE DEF n
<1>. DEFINE Highest(k) == \E x \in S : \A j \in 1..k : value[f[j]] <= value[x]
            Good == {k \in 0..n : k = 0 \/ Highest(k)}
<1>3. 0 \in Good
  BY <1>2
<1>4. ASSUME NEW k \in 1..n, k - 1 \in Good PROVE k \in Good
  <2>1. f[k] \in S /\ value[f[k]] \in Int /\ k \in 0..n /\ k \in 1..k
    BY <1>1, <1>2
  <2>2. k - 1 = 0 \/ Highest(k - 1)
    <3>. HIDE DEF Highest
    <3>. QED
      BY <1>4
  <2>3. \A j \in 1..k : j \in 1..k - 1 \/ j = k
    BY <1>2
  <2>4. value[f[k]] <= value[f[k]]
    <3>. DEFINE v == value[f[k]]
    <3>1. v \in Int
      BY <2>1
    <3>. HIDE DEF v
    <3>2. v <= v
      BY <3>1
    <3>. QED
      BY <3>2 DEF v
  <2>5. CASE k - 1 = 0
    <3>1. \A j \in 1..k : j = k
      BY <2>5
    <3>. QED
      BY <2>1, <2>4, <3>1
  <2>6. CASE Highest(k - 1)
    <3>1. PICK x \in S : \A j \in 1..k - 1 : value[f[j]] <= value[x]
      BY <2>6
    <3>2. \A j \in 1..k - 1 : value[f[j]] \in Int
      BY <1>1, <1>2
    <3>3. CASE value[f[k]] <= value[x]
      <4>1. \A j \in 1..k : value[f[j]] <= value[x]
        BY <2>3, <3>1, <3>3
      <4>. QED
        BY <2>1, <4>1
    <3>4. CASE ~(value[f[k]] <= value[x])
      <4>1. ASSUME NEW j \in 1..k - 1 PROVE value[f[j]] <= value[f[k]]
        <5>. DEFINE u == value[f[j]]
                    v == value[f[k]]
                    w == value[x]
        <5>1. u \in Int /\ v \in Int /\ w \in Int /\ u <= w /\ ~(v <= w)
          BY <2>1, <3>1, <3>2, <3>4
        <5>. HIDE DEF u, v, w
        <5>2. u <= v
          BY <5>1
        <5>. QED
          BY <5>2 DEF u, v
      <4>2. \A j \in 1..k : value[f[j]] <= value[f[k]]
        BY <2>3, <2>4, <4>1
      <4>. QED
        BY <2>1, <4>2
    <3>. QED
      BY <3>3, <3>4
  <2>. QED
    BY <2>2, <2>5, <2>6
<1>5. n \in Good
  <2>. HIDE DEF Good
  <2>1. \A k \in 0..n : k \in Good
    BY <1>2, <1>3, <1>4, UpTo
  <2>. QED
    BY <1>2, <2>1
<1>6. PICK x \in S : \A j \in 1..n : value[f[j]] <= value[x]
  BY <1>2, <1>5
<1>. QED
  BY <1>1, <1>6

RowsOf(d) == {[doc |-> d, index |-> i, size |-> Len(chunk_text(corpus[d])[i])] :
                 i \in DOMAIN chunk_text(corpus[d])}

LEMMA RowsOfHold ==
    ASSUME Asked, NEW d \in Documents
    PROVE  /\ IsFiniteSet(RowsOf(d)) /\ RowsOf(d) \subseteq Hit
           /\ \A r \in RowsOf(d) : r.doc = d /\ r.index \in 1..Len(chunk_text(corpus[d]))
           /\ \A r \in RowsOf(d) : r = [doc |-> d, index |-> r.index, size |-> Len(chunk_text(corpus[d])[r.index])]
<1>. DEFINE chunks == chunk_text(corpus[d])
            n == Len(chunks)
            row(i) == [doc |-> d, index |-> i, size |-> Len(chunks[i])]
            f == [i \in 1..n |-> row(i)]
<1>1. chunks \in Seq(Seq(Char)) /\ n \in Nat /\ DOMAIN chunks = 1..n
  BY AskedHolds, LenProperties
<1>2. RowsOf(d) = {row(i) : i \in 1..n}
  BY <1>1 DEF RowsOf
<1>3. \A i \in 1..n : Len(chunks[i]) \in Nat
  BY <1>1, ElementOfSeq, LenProperties
<1>. HIDE DEF n, chunks
<1>4. IsFiniteSet(RowsOf(d))
  <2>1. f \in [1..n -> RowsOf(d)] /\ \A x \in RowsOf(d) : \E i \in 1..n : f[i] = x
    BY <1>2
  <2>. HIDE DEF f
  <2>. QED
    BY <1>1, <2>1, FiniteRange
<1>5. ASSUME NEW r \in RowsOf(d)
      PROVE  r \in Hit /\ r.doc = d /\ r.index \in 1..n /\ r = row(r.index)
  <2>1. PICK i \in 1..n : r = row(i)
    BY <1>2
  <2>2. i \in Nat
    BY <1>1
  <2>. QED
    BY <1>3, <2>1, <2>2 DEF Hit
<1>. QED
  BY <1>4, <1>5 DEF n, chunks

LEMMA RowsHold ==
    ASSUME Asked
    PROVE  /\ IsFiniteSet(Rows) /\ Rows \subseteq Hit
           /\ \A r \in Rows : Score(r) \in Int
           /\ \A r, s \in Rows : r.doc = s.doc /\ r.index = s.index => r = s
<1>1. Rows = UNION {RowsOf(d) : d \in Documents}
  BY DEF Rows, RowsOf
<1>2. IsFiniteSet(Rows)
  <2>. DEFINE all == {RowsOf(d) : d \in Documents}
              f == [d \in Documents |-> RowsOf(d)]
  <2>1. IsFiniteSet(Documents)
    BY RVAssumption
  <2>2. f \in Surjection(Documents, all)
    BY DEF Surjection
  <2>3. \A T \in all : IsFiniteSet(T)
    BY RowsOfHold
  <2>. HIDE DEF all, f
  <2>4. IsFiniteSet(all)
    BY <2>1, <2>2, FS_Surjection
  <2>5. IsFiniteSet(UNION all)
    BY <2>3, <2>4, FS_UNION
  <2>. QED
    BY <1>1, <2>5 DEF all
<1>3. \A r \in Rows : \E d \in Documents : r \in RowsOf(d)
  BY <1>1
<1>4. ASSUME NEW r \in Rows
      PROVE  /\ r \in Hit /\ Score(r) \in Int
             /\ r = [doc |-> r.doc, index |-> r.index, size |-> Len(chunk_text(corpus[r.doc])[r.index])]
  <2>1. PICK d \in Documents : r \in RowsOf(d)
    BY <1>3
  <2>2. /\ r \in Hit /\ r.doc = d /\ r.index \in 1..Len(chunk_text(corpus[d]))
        /\ r = [doc |-> d, index |-> r.index, size |-> Len(chunk_text(corpus[d])[r.index])]
    BY <2>1, RowsOfHold
  <2>3. request.score[d][r.index] \in Int
    BY <2>2, AskedHolds
  <2>4. Score(r) \in Int
    BY <2>2, <2>3 DEF Score
  <2>. QED
    BY <2>2, <2>4
<1>5. ASSUME NEW r \in Rows, NEW s \in Rows, r.doc = s.doc, r.index = s.index PROVE r = s
  <2>. DEFINE row(d, i) == [doc |-> d, index |-> i, size |-> Len(chunk_text(corpus[d])[i])]
  <2>1. r = row(r.doc, r.index) /\ s = row(s.doc, s.index)
    BY <1>4
  <2>. HIDE DEF row
  <2>. QED
    BY <1>5, <2>1
<1>. QED
  BY <1>2, <1>4, <1>5

\* A list of n members holds no more than n of them.
LEMMA FewMembers ==
    ASSUME NEW S, NEW s \in Seq(S)
    PROVE  IsFiniteSet(ToSet(s)) /\ Cardinality(ToSet(s)) <= Len(s)
<1>1. Len(s) \in Nat /\ DOMAIN s = 1..Len(s) /\ s \in [1..Len(s) -> S]
  BY LenProperties
<1>2. IsFiniteSet(1..Len(s)) /\ Cardinality(1..Len(s)) = Len(s)
  BY <1>1, FS_Interval
<1>3. ToSet(s) = {s[k] : k \in 1..Len(s)}
  BY <1>1 DEF ToSet
<1>4. s \in Surjection(1..Len(s), ToSet(s))
  <2>1. s \in [1..Len(s) -> ToSet(s)] /\ \A x \in ToSet(s) : \E k \in 1..Len(s) : s[k] = x
    BY <1>1, <1>3
  <2>. QED
    BY <2>1 DEF Surjection
<1>. QED
  BY <1>2, <1>4, FS_Surjection

Scope == {r \in Rows : /\ TenantOf[r.doc] = request.tenant
                       /\ request.type \in {"any", TypeOf[r.doc]}}
BestOf(left) == CHOOSE r \in left : \A s \in left : Score(s) <= Score(r)
Ranks(ranked) ==
    ranked = [n \in 0..Cardinality(Scope) |->
                 IF n = 0 THEN <<>>
                 ELSE Append(ranked[n - 1], BestOf(Scope \ ToSet(ranked[n - 1])))]

LEMMA BestIn ==
    ASSUME Asked, NEW left \in SUBSET Scope, left # {}
    PROVE  BestOf(left) \in left
<1>. DEFINE value == [r \in left |-> Score(r)]
<1>1. IsFiniteSet(left) /\ \A r \in left : Score(r) \in Int
  <2>1. left \in SUBSET Rows
    BY DEF Scope
  <2>. QED
    BY <2>1, RowsHold, FS_Subset
<1>2. \A r \in left : value[r] = Score(r) /\ value[r] \in Int
  BY <1>1
<1>. HIDE DEF value
<1>3. PICK r \in left : \A s \in left : value[s] <= value[r]
  BY <1>1, <1>2, HighestExists
<1>4. \A s \in left : Score(s) <= Score(r)
  BY <1>2, <1>3
<1>. QED
  BY <1>4 DEF BestOf

LEMMA RankedOnce ==
    ASSUME Asked, NEW top_k
    PROVE  \E ranked : Ranks(ranked) /\ search(top_k) = ranked[Min({top_k, Cardinality(Scope)})]
<1>. DEFINE n == Cardinality(Scope)
            V == Seq(Scope \cup {BestOf(left) : left \in SUBSET Scope})
            step == [kv \in (1..n) \X V |-> Append(kv[2], BestOf(Scope \ ToSet(kv[2])))]
<1>1. n \in Nat /\ <<>> \in V
  <2>1. Scope \in SUBSET Rows
    BY DEF Scope
  <2>2. IsFiniteSet(Scope)
    BY <2>1, RowsHold, FS_Subset
  <2>. QED
    BY <2>2, FS_CardinalityType, EmptySeq
<1>2. \A k \in 1..n : \A v \in V : step[<<k, v>>] = Append(v, BestOf(Scope \ ToSet(v)))
  OBVIOUS
<1>3. StepsIn(n, V, step)
  <2>1. ASSUME NEW k \in 1..n, NEW v \in V PROVE Append(v, BestOf(Scope \ ToSet(v))) \in V
    <3>. DEFINE left == Scope \ ToSet(v)
    <3>1. left \in SUBSET Scope
      OBVIOUS
    <3>. HIDE DEF left
    <3>2. BestOf(left) \in {BestOf(l) : l \in SUBSET Scope}
      BY <3>1
    <3>. QED
      BY <3>2, AppendSeq DEF left
  <2>. HIDE DEF n, V, step
  <2>. QED
    BY <1>2, <2>1 DEF StepsIn
<1>. HIDE DEF step, V
<1>4. PICK f \in [0..n -> V] : Follows(n, <<>>, step, f)
  <2>. HIDE DEF n
  <2>. QED
    BY <1>1, <1>3, Recursion
<1>5. ASSUME NEW k \in 0..n
      PROVE  f[k] = (IF k = 0 THEN <<>> ELSE Append(f[k - 1], BestOf(Scope \ ToSet(f[k - 1]))))
  <2>. HIDE DEF n
  <2>1. CASE k = 0
    BY <1>4, <2>1 DEF Follows
  <2>2. CASE k # 0
    <3>1. k \in 1..n /\ k - 1 \in 0..n
      BY <1>1, <2>2
    <3>2. f[k - 1] \in V
      BY <1>4, <3>1
    <3>. QED
      BY <1>2, <1>4, <2>2, <3>1, <3>2 DEF Follows
  <2>. QED
    BY <2>1, <2>2
<1>6. Ranks(f)
  BY <1>4, <1>5 DEF Ranks
<1>. DEFINE g == CHOOSE x : Ranks(x)
<1>7. Ranks(g)
  BY <1>6
<1>8. search(top_k) = g[Min({top_k, n})]
  BY DEF search, Ranks, Scope, BestOf
<1>. QED
  BY <1>7, <1>8

LEMMA SearchHolds ==
    ASSUME Asked, NEW top_k \in Nat
    PROVE  search(top_k) \in Seq(Scope)
<1>. DEFINE n == Cardinality(Scope)
<1>1. IsFiniteSet(Scope) /\ n \in Nat
  <2>1. Scope \in SUBSET Rows
    BY DEF Scope
  <2>. QED
    BY <2>1, RowsHold, FS_Subset, FS_CardinalityType
<1>2. PICK ranked : Ranks(ranked) /\ search(top_k) = ranked[Min({top_k, n})]
  BY RankedOnce
<1>3. \A k \in 0..n : ranked[k] = IF k = 0 THEN <<>>
                                  ELSE Append(ranked[k - 1], BestOf(Scope \ ToSet(ranked[k - 1])))
  BY <1>2 DEF Ranks
<1>. HIDE DEF n
<1>. DEFINE Good == {k \in 0..n : ranked[k] \in Seq(Scope) /\ Len(ranked[k]) = k}
<1>4. 0 \in Good
  <2>1. 0 \in 0..n
    BY <1>1
  <2>2. ranked[0] = <<>>
    BY <1>3, <2>1, Zenon
  <2>. QED
    BY <2>1, <2>2, EmptySeq
<1>5. ASSUME NEW k \in 1..n, k - 1 \in Good PROVE k \in Good
  <2>. DEFINE before == ranked[k - 1]
              left == Scope \ ToSet(before)
  <2>1. before \in Seq(Scope) /\ Len(before) = k - 1
    BY <1>5
  <2>2. k \in 0..n /\ ranked[k] = Append(before, BestOf(left))
    <3>1. k \in 0..n /\ k # 0
      BY <1>1
    <3>. QED
      BY <1>3, <3>1, Zenon
  <2>. HIDE DEF before
  <2>3. left # {}
    <3>1. IsFiniteSet(ToSet(before)) /\ Cardinality(ToSet(before)) <= k - 1
      BY <2>1, FewMembers
    <3>2. SUFFICES ASSUME Scope \subseteq ToSet(before) PROVE FALSE
      OBVIOUS
    <3>3. Cardinality(Scope) <= Cardinality(ToSet(before)) /\ Cardinality(ToSet(before)) \in Nat
      BY <3>1, <3>2, FS_Subset, FS_CardinalityType
    <3>. QED
      BY <1>1, <3>1, <3>3 DEF n
  <2>4. BestOf(left) \in Scope
    <3>1. left \in SUBSET Scope
      OBVIOUS
    <3>. HIDE DEF left
    <3>. QED
      BY <2>3, <3>1, BestIn
  <2>. DEFINE best == BestOf(left)
  <2>. HIDE DEF left, best
  <2>5. Append(before, best) \in Seq(Scope) /\ Len(Append(before, best)) = Len(before) + 1
    BY <2>1, <2>4, AppendSeq DEF best
  <2>6. Len(before) + 1 = k
    BY <1>1, <2>1
  <2>. QED
    BY <2>2, <2>5, <2>6 DEF best
<1>6. Min({top_k, n}) \in 0..n
  <2>. DEFINE S == {top_k, n}
  <2>1. S \in SUBSET Nat /\ S # {} /\ n \in S
    BY <1>1
  <2>. HIDE DEF S
  <2>2. Min(S) \in S /\ \A y \in S : Min(S) <= y
    BY <2>1, Lowest
  <2>3. Min(S) \in Nat /\ Min(S) <= n
    BY <2>1, <2>2
  <2>. QED
    BY <1>1, <2>3 DEF S
<1>7. \A k \in 0..n : k \in Good
  <2>. HIDE DEF Good
  <2>. QED
    BY <1>1, <1>4, <1>5, UpTo
<1>. QED
  BY <1>2, <1>6, <1>7 DEF n

-----------------------------------------------------------------------------
(* What is selected.                                                       *)

Sums(hits, sum) == sum = [k \in 0..Len(hits) |-> IF k = 0 THEN 0 ELSE sum[k - 1] + hits[k].size]

LEMMA SizeUnfolds ==
    ASSUME NEW hits \in Seq(Hit)
    PROVE  \E sum : /\ Size(hits) = sum[Len(hits)] /\ sum[0] = 0
                    /\ \A k \in 0..Len(hits) : sum[k] \in Nat
                    /\ \A k \in 1..Len(hits) : sum[k] = sum[k - 1] + hits[k].size
<1>. DEFINE n == Len(hits)
            step == [kv \in (1..n) \X Nat |-> kv[2] + hits[kv[1]].size]
<1>1. n \in Nat /\ \A k \in 1..n : hits[k].size \in Nat
  <2>1. \A k \in 1..n : hits[k] \in Hit
    BY ElementOfSeq
  <2>. QED
    BY <2>1, LenProperties DEF Hit
<1>2. \A k \in 1..n : \A v \in Nat : step[<<k, v>>] = v + hits[k].size
  OBVIOUS
<1>3. StepsIn(n, Nat, step)
  <2>1. \A k \in 1..n : \A v \in Nat : v + hits[k].size \in Nat
    BY <1>1
  <2>. HIDE DEF n, step
  <2>. QED
    BY <1>2, <2>1 DEF StepsIn
<1>. HIDE DEF step
<1>4. PICK f \in [0..n -> Nat] : Follows(n, 0, step, f)
  <2>. HIDE DEF n
  <2>. QED
    BY <1>1, <1>3, Recursion
<1>5. ASSUME NEW k \in 0..n
      PROVE  f[k] = (IF k = 0 THEN 0 ELSE f[k - 1] + hits[k].size)
  <2>. HIDE DEF n
  <2>1. CASE k = 0
    BY <1>4, <2>1 DEF Follows
  <2>2. CASE k # 0
    <3>1. k \in 1..n /\ k - 1 \in 0..n
      BY <1>1, <2>2
    <3>2. f[k - 1] \in Nat
      BY <1>4, <3>1
    <3>. QED
      BY <1>2, <1>4, <2>2, <3>1, <3>2 DEF Follows
  <2>. QED
    BY <2>1, <2>2
<1>6. Sums(hits, f)
  BY <1>4, <1>5 DEF Sums
<1>. DEFINE g == CHOOSE x : Sums(hits, x)
<1>7. Sums(hits, g)
  BY <1>6
<1>8. Size(hits) = g[n]
  BY DEF Size, Sums
<1>. HIDE DEF g
<1>9. \A k \in 0..n : g[k] = IF k = 0 THEN 0 ELSE g[k - 1] + hits[k].size
  BY <1>7 DEF Sums
<1>. HIDE DEF n
<1>10. g[0] = 0 /\ \A k \in 1..n : g[k] = g[k - 1] + hits[k].size
  <2>1. 0 \in 0..n /\ \A k \in 1..n : k \in 0..n /\ k # 0
    BY <1>1
  <2>. QED
    BY <1>9, <2>1
<1>. DEFINE Good == {k \in 0..n : g[k] \in Nat}
<1>11. 0 \in Good
  BY <1>1, <1>10
<1>12. ASSUME NEW k \in 1..n, k - 1 \in Good PROVE k \in Good
  <2>1. k \in 0..n /\ g[k - 1] \in Nat /\ g[k] = g[k - 1] + hits[k].size /\ hits[k].size \in Nat
    BY <1>1, <1>10, <1>12
  <2>. QED
    BY <2>1
<1>13. \A k \in 0..n : k \in Good
  <2>. HIDE DEF Good
  <2>. QED
    BY <1>1, <1>11, <1>12, UpTo
<1>. QED
  BY <1>8, <1>10, <1>13 DEF n

LEMMA SizeEmpty == Size(<<>>) = 0
<1>1. <<>> \in Seq(Hit) /\ Len(<<>>) = 0
  BY EmptySeq
<1>. DEFINE none == <<>>
<1>. HIDE DEF none
<1>2. none \in Seq(Hit) /\ Len(none) = 0
  BY <1>1 DEF none
<1>3. Size(none) = 0
  BY <1>2, SizeUnfolds
<1>. QED
  BY <1>3 DEF none

LEMMA SizeNatural == ASSUME NEW hits \in Seq(Hit) PROVE Size(hits) \in Nat
<1>1. PICK sum : Size(hits) = sum[Len(hits)] /\ \A k \in 0..Len(hits) : sum[k] \in Nat
  BY SizeUnfolds
<1>2. Len(hits) \in 0..Len(hits)
  BY LenProperties
<1>. QED
  BY <1>1, <1>2

LEMMA SizeAppend ==
    ASSUME NEW hits \in Seq(Hit), NEW hit \in Hit
    PROVE  Size(Append(hits, hit)) = Size(hits) + hit.size
<1>. DEFINE more == Append(hits, hit)
            n == Len(hits)
<1>1. /\ more \in Seq(Hit) /\ Len(more) = n + 1 /\ n \in Nat
      /\ \A k \in 1..n : more[k] = hits[k]
      /\ more[n + 1] = hit
  BY AppendSeq
<1>. HIDE DEF more
<1>2. PICK a : /\ Size(hits) = a[n] /\ a[0] = 0
               /\ \A k \in 0..n : a[k] \in Nat
               /\ \A k \in 1..n : a[k] = a[k - 1] + hits[k].size
  BY SizeUnfolds
<1>. HIDE DEF n
<1>3. PICK b : /\ Size(more) = b[n + 1] /\ b[0] = 0
               /\ \A k \in 1..n + 1 : b[k] = b[k - 1] + more[k].size
  <2>1. \E b : /\ Size(more) = b[Len(more)] /\ b[0] = 0
               /\ \A k \in 1..Len(more) : b[k] = b[k - 1] + more[k].size
    BY <1>1, SizeUnfolds
  <2>. QED
    BY <1>1, <2>1
<1>. DEFINE Good == {k \in 0..n : a[k] = b[k]}
<1>4. 0 \in Good
  BY <1>1, <1>2, <1>3
<1>5. ASSUME NEW k \in 1..n, k - 1 \in Good PROVE k \in Good
  <2>1. k \in 1..n + 1 /\ k \in 0..n
    BY <1>1
  <2>2. b[k] = b[k - 1] + hits[k].size
    BY <1>1, <1>3, <2>1
  <2>. QED
    BY <1>2, <1>5, <2>1, <2>2
<1>6. a[n] = b[n]
  <2>. HIDE DEF Good
  <2>1. \A k \in 0..n : k \in Good
    BY <1>1, <1>4, <1>5, UpTo
  <2>. QED
    BY <1>1, <2>1 DEF Good
<1>7. b[n + 1] = b[n] + hit.size
  <2>1. n + 1 \in 1..n + 1 /\ (n + 1) - 1 = n
    BY <1>1
  <2>. QED
    BY <1>1, <1>3, <2>1
<1>. QED
  BY <1>2, <1>3, <1>6, <1>7 DEF more

\* The first hits of a list are no longer than the list.
LEMMA SizeFront ==
    ASSUME NEW hits \in Seq(Hit), NEW m \in 0..Len(hits)
    PROVE  /\ SubSeq(hits, 1, m) \in Seq(Hit) /\ Len(SubSeq(hits, 1, m)) = m
           /\ \A k \in 1..m : SubSeq(hits, 1, m)[k] = hits[k]
           /\ Size(SubSeq(hits, 1, m)) <= Size(hits)
<1>. DEFINE front == SubSeq(hits, 1, m)
            n == Len(hits)
<1>1. n \in Nat /\ m \in Nat /\ m <= n
  BY LenProperties
<1>2. front \in Seq(Hit) /\ Len(front) = m /\ \A k \in 1..m : front[k] = hits[k]
  <2>1. m \in Int /\ 1 \in Nat
    BY <1>1
  <2>2. /\ front \in Seq(Hit) /\ Len(front) = IF 1 <= m THEN m - 1 + 1 ELSE 0
        /\ \A a \in 1..Len(front) : front[a] = hits[1 + a - 1]
    BY <1>1, <2>1, PartOf
  <2>. HIDE DEF front
  <2>3. Len(front) = m
    BY <1>1, <2>2
  <2>4. \A a \in 1..m : 1 + a - 1 = a
    BY <1>1
  <2>. QED
    BY <2>2, <2>3, <2>4
<1>. HIDE DEF front
<1>3. PICK a : /\ Size(hits) = a[n] /\ a[0] = 0
               /\ \A k \in 0..n : a[k] \in Nat
               /\ \A k \in 1..n : a[k] = a[k - 1] + hits[k].size
  BY SizeUnfolds
<1>4. \A k \in 1..n : hits[k].size \in Nat
  <2>1. \A k \in 1..n : hits[k] \in Hit
    BY ElementOfSeq
  <2>. QED
    BY <2>1 DEF Hit
<1>. HIDE DEF n
<1>5. PICK b : /\ Size(front) = b[m] /\ b[0] = 0
               /\ \A k \in 1..m : b[k] = b[k - 1] + front[k].size
  BY <1>2, SizeUnfolds
<1>. DEFINE Good == {k \in 0..n : (k <= m => a[k] = b[k]) /\ (k >= m => b[m] <= a[k])}
<1>6. 0 \in Good
  BY <1>1, <1>3, <1>5
<1>7. ASSUME NEW k \in 1..n, k - 1 \in Good PROVE k \in Good
  <2>1. k \in 0..n /\ k - 1 \in 0..n /\ a[k] \in Nat /\ a[k - 1] \in Nat /\ a[k] = a[k - 1] + hits[k].size
    BY <1>1, <1>3
  <2>2. CASE k <= m
    <3>1. k \in 1..m /\ k - 1 <= m
      BY <1>1, <2>2
    <3>2. b[k] = b[k - 1] + hits[k].size
      BY <1>2, <1>5, <3>1
    <3>3. a[k] = b[k]
      BY <1>7, <2>1, <3>1, <3>2
    <3>4. k >= m => k = m
      BY <1>1, <2>2
    <3>. QED
      BY <2>1, <3>3, <3>4
  <2>3. CASE ~(k <= m)
    <3>1. k - 1 >= m
      BY <1>1, <2>3
    <3>2. b[m] <= a[k - 1]
      BY <1>7, <3>1
    <3>3. b[m] \in Nat
      <4>1. m \in 0..n /\ a[m] \in Nat
        BY <1>1, <1>3
      <4>. QED
        BY <1>2, <1>5, SizeNatural
    <3>4. b[m] <= a[k]
      BY <1>4, <2>1, <3>2, <3>3
    <3>. QED
      BY <2>1, <2>3, <3>4
  <2>. QED
    BY <2>2, <2>3
<1>8. b[m] <= a[n]
  <2>. HIDE DEF Good
  <2>1. \A k \in 0..n : k \in Good
    BY <1>1, <1>6, <1>7, UpTo
  <2>2. n \in 0..n /\ n >= m
    BY <1>1
  <2>. QED
    BY <2>1, <2>2 DEF Good
<1>. QED
  BY <1>2, <1>3, <1>5, <1>8 DEF front

LEMMA OfTwo ==
    ASSUME NEW a \in Int, NEW b \in Int
    PROVE  /\ Max({a, b}) \in {a, b} /\ Max({a, b}) >= a /\ Max({a, b}) >= b
           /\ Min({a, b}) \in {a, b} /\ Min({a, b}) <= a /\ Min({a, b}) <= b
<1>1. \E x \in {a, b} : \A y \in {a, b} : x >= y
  OBVIOUS
<1>2. \E x \in {a, b} : \A y \in {a, b} : x <= y
  OBVIOUS
<1>3. Max({a, b}) \in {a, b} /\ \A y \in {a, b} : Max({a, b}) >= y
  BY <1>1 DEF Max
<1>4. Min({a, b}) \in {a, b} /\ \A y \in {a, b} : Min({a, b}) <= y
  BY <1>2 DEF Min
<1>. QED
  BY <1>3, <1>4

LEMMA EffectiveHolds ==
    ASSUME Asked
    PROVE  /\ effective_k \in Nat /\ effective_k >= 1
           /\ effective_k \div 2 \in Nat
           /\ Max({1, effective_k \div 2}) \in Nat /\ Max({1, effective_k \div 2}) >= 1
           /\ Max({1, effective_k \div 2}) >= effective_k \div 2
<1>. DEFINE m == Min({request.topK, MaxTopK})
            e == Max({1, m})
<1>1. request.topK \in Int /\ MaxTopK \in Int
  BY AskedHolds, RVAssumption
<1>2. m \in Int
  BY <1>1, OfTwo
<1>. HIDE DEF m
<1>3. e \in Nat /\ e >= 1
  BY <1>2, OfTwo
<1>4. effective_k = e
  BY DEF effective_k, m
<1>. DEFINE h == effective_k \div 2
<1>5. h \in Nat
  BY <1>3, <1>4
<1>. HIDE DEF h
<1>6. Max({1, h}) \in Nat /\ Max({1, h}) >= 1 /\ Max({1, h}) >= h
  BY <1>5, OfTwo
<1>. QED
  BY <1>3, <1>4, <1>5, <1>6 DEF h

\* A hit that is left out, and why.
LeftOut(t, hit) ==
    \/ Score(hit) < MinScore
    \/ Len(t) = effective_k
    \/ Size(t) + hit.size > MaxContext

\* The loop of the retriever after k hits.
Chosen(t, hits, k) ==
    /\ t \in Seq(Hit) /\ Len(t) <= effective_k /\ Size(t) <= MaxContext
    /\ \A a \in 1..Len(t) : Score(t[a]) >= MinScore /\ \E j \in 1..k : t[a] = hits[j]
    /\ \A j \in 1..k : (\E a \in 1..Len(t) : t[a].doc = hits[j].doc) \/ LeftOut(t, hits[j])
    /\ \A a, c \in 1..Len(t) : c < a /\ a > Max({1, effective_k \div 2}) => t[c].doc # t[a].doc

LEMMA DocsAt ==
    ASSUME NEW S, NEW t \in Seq(S)
    PROVE  \A d : d \in DocsOf(t) <=> \E a \in 1..Len(t) : t[a].doc = d
<1>1. DOMAIN t = 1..Len(t)
  BY LenProperties
<1>. QED
  BY <1>1 DEF DocsOf

\* One turn of the retriever's loop.
LEMMA TakeKeeps ==
    ASSUME Asked, NEW hits \in Seq(Hit), \A j \in 1..Len(hits) : Score(hits[j]) \in Int,
           NEW k \in 1..Len(hits), NEW t, Chosen(t, hits, k - 1)
    PROVE  Chosen(Take(t, hits[k]), hits, k)
<1>. DEFINE hit == hits[k]
            e == effective_k
            half == effective_k \div 2
            M == Max({1, half})
            more == Append(t, hit)
            Docs(u, h) == \E a \in 1..Len(u) : u[a].doc = h.doc
<1>1. /\ hit \in Hit /\ hit.size \in Nat /\ k \in Nat /\ k >= 1 /\ Score(hit) \in Int
      /\ \A j \in 1..k - 1 : hits[j] \in Hit /\ hits[j].size \in Nat
      /\ MaxContext \in Nat /\ MinScore \in Nat
  <2>1. Len(hits) \in Nat /\ \A j \in 1..Len(hits) : hits[j] \in Hit
    BY LenProperties, ElementOfSeq
  <2>2. \A h \in Hit : h.size \in Nat
    BY DEF Hit
  <2>3. hit \in Hit /\ hit.size \in Nat /\ Score(hit) \in Int
    BY <2>1, <2>2
  <2>4. k \in Nat /\ k >= 1 /\ \A j \in 1..k - 1 : j \in 1..Len(hits)
    BY <2>1
  <2>5. \A j \in 1..k - 1 : hits[j] \in Hit /\ hits[j].size \in Nat
    BY <2>1, <2>2, <2>4
  <2>6. MaxContext \in Nat /\ MinScore \in Nat
    BY RVAssumption
  <2>. QED
    BY <2>3, <2>4, <2>5, <2>6
<1>2. e \in Nat /\ half \in Nat /\ M \in Nat /\ M >= 1 /\ M >= half
  BY EffectiveHolds
<1>3. /\ t \in Seq(Hit) /\ Len(t) <= e /\ Size(t) <= MaxContext
      /\ \A a \in 1..Len(t) : Score(t[a]) >= MinScore /\ \E j \in 1..k - 1 : t[a] = hits[j]
      /\ \A j \in 1..k - 1 : Docs(t, hits[j]) \/ LeftOut(t, hits[j])
      /\ \A a, c \in 1..Len(t) : c < a /\ a > M => t[c].doc # t[a].doc
  BY DEF Chosen
<1>4. Len(t) \in Nat /\ Size(t) \in Nat
  BY <1>3, LenProperties, SizeNatural
<1>5. Take(t, hit) = IF \/ Len(t) >= e \/ Score(hit) < MinScore
                        \/ hit.doc \in DocsOf(t) /\ Len(t) >= half
                        \/ hit.size > MaxContext - Size(t)
                     THEN t ELSE more
  BY DEF Take
<1>6. hit.doc \in DocsOf(t) <=> Docs(t, hit)
  <2>1. \A d : d \in DocsOf(t) <=> \E a \in 1..Len(t) : t[a].doc = d
    BY <1>3, DocsAt
  <2>. HIDE DEF hit
  <2>. QED
    BY <2>1
<1>7. \A j \in 1..k : j \in 1..k - 1 \/ j = k
  BY <1>1
<1>8. 1..k - 1 \subseteq 1..k /\ k \in 1..k
  BY <1>1
<1>9. CASE Take(t, hit) = t
  <2>1. Docs(t, hit) \/ LeftOut(t, hit)
    <3>1. \/ Len(t) >= e \/ Score(hit) < MinScore
          \/ Docs(t, hit)
          \/ hit.size > MaxContext - Size(t)
      <4>1. more # t
        <5>1. Len(more) = Len(t) + 1
          BY <1>1, <1>3, AppendSeq
        <5>. QED
          BY <1>4, <5>1
      <4>. QED
        BY <1>5, <1>6, <1>9, <4>1
    <3>. HIDE DEF hit, e
    <3>2. CASE Len(t) >= e
      <4>1. Len(t) = e
        BY <1>2, <1>3, <1>4, <3>2
      <4>. QED
        BY <4>1 DEF LeftOut, e
    <3>3. CASE Score(hit) < MinScore
      BY <3>3 DEF LeftOut
    <3>4. CASE hit.size > MaxContext - Size(t)
      <4>1. Size(t) + hit.size > MaxContext
        BY <1>1, <1>4, <3>4
      <4>. QED
        BY <4>1 DEF LeftOut
    <3>. QED
      BY <3>1, <3>2, <3>3, <3>4
  <2>2. \A j \in 1..k : Docs(t, hits[j]) \/ LeftOut(t, hits[j])
    <3>. HIDE DEF Docs
    <3>. QED
      BY <1>3, <1>7, <2>1
  <2>3. \A a \in 1..Len(t) : Score(t[a]) >= MinScore /\ \E j \in 1..k : t[a] = hits[j]
    BY <1>3, <1>8
  <2>4. Chosen(t, hits, k)
    BY <1>3, <2>2, <2>3, Zenon DEF Chosen, Docs, e, M, half
  <2>. QED
    BY <1>9, <2>4
<1>10. CASE Take(t, hit) # t
  <2>1. /\ Take(t, hit) = more /\ Len(t) < e /\ hit.size <= MaxContext - Size(t)
        /\ Docs(t, hit) => Len(t) < half
        /\ Score(hit) >= MinScore
    <3>1. /\ Take(t, hit) = more /\ ~(Len(t) >= e) /\ ~(Score(hit) < MinScore)
          /\ ~(hit.doc \in DocsOf(t) /\ Len(t) >= half)
          /\ ~(hit.size > MaxContext - Size(t))
      BY <1>5, <1>10, Zenon
    <3>2. Len(t) < e /\ hit.size <= MaxContext - Size(t)
      <4>. HIDE DEF e, hit
      <4>. QED
        BY <1>1, <1>2, <1>4, <3>1
    <3>3. Docs(t, hit) => Len(t) < half
      <4>1. ~(Len(t) >= half) => Len(t) < half
        <5>. HIDE DEF half
        <5>. QED
          BY <1>2, <1>4
      <4>. QED
        BY <1>6, <3>1, <4>1, Zenon
    <3>4. Score(hit) >= MinScore
      <4>. HIDE DEF hit
      <4>. QED
        BY <1>1, <3>1
    <3>. QED
      BY <3>1, <3>2, <3>3, <3>4
  <2>2. /\ more \in Seq(Hit) /\ Len(more) = Len(t) + 1
        /\ \A a \in 1..Len(t) : more[a] = t[a]
        /\ more[Len(t) + 1] = hit
    BY <1>1, <1>3, AppendSeq
  <2>3. Size(more) = Size(t) + hit.size
    BY <1>1, <1>3, SizeAppend
  <2>. HIDE DEF more, hit, e, half, M
  <2>4. Len(more) <= e /\ Size(more) <= MaxContext /\ Len(more) \in Nat /\ Size(more) \in Nat
        /\ Size(t) <= Size(more)
    <3>. DEFINE l == Len(t)
                z == Size(t)
                d == hit.size
    <3>1. l \in Nat /\ z \in Nat /\ d \in Nat /\ e \in Nat /\ MaxContext \in Nat
      BY <1>1, <1>2, <1>4
    <3>2. l < e /\ d <= MaxContext - z
      BY <2>1
    <3>3. Len(more) = l + 1 /\ Size(more) = z + d
      BY <2>2, <2>3
    <3>. HIDE DEF l, z, d
    <3>4. l + 1 <= e /\ z + d <= MaxContext /\ l + 1 \in Nat /\ z + d \in Nat /\ z <= z + d
      BY <3>1, <3>2
    <3>. QED
      BY <3>3, <3>4 DEF z
  <2>5. \A a \in 1..Len(more) : a \in 1..Len(t) \/ a = Len(t) + 1
    BY <1>4, <2>2
  <2>6. \A a \in 1..Len(more) : Score(more[a]) >= MinScore /\ \E j \in 1..k : more[a] = hits[j]
    <3>1. ASSUME NEW a \in 1..Len(t)
          PROVE  Score(more[a]) >= MinScore /\ \E j \in 1..k : more[a] = hits[j]
      <4>1. more[a] = t[a]
        BY <2>2
      <4>. QED
        BY <1>3, <1>8, <4>1
    <3>2. Score(more[Len(t) + 1]) >= MinScore /\ \E j \in 1..k : more[Len(t) + 1] = hits[j]
      <4>1. more[Len(t) + 1] = hits[k]
        BY <2>2 DEF hit
      <4>. QED
        BY <1>8, <2>1, <2>2, <4>1
    <3>. QED
      BY <2>5, <3>1, <3>2
  <2>7. ASSUME NEW j \in 1..k PROVE Docs(more, hits[j]) \/ LeftOut(more, hits[j])
    <3>1. CASE j = k
      <4>1. Len(t) + 1 \in 1..Len(more) /\ more[Len(t) + 1].doc = hits[j].doc
        BY <1>4, <2>2, <3>1 DEF hit
      <4>. QED
        BY <4>1
    <3>2. CASE j # k
      <4>1. j \in 1..k - 1
        BY <1>7, <3>2
      <4>2. CASE Docs(t, hits[j])
        <5>1. PICK a \in 1..Len(t) : t[a].doc = hits[j].doc
          BY <4>2
        <5>2. a \in 1..Len(more) /\ more[a] = t[a]
          BY <1>4, <2>2
        <5>. QED
          BY <5>1, <5>2
      <4>3. CASE LeftOut(t, hits[j])
        <5>1. Len(t) # e
          BY <1>2, <1>4, <2>1
        <5>2. CASE Score(hits[j]) < MinScore
          BY <5>2 DEF LeftOut
        <5>3. CASE Size(t) + hits[j].size > MaxContext
          <6>1. hits[j].size \in Nat
            BY <1>1, <4>1
          <6>2. Size(more) + hits[j].size > MaxContext
            <7>. DEFINE a == Size(t)
                        b == Size(more)
                        d == hits[j].size
            <7>1. a \in Nat /\ b \in Nat /\ d \in Nat /\ MaxContext \in Nat /\ a <= b /\ a + d > MaxContext
              BY <1>1, <1>4, <2>4, <5>3, <6>1
            <7>. HIDE DEF a, b, d
            <7>2. b + d > MaxContext
              BY <7>1
            <7>. QED
              BY <7>2 DEF b, d
          <6>. QED
            BY <6>2 DEF LeftOut
        <5>. QED
          BY <4>3, <5>1, <5>2, <5>3 DEF LeftOut, e
      <4>. QED
        BY <1>3, <4>1, <4>2, <4>3
    <3>. QED
      BY <3>1, <3>2
  <2>8. ASSUME NEW a \in 1..Len(more), NEW c \in 1..Len(more), c < a, a > M
        PROVE  more[c].doc # more[a].doc
    <3>1. CASE a = Len(t) + 1
      <4>1. Len(t) >= half
        BY <1>2, <1>4, <2>8, <3>1
      <4>2. ~Docs(t, hit)
        BY <1>2, <1>4, <2>1, <4>1
      <4>3. c \in 1..Len(t)
        BY <1>4, <2>8, <3>1
      <4>. QED
        BY <2>2, <3>1, <4>2, <4>3
    <3>2. CASE a # Len(t) + 1
      <4>1. a \in 1..Len(t) /\ c \in 1..Len(t)
        <5>1. a \in 1..Len(t)
          BY <2>5, <3>2
        <5>2. c \in Nat /\ c >= 1 /\ a \in Nat
          BY <2>4, <5>1
        <5>. QED
          BY <1>4, <2>8, <5>1, <5>2
      <4>. QED
        BY <1>3, <2>2, <2>8, <4>1
    <3>. QED
      BY <3>1, <3>2
  <2>9. Chosen(more, hits, k)
    BY <2>2, <2>4, <2>6, <2>7, <2>8 DEF Chosen, Docs, e, M, half
  <2>. QED
    BY <2>1, <2>9 DEF hit
<1>. QED
  BY <1>9, <1>10

Selects(hits, taken) ==
    taken = [k \in 0..Len(hits) |-> IF k = 0 THEN <<>> ELSE Take(taken[k - 1], hits[k])]

LEMMA SelectionOnce ==
    ASSUME NEW hits \in Seq(Hit)
    PROVE  \E taken : Selects(hits, taken) /\ Selection(hits) = taken[Len(hits)]
<1>. DEFINE n == Len(hits)
            V == Seq(Hit)
            step == [kv \in (1..n) \X V |-> Take(kv[2], hits[kv[1]])]
<1>1. n \in Nat /\ <<>> \in V /\ \A k \in 1..n : hits[k] \in Hit
  BY LenProperties, EmptySeq, ElementOfSeq
<1>2. \A k \in 1..n : \A v \in V : step[<<k, v>>] = Take(v, hits[k])
  OBVIOUS
<1>3. StepsIn(n, V, step)
  <2>1. ASSUME NEW k \in 1..n, NEW v \in V PROVE Take(v, hits[k]) \in V
    <3>1. Append(v, hits[k]) \in V
      BY <1>1, AppendSeq
    <3>. QED
      BY <3>1 DEF Take
  <2>. HIDE DEF n, V, step
  <2>. QED
    BY <1>2, <2>1 DEF StepsIn
<1>. HIDE DEF step, V
<1>4. PICK f \in [0..n -> V] : Follows(n, <<>>, step, f)
  <2>. HIDE DEF n
  <2>. QED
    BY <1>1, <1>3, Recursion
<1>5. ASSUME NEW k \in 0..n PROVE f[k] = (IF k = 0 THEN <<>> ELSE Take(f[k - 1], hits[k]))
  <2>. HIDE DEF n
  <2>1. CASE k = 0
    BY <1>4, <2>1 DEF Follows
  <2>2. CASE k # 0
    <3>1. k \in 1..n /\ k - 1 \in 0..n
      BY <1>1, <2>2
    <3>2. f[k - 1] \in V
      BY <1>4, <3>1
    <3>. QED
      BY <1>2, <1>4, <2>2, <3>1, <3>2 DEF Follows
  <2>. QED
    BY <2>1, <2>2
<1>6. Selects(hits, f)
  BY <1>4, <1>5 DEF Selects
<1>. DEFINE g == CHOOSE x : Selects(hits, x)
<1>7. Selects(hits, g)
  BY <1>6
<1>8. Selection(hits) = g[n]
  BY DEF Selection, Selects
<1>. QED
  BY <1>7, <1>8

LEMMA SelectionHolds ==
    ASSUME Asked, NEW hits \in Seq(Hit), \A j \in 1..Len(hits) : Score(hits[j]) \in Int
    PROVE  Chosen(Selection(hits), hits, Len(hits))
<1>. DEFINE n == Len(hits)
<1>1. n \in Nat
  BY LenProperties
<1>2. PICK taken : Selects(hits, taken) /\ Selection(hits) = taken[n]
  BY SelectionOnce
<1>3. \A k \in 0..n : taken[k] = IF k = 0 THEN <<>> ELSE Take(taken[k - 1], hits[k])
  BY <1>2 DEF Selects
<1>. HIDE DEF n
<1>. DEFINE Good == {k \in 0..n : Chosen(taken[k], hits, k)}
<1>4. 0 \in Good
  <2>1. 0 \in 0..n
    BY <1>1
  <2>2. taken[0] = <<>>
    BY <1>3, <2>1, Zenon
  <2>. DEFINE none == <<>>
  <2>3. none \in Seq(Hit) /\ Len(none) = 0 /\ Size(none) = 0
    BY EmptySeq, SizeEmpty
  <2>. HIDE DEF none
  <2>4. effective_k \in Nat /\ MaxContext \in Nat
    BY EffectiveHolds, RVAssumption
  <2>5. Len(none) <= effective_k /\ Size(none) <= MaxContext
    BY <2>3, <2>4
  <2>6. \A a \in 1..Len(none) : FALSE
    BY <2>3
  <2>7. \A j \in 1..0 : FALSE
    OBVIOUS
  <2>8. Chosen(none, hits, 0)
    BY <2>3, <2>5, <2>6, <2>7, Zenon DEF Chosen
  <2>. QED
    BY <2>1, <2>2, <2>8 DEF none
<1>5. ASSUME NEW k \in 1..n, k - 1 \in Good PROVE k \in Good
  <2>1. k \in 0..n /\ k # 0
    BY <1>1
  <2>2. taken[k] = Take(taken[k - 1], hits[k])
    BY <1>3, <2>1, Zenon
  <2>3. Chosen(taken[k - 1], hits, k - 1)
    BY <1>5
  <2>. DEFINE t == taken[k - 1]
  <2>. HIDE DEF t
  <2>4. Chosen(Take(t, hits[k]), hits, k)
    BY <2>3, TakeKeeps DEF t, n
  <2>. QED
    BY <2>1, <2>2, <2>4 DEF t
<1>6. n \in Good
  <2>. HIDE DEF Good
  <2>1. \A k \in 0..n : k \in Good
    BY <1>1, <1>4, <1>5, UpTo
  <2>2. n \in 0..n
    BY <1>1
  <2>. QED
    BY <2>1, <2>2
<1>. QED
  BY <1>2, <1>6 DEF n

\* Breadth of any list of hits and what is selected of it.
LEMMA ChosenBroad ==
    ASSUME Asked, NEW hits \in Seq(Hit), NEW t, Chosen(t, hits, Len(hits))
    PROVE  /\ \A k \in DOMAIN hits :
                 \/ hits[k].doc \in DocsOf(t)
                 \/ Score(hits[k]) < MinScore
                 \/ Len(t) = effective_k
                 \/ Size(t) + hits[k].size > MaxContext
           /\ \A k \in DOMAIN t :
                 k > Max({1, effective_k \div 2}) => t[k].doc \notin DocsOf(SubSeq(t, 1, k - 1))
<1>. DEFINE M == Max({1, effective_k \div 2})
<1>1. /\ t \in Seq(Hit) /\ Len(t) \in Nat /\ DOMAIN t = 1..Len(t) /\ DOMAIN hits = 1..Len(hits)
      /\ \A j \in 1..Len(hits) : (\E a \in 1..Len(t) : t[a].doc = hits[j].doc) \/ LeftOut(t, hits[j])
      /\ \A a, c \in 1..Len(t) : c < a /\ a > M => t[c].doc # t[a].doc
  BY LenProperties DEF Chosen
<1>2. \A d : d \in DocsOf(t) <=> \E a \in 1..Len(t) : t[a].doc = d
  BY <1>1, DocsAt
<1>3. \A k \in DOMAIN hits : hits[k].doc \in DocsOf(t) \/ LeftOut(t, hits[k])
  BY <1>1, <1>2
<1>. HIDE DEF M
<1>4. ASSUME NEW k \in 1..Len(t), k > M PROVE t[k].doc \notin DocsOf(SubSeq(t, 1, k - 1))
  <2>. DEFINE front == SubSeq(t, 1, k - 1)
  <2>1. k - 1 \in 0..Len(t)
    BY <1>1
  <2>2. front \in Seq(Hit) /\ Len(front) = k - 1 /\ \A a \in 1..k - 1 : front[a] = t[a]
    BY <1>1, <2>1, SizeFront
  <2>. HIDE DEF front
  <2>3. \A d : d \in DocsOf(front) <=> \E a \in 1..Len(front) : front[a].doc = d
    BY <2>2, DocsAt
  <2>4. ASSUME NEW a \in 1..k - 1 PROVE front[a].doc # t[k].doc
    <3>1. a \in 1..Len(t) /\ a < k
      BY <1>1
    <3>2. t[a].doc # t[k].doc
      BY <1>1, <1>4, <3>1
    <3>. QED
      BY <2>2, <3>2
  <2>5. t[k].doc \notin DocsOf(front)
    BY <2>2, <2>3, <2>4
  <2>. QED
    BY <2>5 DEF front
<1>. QED
  BY <1>1, <1>3, <1>4, Zenon DEF LeftOut, M

-----------------------------------------------------------------------------
(* What is shown.                                                          *)

LEMMA BlockHolds ==
    ASSUME NEW hits \in Seq(Hit)
    PROVE  \E n \in 0..Len(hits) : /\ build_context_block(hits) = SubSeq(hits, 1, n)
                                   /\ Size(Neutralised(SubSeq(hits, 1, n))) <= MaxContext
                                   /\ n < Len(hits) =>
                                         ~(Size(Neutralised(SubSeq(hits, 1, n + 1))) <= MaxContext)
<1>. DEFINE Fits(n) == Size(Neutralised(SubSeq(hits, 1, n))) <= MaxContext
            S == {n \in 0..Len(hits) : \A m \in 0..n : Fits(m)}
<1>1. Len(hits) \in Nat /\ MaxContext \in Nat
  BY LenProperties, RVAssumption
<1>2. Fits(0)
  <2>. DEFINE none == SubSeq(hits, 1, 0)
              passages == Neutralised(none)
  <2>1. 0 \in 0..Len(hits)
    BY <1>1
  <2>2. none \in Seq(Hit) /\ Len(none) = 0
    BY <2>1, SizeFront
  <2>. HIDE DEF none
  <2>3. DOMAIN none = 1..0
    BY <2>2, LenProperties
  <2>4. passages = [k \in 1..0 |-> passages[k]]
    BY <2>3 DEF Neutralised
  <2>. HIDE DEF passages
  <2>5. passages \in Seq(Hit) /\ Len(passages) = 0
    <3>1. \A k \in 1..0 : passages[k] \in Hit
      OBVIOUS
    <3>. QED
      BY <2>4, <3>1, ListOf
  <2>6. passages = <<>>
    BY <2>5, EmptySeq
  <2>7. Size(passages) = 0
    BY <2>6, SizeEmpty
  <2>. QED
    BY <1>1, <2>7 DEF passages, none
<1>. HIDE DEF Fits
<1>3. S \in SUBSET (0..Len(hits)) /\ S # {}
  <2>1. 0 \in S
    BY <1>1, <1>2
  <2>. QED
    BY <2>1
<1>4. build_context_block(hits) = SubSeq(hits, 1, Max(S))
  BY DEF build_context_block, Fits
<1>5. ASSUME NEW n \in S
      PROVE  /\ n \in 0..Len(hits) /\ Fits(n)
             /\ n < Len(hits) /\ Fits(n + 1) => n + 1 \in S
  <2>1. n \in Nat /\ n \in 0..Len(hits) /\ \A m \in 0..n : Fits(m)
    BY <1>1
  <2>2. \A m \in 0..n + 1 : m \in 0..n \/ m = n + 1
    BY <2>1
  <2>3. ASSUME n < Len(hits), Fits(n + 1) PROVE n + 1 \in S
    <3>1. n + 1 \in 0..Len(hits) /\ \A m \in 0..n + 1 : Fits(m)
      BY <1>1, <2>1, <2>2, <2>3
    <3>. QED
      BY <3>1
  <2>. QED
    BY <2>1, <2>3
<1>. HIDE DEF S
<1>6. Max(S) \in S /\ \A n \in S : n <= Max(S)
  BY <1>1, <1>3, Largest
<1>7. Max(S) \in 0..Len(hits) /\ Fits(Max(S))
  BY <1>5, <1>6
<1>8. Max(S) < Len(hits) => ~Fits(Max(S) + 1)
  <2>1. SUFFICES ASSUME Max(S) < Len(hits), Fits(Max(S) + 1) PROVE FALSE
    OBVIOUS
  <2>2. Max(S) + 1 \in S
    BY <1>5, <1>6, <2>1
  <2>. QED
    BY <1>1, <1>6, <1>7, <2>2
<1>. QED
  BY <1>4, <1>7, <1>8 DEF Fits

\* What a search has found and selected.
Found(hits) ==
    /\ hits \in Seq(Hit)
    /\ \A k \in 1..Len(hits) :
          TenantOf[hits[k].doc] = request.tenant /\ Score(hits[k]) >= MinScore
    /\ \A j, k \in 1..Len(hits) :
          hits[j].doc = hits[k].doc /\ hits[j].index = hits[k].index => hits[j] = hits[k]

LEMMA FoundShown ==
    ASSUME NEW hits, Found(hits)
    PROVE  LET block == build_context_block(hits) IN
           /\ block = SubSeq(hits, 1, Len(block))
           /\ Size(Neutralised(block)) <= MaxContext
           /\ Len(block) < Len(hits) =>
                 ~(Size(Neutralised(SubSeq(hits, 1, Len(block) + 1))) <= MaxContext)
           /\ ToSet(block) \subseteq citations(hits, block)
           /\ \A hit \in citations(hits, block) :
                 TenantOf[hit.doc] = request.tenant /\ Score(hit) >= MinScore
           /\ \A hit \in citations(hits, block) \ ToSet(block) :
                 \E k \in DOMAIN block : <<Id(hit), Id(block[k])>> \in NamedIn
<1>. DEFINE block == build_context_block(hits)
<1>1. /\ hits \in Seq(Hit) /\ Len(hits) \in Nat /\ DOMAIN hits = 1..Len(hits)
      /\ \A k \in 1..Len(hits) :
            hits[k] \in Hit /\ TenantOf[hits[k].doc] = request.tenant /\ Score(hits[k]) >= MinScore
      /\ \A j, k \in 1..Len(hits) :
            hits[j].doc = hits[k].doc /\ hits[j].index = hits[k].index => hits[j] = hits[k]
  BY LenProperties, ElementOfSeq DEF Found
<1>2. PICK n \in 0..Len(hits) :
         /\ block = SubSeq(hits, 1, n) /\ Size(Neutralised(SubSeq(hits, 1, n))) <= MaxContext
         /\ n < Len(hits) => ~(Size(Neutralised(SubSeq(hits, 1, n + 1))) <= MaxContext)
  BY <1>1, BlockHolds
<1>. HIDE DEF block
<1>3. Size(Neutralised(block)) <= MaxContext
  BY <1>2
<1>4. /\ DOMAIN block = 1..n /\ Len(block) = n
      /\ \A k \in 1..n : block[k] = hits[k] /\ k \in 1..Len(hits)
  <2>1. block \in Seq(Hit) /\ Len(block) = n /\ \A k \in 1..n : block[k] = hits[k]
    BY <1>1, <1>2, SizeFront
  <2>2. DOMAIN block = 1..n
    BY <2>1, LenProperties
  <2>. QED
    BY <1>1, <2>1, <2>2
<1>5. Len(block) < Len(hits) => ~(Size(Neutralised(SubSeq(hits, 1, Len(block) + 1))) <= MaxContext)
  BY <1>2, <1>4
<1>6. /\ \A x : x \in ToSet(block) <=> \E k \in 1..n : x = block[k]
      /\ \A x : x \in ToSet(hits) <=> \E k \in 1..Len(hits) : x = hits[k]
  BY <1>1, <1>4 DEF ToSet
<1>7. \A x : x \in citations(hits, block) <=>
              /\ x \in ToSet(hits)
              /\ \E k \in 1..n : Names(block[k], x)
  BY <1>4 DEF citations
<1>8. ASSUME NEW x \in ToSet(block) PROVE x \in citations(hits, block)
  <2>1. PICK k \in 1..n : x = block[k]
    BY <1>6
  <2>2. x = hits[k] /\ k \in 1..Len(hits) /\ x \in Hit
    BY <1>1, <1>4, <2>1
  <2>3. Names(block[k], x)
    BY <2>1 DEF Names
  <2>. QED
    BY <1>6, <1>7, <2>1, <2>2, <2>3
<1>9. ASSUME NEW hit \in citations(hits, block) \ ToSet(block)
      PROVE  \E k \in DOMAIN block : <<Id(hit), Id(block[k])>> \in NamedIn
  <2>1. PICK j \in 1..Len(hits) : hit = hits[j]
    BY <1>6, <1>7
  <2>2. PICK k \in 1..n : Names(block[k], hit)
    BY <1>7
  <2>3. k \in DOMAIN block
    BY <1>4
  <2>4. Id(hit) # Id(block[k])
    <3>1. SUFFICES ASSUME Id(hit) = Id(block[k]) PROVE FALSE
      OBVIOUS
    <3>2. block[k] = hits[k] /\ k \in 1..Len(hits)
      BY <1>4
    <3>3. hits[k] = hits[j]
      <4>1. hits[k].doc = hits[j].doc /\ hits[k].index = hits[j].index
        BY <2>1, <3>1, <3>2 DEF Id
      <4>. QED
        BY <1>1, <3>2, <4>1
    <3>4. hit \in ToSet(block)
      BY <1>6, <2>1, <3>2, <3>3
    <3>. QED
      BY <3>4
  <2>. QED
    BY <2>2, <2>3, <2>4 DEF Names
<1>10. \A hit \in citations(hits, block) : TenantOf[hit.doc] = request.tenant /\ Score(hit) >= MinScore
  BY <1>1, <1>6, <1>7
<1>11. block = SubSeq(hits, 1, Len(block))
  BY <1>2, <1>4
<1>. QED
  BY <1>3, <1>5, <1>8, <1>9, <1>10, <1>11 DEF block

-----------------------------------------------------------------------------
(* The pipeline.                                                           *)

\* A case is fixed, and the retriever's selection stays as it was made.
Inv ==
    /\ Asked
    /\ phase \in {"found", "augmented"} => Found(selected)
    /\ Breadth
    /\ SourcesAreShown

LEMMA InvInit == Init => Inv
BY AskedInit DEF Init, Inv, Breadth, SourcesAreShown

\* The hits of a search, and those of them that are selected.
LEMMA SearchFinds ==
    ASSUME Asked
    PROVE  LET hits == search(3 * effective_k) IN
           /\ hits \in Seq(Hit) /\ Chosen(Selection(hits), hits, Len(hits))
           /\ Found(Selection(hits))
<1>. DEFINE hits == search(3 * effective_k)
            t == Selection(hits)
<1>1. 3 * effective_k \in Nat
  BY EffectiveHolds
<1>2. hits \in Seq(Scope)
  BY <1>1, SearchHolds
<1>. HIDE DEF hits
<1>3. /\ Rows \subseteq Hit /\ \A r \in Rows : Score(r) \in Int
      /\ \A r, s \in Rows : r.doc = s.doc /\ r.index = s.index => r = s
  BY RowsHold
<1>4. \A r \in Scope : r \in Rows /\ TenantOf[r.doc] = request.tenant
  BY DEF Scope
<1>5. \A k \in 1..Len(hits) : hits[k] \in Scope
  BY <1>2, ElementOfSeq
<1>6. hits \in Seq(Hit)
  <2>1. Scope \subseteq Hit
    BY <1>3, <1>4
  <2>. QED
    BY <1>2, <2>1, SeqMonotonic
<1>7. Chosen(t, hits, Len(hits))
  <2>1. \A j \in 1..Len(hits) : Score(hits[j]) \in Int
    BY <1>3, <1>4, <1>5
  <2>. QED
    BY <1>6, <2>1, SelectionHolds
<1>. HIDE DEF t
<1>8. t \in Seq(Hit) /\ \A a \in 1..Len(t) : t[a] \in Scope
  <2>1. t \in Seq(Hit) /\ \A a \in 1..Len(t) : \E j \in 1..Len(hits) : t[a] = hits[j]
    BY <1>7 DEF Chosen
  <2>. QED
    BY <1>5, <2>1
<1>9. Found(t)
  <2>1. \A k \in 1..Len(t) : t[k] \in Rows /\ TenantOf[t[k].doc] = request.tenant
    BY <1>4, <1>8
  <2>2. \A j, k \in 1..Len(t) : t[j].doc = t[k].doc /\ t[j].index = t[k].index => t[j] = t[k]
    BY <1>3, <2>1
  <2>3. \A k \in 1..Len(t) : Score(t[k]) >= MinScore
    BY <1>7 DEF Chosen
  <2>. QED
    BY <1>8, <2>1, <2>2, <2>3 DEF Found
<1>. QED
  BY <1>6, <1>7, <1>9 DEF hits, t

LEMMA InvStep ==
    ASSUME Inv, [Next]_vars
    PROVE  Inv'
<1>1. Asked /\ Asked'
  BY AskedStays DEF Inv
<1>2. CASE Search
  <2>. DEFINE hits == search(3 * effective_k)
              t == Selection(hits)
  <2>1. hits \in Seq(Hit) /\ Chosen(t, hits, Len(hits)) /\ Found(t)
    BY <1>1, SearchFinds
  <2>2. /\ raw' = hits /\ selected' = Selection(raw') /\ phase' = "found"
        /\ request' = request /\ corpus' = corpus /\ shown' = shown /\ sources' = sources
    BY <1>2 DEF Search
  <2>3. selected' = t
    BY <2>2
  <2>. HIDE DEF t
  <2>. HIDE DEF hits
  <2>4. /\ \A k \in DOMAIN hits :
              \/ hits[k].doc \in DocsOf(t)
              \/ Score(hits[k]) < MinScore
              \/ Len(t) = effective_k
              \/ Size(t) + hits[k].size > MaxContext
        /\ \A k \in DOMAIN t :
              k > Max({1, effective_k \div 2}) => t[k].doc \notin DocsOf(SubSeq(t, 1, k - 1))
    BY <1>1, <2>1, ChosenBroad
  <2>5. Breadth'
    BY <2>2, <2>3, <2>4 DEF Breadth, Score, effective_k
  <2>6. Found(selected)'
    BY <2>1, <2>2, <2>3 DEF Found, Score
  <2>7. SourcesAreShown'
    BY <2>2 DEF SourcesAreShown
  <2>. QED
    BY <1>1, <2>5, <2>6, <2>7 DEF Inv
<1>3. CASE augment
  <2>1. /\ phase = "found" /\ phase' = "augmented" /\ shown' = build_context_block(selected)
        /\ sources' = citations(selected, shown')
        /\ request' = request /\ corpus' = corpus /\ raw' = raw /\ selected' = selected
    BY <1>3 DEF augment
  <2>2. Found(selected) /\ Breadth
    BY <2>1 DEF Inv
  <2>. DEFINE block == build_context_block(selected)
  <2>3. /\ block = SubSeq(selected, 1, Len(block))
        /\ Size(Neutralised(block)) <= MaxContext
        /\ Len(block) < Len(selected) =>
              ~(Size(Neutralised(SubSeq(selected, 1, Len(block) + 1))) <= MaxContext)
        /\ ToSet(block) \subseteq citations(selected, block)
        /\ \A hit \in citations(selected, block) :
              TenantOf[hit.doc] = request.tenant /\ Score(hit) >= MinScore
        /\ \A hit \in citations(selected, block) \ ToSet(block) :
              \E k \in DOMAIN block : <<Id(hit), Id(block[k])>> \in NamedIn
    BY <2>2, FoundShown
  <2>. HIDE DEF block
  <2>4. shown' = block /\ sources' = citations(selected, block)
    BY <2>1 DEF block
  <2>5. SourcesAreShown'
    BY <2>1, <2>3, <2>4 DEF SourcesAreShown, Score
  <2>6. Breadth'
    BY <2>1, <2>2 DEF Breadth, Score, effective_k
  <2>7. Found(selected)'
    BY <2>1, <2>2 DEF Found, Score
  <2>. QED
    BY <1>1, <2>5, <2>6, <2>7 DEF Inv
<1>4. CASE Fail
  <2>1. phase' = "failed"
    BY <1>4 DEF Fail
  <2>. QED
    BY <1>1, <2>1 DEF Inv, Breadth, SourcesAreShown
<1>5. CASE UNCHANGED vars
  BY <1>1, <1>5 DEF Inv, vars, Found, Breadth, SourcesAreShown, Score, effective_k
<1>. QED
  BY <1>2, <1>3, <1>4, <1>5 DEF Next, Answered

THEOREM InvHolds == Spec => []Inv
BY InvInit, InvStep, PTL DEF Spec

\* A document with a fitting hit is left out only if there are enough hits, and
\* only the first half of them may repeat one.
THEOREM SelectionIsBroad == Spec => []Breadth
BY InvHolds, PTL DEF Inv

\* The prompt holds the best hits, within the budget and no fewer than fit; they
\* are cited, and whatever else is cited is a relevant hit of the caller's tenant
\* whose chunk_id a passage in the prompt mentions (citations, pipeline.py).
THEOREM CitedIsShown == Spec => []SourcesAreShown
BY InvHolds, PTL DEF Inv
=============================================================================
