----------------------- MODULE StreamingRedactor_proofs -----------------------
(***************************************************************************)
(* Proofs about StreamingRedactor, for any texts, chunks, patterns' sizes  *)
(* and window.                                                             *)
(*                                                                         *)
(* That nothing is lost and that the carry is bounded holds whatever the   *)
(* patterns match: of a match it is used only that it is a stretch of the  *)
(* text, and of finditer that one begins behind the other.  That what is   *)
(* secret is not sent takes the patterns themselves: where a match of the  *)
(* whole text lies, a part of it that has arrived either matches there or  *)
(* may grow.                                                               *)
(*                                                                         *)
(* Finditer and scan are loops over the places of a text, so that what     *)
(* they return is shown by induction over these places.                    *)
(***************************************************************************)
EXTENDS StreamingRedactor, Loops, SequenceTheorems, FiniteSetTheorems, TLAPS

-----------------------------------------------------------------------------
(* Matches.                                                                *)

Characters == Letters \cup Digit \cup {"@", ".", "-", "_", " "}

\* A match of a text of length n.
MatchesOf(n) == [kind : {"email", "ssn", "card"}, from : 1..n, to : 1..n]

\* Stretches one behind the other, that begin before the place behind.
Apart(ms, behind) ==
    /\ \A k \in 1..Len(ms) : ms[k].from <= ms[k].to /\ ms[k].from <= behind
    /\ \A k \in 2..Len(ms) : ms[k - 1].to < ms[k].from

LEMMA EndsInside ==
    ASSUME NEW t \in Seq(Characters), NEW i \in 1..Len(t)
    PROVE  /\ EmailEnds(t, i) \subseteq i..Len(t)
           /\ SsnEnds(t, i) \subseteq i..Len(t)
           /\ CardEnds(t, i) \subseteq i..Len(t)
<1>1. EmailEnds(t, i) \subseteq i..Len(t)
  BY DEF EmailEnds
<1>2. CardEnds(t, i) \subseteq i..Len(t)
  BY DEF CardEnds
<1>3. SsnEnds(t, i) \subseteq {i + SsnLength - 1} \cap 1..Len(t)
  BY DEF SsnEnds
<1>4. SsnLength \in Nat \ {0}
  <2>. DEFINE a == SsnParts[1]
              b == SsnParts[2]
              c == SsnParts[3]
  <2>1. SsnParts \in [1..3 -> Nat \ {0}]
    BY SRAssumption, Zenon
  <2>2. 1 \in 1..3 /\ 2 \in 1..3 /\ 3 \in 1..3
    OBVIOUS
  <2>3. a \in Nat \ {0} /\ b \in Nat \ {0} /\ c \in Nat \ {0}
    BY <2>1, <2>2, Zenon
  <2>4. SsnLength = a + b + c + 2
    BY Zenon DEF SsnLength
  <2>. HIDE DEF a, b, c
  <2>. QED
    BY <2>3, <2>4
<1>. QED
  BY <1>1, <1>2, <1>3, <1>4

LEMMA MatchInside ==
    ASSUME NEW t \in Seq(Characters), NEW i \in Starts(t)
    PROVE  /\ MatchAt(t, i) \in MatchesOf(Len(t))
           /\ MatchAt(t, i).from = i /\ MatchAt(t, i).to \in i..Len(t)
<1>1. i \in 1..Len(t) /\ EmailEnds(t, i) \cup SsnEnds(t, i) \cup CardEnds(t, i) # {}
  BY DEF Starts
<1>2. ASSUME NEW ends, ends \subseteq i..Len(t), ends # {} PROVE Max(ends) \in i..Len(t)
  <2>1. Len(t) \in Nat /\ ends \in SUBSET (0..Len(t))
    BY <1>1, <1>2
  <2>. QED
    BY <1>2, <2>1, Largest
<1>3. \E kind \in {"email", "ssn", "card"}, to \in i..Len(t) :
         MatchAt(t, i) = [kind |-> kind, from |-> i, to |-> to]
  <2>1. CASE EmailEnds(t, i) # {}
    <3>1. MatchAt(t, i) = [kind |-> "email", from |-> i, to |-> Max(EmailEnds(t, i))]
      BY <2>1, Zenon DEF MatchAt
    <3>. QED
      BY <1>1, <1>2, <2>1, <3>1, EndsInside
  <2>2. CASE EmailEnds(t, i) = {} /\ SsnEnds(t, i) # {}
    <3>1. MatchAt(t, i) = [kind |-> "ssn", from |-> i, to |-> Max(SsnEnds(t, i))]
      BY <2>2, Zenon DEF MatchAt
    <3>. QED
      BY <1>1, <1>2, <2>2, <3>1, EndsInside
  <2>3. CASE EmailEnds(t, i) = {} /\ SsnEnds(t, i) = {}
    <3>1. MatchAt(t, i) = [kind |-> "card", from |-> i, to |-> Max(CardEnds(t, i))]
      BY <2>3, Zenon DEF MatchAt
    <3>. QED
      BY <1>1, <1>2, <2>3, <3>1, EndsInside
  <2>. QED
    BY <2>1, <2>2, <2>3
<1>. QED
  BY <1>1, <1>3 DEF MatchesOf

\* One turn of finditer.
Found(t, before, i) ==
    IF i \in Starts(t) /\ (before = <<>> \/ before[Len(before)].to < i)
      THEN Append(before, MatchAt(t, i))
      ELSE before

Finds(t, f) == f = [i \in 0..Len(t) |-> IF i = 0 THEN <<>> ELSE Found(t, f[i - 1], i)]

LEMMA FoundTyped ==
    ASSUME NEW t \in Seq(Characters), NEW i \in 1..Len(t), NEW before \in Seq(MatchesOf(Len(t)))
    PROVE  Found(t, before, i) \in Seq(MatchesOf(Len(t)))
<1>1. CASE i \in Starts(t)
  BY <1>1, MatchInside, AppendProperties DEF Found
<1>2. CASE i \notin Starts(t)
  BY <1>2 DEF Found
<1>. QED
  BY <1>1, <1>2

LEMMA FindsOnce ==
    ASSUME NEW t \in Seq(Characters)
    PROVE  \E f : Finds(t, f) /\ Matches(t) = f[Len(t)]
<1>. DEFINE V == Seq(MatchesOf(Len(t)))
            step == [kb \in (1..Len(t)) \X V |-> Found(t, kb[2], kb[1])]
<1>1. Len(t) \in Nat /\ <<>> \in V
  BY EmptySeq
<1>2. \A k \in 1..Len(t) : \A b \in V : Found(t, b, k) \in V
  BY FoundTyped
<1>3. \A k \in 1..Len(t) : \A b \in V : step[<<k, b>>] = Found(t, b, k)
  OBVIOUS
<1>. HIDE DEF step
<1>4. PICK f \in [0..Len(t) -> V] : Follows(Len(t), <<>>, step, f)
  <2>1. StepsIn(Len(t), V, step)
    <3>. HIDE DEF V
    <3>. QED
      BY <1>2, <1>3 DEF StepsIn
  <2>. HIDE DEF V
  <2>. QED
    BY <1>1, <2>1, Recursion
<1>5. ASSUME NEW k \in 0..Len(t)
      PROVE  f[k] = (IF k = 0 THEN <<>> ELSE Found(t, f[k - 1], k))
  <2>1. CASE k = 0
    BY <1>4, <2>1 DEF Follows
  <2>2. CASE k # 0
    <3>1. k \in 1..Len(t) /\ k - 1 \in 0..Len(t)
      BY <1>1, <2>2
    <3>2. f[k - 1] \in V
      BY <1>4, <3>1
    <3>. HIDE DEF V
    <3>. QED
      BY <1>3, <1>4, <2>2, <3>1, <3>2 DEF Follows
  <2>. QED
    BY <2>1, <2>2
<1>6. Finds(t, f)
  <2>. HIDE DEF V
  <2>. QED
    BY <1>4, <1>5 DEF Finds
<1>7. Finds(t, CHOOSE g : Finds(t, g))
  BY <1>6
<1>8. Matches(t) = (CHOOSE g : Finds(t, g))[Len(t)]
  BY DEF Matches, Finds, Found
<1>. QED
  BY <1>7, <1>8

LEMMA FoundApart ==
    ASSUME NEW t \in Seq(Characters), NEW i \in 1..Len(t), NEW before \in Seq(MatchesOf(Len(t))),
           Apart(before, i - 1)
    PROVE  Apart(Found(t, before, i), i)
<1>. DEFINE M == MatchesOf(Len(t))
            new == MatchAt(t, i)
            after == Append(before, new)
<1>1. Len(before) \in Nat /\ \A k \in 1..Len(before) : before[k].from \in Nat /\ before[k].to \in Nat
  <2>1. Len(before) \in Nat /\ \A k \in 1..Len(before) : before[k] \in M
    BY LenProperties, ElementOfSeq
  <2>. QED
    BY <2>1 DEF MatchesOf
<1>2. CASE i \in Starts(t) /\ (before = <<>> \/ before[Len(before)].to < i)
  <2>1. new \in M /\ new.from = i /\ new.to \in i..Len(t) /\ i \in Nat
    BY <1>2, MatchInside
  <2>2. /\ after \in Seq(M) /\ Len(after) = Len(before) + 1
        /\ \A k \in 1..Len(before) : after[k] = before[k]
        /\ after[Len(before) + 1] = new
    <3>. HIDE DEF new, M
    <3>. QED
      BY <2>1, AppendProperties DEF M
  <2>3. Found(t, before, i) = after
    BY <1>2 DEF Found
  <2>4. before = <<>> <=> Len(before) = 0
    OBVIOUS
  <2>. HIDE DEF after, new
  <2>5. ASSUME NEW k \in 1..Len(after) PROVE after[k].from <= after[k].to /\ after[k].from <= i
    <3>1. CASE k = Len(before) + 1
      BY <2>1, <2>2, <3>1
    <3>2. CASE k # Len(before) + 1
      <4>1. k \in 1..Len(before)
        BY <1>1, <2>2, <3>2
      <4>2. after[k] = before[k] /\ before[k].from \in Nat /\ before[k].to \in Nat
        BY <1>1, <2>2, <4>1
      <4>3. before[k].from <= before[k].to /\ before[k].from <= i - 1
        BY <4>1 DEF Apart
      <4>. QED
        BY <2>1, <4>2, <4>3
    <3>. QED
      BY <3>1, <3>2
  <2>6. ASSUME NEW k \in 2..Len(after) PROVE after[k - 1].to < after[k].from
    <3>1. CASE k = Len(before) + 1
      <4>1. k - 1 = Len(before) /\ k - 1 \in 1..Len(before) /\ before # <<>>
        BY <1>1, <2>4, <3>1
      <4>. QED
        BY <1>2, <2>1, <2>2, <3>1, <4>1
    <3>2. CASE k # Len(before) + 1
      <4>1. k \in 2..Len(before) /\ k \in 1..Len(before) /\ k - 1 \in 1..Len(before)
        BY <1>1, <2>2, <3>2
      <4>. QED
        BY <2>2, <4>1 DEF Apart
    <3>. QED
      BY <3>1, <3>2
  <2>. QED
    BY <2>3, <2>5, <2>6 DEF Apart
<1>3. CASE ~(i \in Starts(t) /\ (before = <<>> \/ before[Len(before)].to < i))
  <2>1. Found(t, before, i) = before
    BY <1>3 DEF Found
  <2>. QED
    BY <1>1, <2>1 DEF Apart
<1>. QED
  BY <1>2, <1>3

\* finditer returns stretches of the text, one behind the other.
LEMMA MatchesApart ==
    ASSUME NEW t \in Seq(Characters)
    PROVE  Matches(t) \in Seq(MatchesOf(Len(t))) /\ Apart(Matches(t), Len(t))
<1>1. PICK f : Finds(t, f) /\ Matches(t) = f[Len(t)]
  BY FindsOnce
<1>. DEFINE Good == {k \in 0..Len(t) : f[k] \in Seq(MatchesOf(Len(t))) /\ Apart(f[k], k)}
<1>2. Len(t) \in Nat
  OBVIOUS
<1>3. f[0] = <<>> /\ \A k \in 1..Len(t) : f[k] = Found(t, f[k - 1], k)
  <2>1. 0 \in 0..Len(t) /\ \A k \in 1..Len(t) : k \in 0..Len(t) /\ k # 0
    BY <1>2
  <2>. QED
    BY <1>1, <2>1 DEF Finds
<1>4. 0 \in Good
  <2>1. Len(<<>>) = 0 /\ <<>> \in Seq(MatchesOf(Len(t)))
    BY EmptySeq
  <2>2. Apart(<<>>, 0)
    BY <2>1 DEF Apart
  <2>3. 0 \in 0..Len(t) /\ f[0] = <<>>
    BY <1>2, <1>3
  <2>. QED
    BY <2>1, <2>2, <2>3, Zenon
<1>5. ASSUME NEW k \in 1..Len(t), k - 1 \in Good PROVE k \in Good
  <2>1. f[k - 1] \in Seq(MatchesOf(Len(t))) /\ Apart(f[k - 1], k - 1) /\ k \in 0..Len(t)
    BY <1>5
  <2>. QED
    BY <1>3, <2>1, FoundTyped, FoundApart
<1>6. Len(t) \in Good
  <2>1. Len(t) \in 0..Len(t)
    BY <1>2
  <2>. HIDE DEF Good
  <2>. QED
    BY <1>2, <1>4, <1>5, <2>1, UpTo
<1>. QED
  BY <1>1, <1>6

-----------------------------------------------------------------------------
(* What is sent, piece by piece.                                           *)

Pieces(n) == [from : 1..n, to : 1..n, clear : BOOLEAN]

\* The characters behind lo up to hi.
Run(lo, hi) == [k \in 1..hi - lo |-> lo + k]

\* The pieces are these characters, none left out and none twice.
Covers(seq, lo, hi) ==
    /\ \A k \in 1..Len(seq) : seq[k].from <= seq[k].to
    /\ \A k \in 2..Len(seq) : seq[k].from = seq[k - 1].to + 1
    /\ seq = <<>> => lo = hi
    /\ seq # <<>> => seq[1].from = lo + 1 /\ seq[Len(seq)].to = hi

LEMMA CoversConcat ==
    ASSUME NEW n \in Nat, NEW a \in Nat, NEW b \in Nat, NEW c \in Nat,
           NEW s \in Seq(Pieces(n)), NEW r \in Seq(Pieces(n)), Covers(s, a, b), Covers(r, b, c)
    PROVE  s \o r \in Seq(Pieces(n)) /\ Covers(s \o r, a, c)
<1>. DEFINE P == Pieces(n)
            both == s \o r
<1>1. CASE s = <<>>
  <2>1. both = r /\ a = b
    BY <1>1, ConcatEmptySeq DEF Covers
  <2>. QED
    BY <2>1
<1>2. CASE r = <<>>
  <2>1. both = s /\ b = c
    BY <1>2, ConcatEmptySeq DEF Covers
  <2>. QED
    BY <2>1
<1>3. CASE s # <<>> /\ r # <<>>
  <2>1. Len(s) \in Nat \ {0} /\ Len(r) \in Nat \ {0}
    BY <1>3, EmptySeq
  <2>2. /\ both \in Seq(P) /\ Len(both) = Len(s) + Len(r)
        /\ \A k \in 1..Len(s) + Len(r) : both[k] = IF k <= Len(s) THEN s[k] ELSE r[k - Len(s)]
    BY ConcatProperties
  <2>. HIDE DEF both
  <2>3. ASSUME NEW k \in 1..Len(both) PROVE both[k].from <= both[k].to
    <3>1. CASE k <= Len(s)
      BY <2>1, <2>2, <3>1 DEF Covers
    <3>2. CASE ~(k <= Len(s))
      <4>1. k - Len(s) \in 1..Len(r)
        BY <2>1, <2>2, <3>2
      <4>. QED
        BY <2>2, <3>2, <4>1 DEF Covers
    <3>. QED
      BY <3>1, <3>2
  <2>4. ASSUME NEW k \in 2..Len(both) PROVE both[k].from = both[k - 1].to + 1
    <3>0. k \in 1..Len(s) + Len(r) /\ k - 1 \in 1..Len(s) + Len(r)
      BY <2>1, <2>2
    <3>1. CASE k <= Len(s)
      <4>1. k \in 2..Len(s) /\ k - 1 <= Len(s)
        BY <2>1, <3>1
      <4>. QED
        BY <2>2, <3>0, <3>1, <4>1 DEF Covers
    <3>2. CASE k = Len(s) + 1
      <4>1. both[k] = r[1] /\ both[k - 1] = s[Len(s)]
        <5>1. k - Len(s) = 1 /\ k - 1 = Len(s) /\ ~(k <= Len(s)) /\ k - 1 <= Len(s)
          BY <2>1, <3>2
        <5>. QED
          BY <2>2, <3>0, <5>1
      <4>. QED
        BY <1>3, <4>1 DEF Covers
    <3>3. CASE k > Len(s) + 1
      <4>1. k - Len(s) \in 2..Len(r) /\ ~(k <= Len(s)) /\ ~(k - 1 <= Len(s))
            /\ (k - 1) - Len(s) = (k - Len(s)) - 1
        BY <2>1, <2>2, <3>3
      <4>2. both[k] = r[k - Len(s)] /\ both[k - 1] = r[(k - Len(s)) - 1]
        BY <2>2, <3>0, <4>1
      <4>. QED
        BY <4>1, <4>2 DEF Covers
    <3>. QED
      BY <2>1, <3>1, <3>2, <3>3
  <2>5. both # <<>> /\ both[1] = s[1] /\ both[Len(both)] = r[Len(r)]
    <3>1. 1 \in 1..Len(s) + Len(r) /\ Len(both) \in 1..Len(s) + Len(r) /\ ~(Len(both) <= Len(s))
          /\ Len(both) - Len(s) = Len(r) /\ Len(both) # 0
      BY <2>1, <2>2
    <3>2. both # <<>>
      BY <2>1, <2>2, EmptySeq
    <3>3. both[1] = s[1]
      BY <2>1, <2>2, <3>1
    <3>4. both[Len(both)] = r[Len(both) - Len(s)]
      BY <2>2, <3>1
    <3>. QED
      BY <3>1, <3>2, <3>3, <3>4
  <2>. QED
    BY <1>3, <2>2, <2>3, <2>4, <2>5 DEF both, Covers
<1>. QED
  BY <1>1, <1>2, <1>3

LEMMA RunTypes ==
    ASSUME NEW n \in Nat, NEW lo \in Nat, NEW hi \in lo..n
    PROVE  /\ Run(lo, hi) \in Seq(1..n) /\ Len(Run(lo, hi)) = hi - lo
           /\ \A k \in 1..hi - lo : Run(lo, hi)[k] = lo + k
<1>1. hi - lo \in Nat /\ \A k \in 1..hi - lo : lo + k \in 1..n
  OBVIOUS
<1>2. Run(lo, hi) \in Seq(1..n)
  BY <1>1, IsASeq DEF Run
<1>3. \A k \in 1..hi - lo : Run(lo, hi)[k] = lo + k
  BY DEF Run
<1>4. DOMAIN Run(lo, hi) = 1..hi - lo
  BY DEF Run
<1>5. Len(Run(lo, hi)) = hi - lo
  <2>1. Len(Run(lo, hi)) \in Nat /\ DOMAIN Run(lo, hi) = 1..Len(Run(lo, hi))
    BY <1>2, LenProperties
  <2>. HIDE DEF Run
  <2>. QED
    BY <1>1, <1>4, <2>1
<1>. QED
  BY <1>2, <1>3, <1>5

LEMMA RunEqual ==
    ASSUME NEW n \in Nat, NEW lo \in Nat, NEW hi \in lo..n, NEW s \in Seq(1..n),
           Len(s) = hi - lo, \A k \in 1..hi - lo : s[k] = lo + k
    PROVE  s = Run(lo, hi)
<1>1. /\ Run(lo, hi) \in Seq(1..n) /\ Len(Run(lo, hi)) = hi - lo
      /\ \A k \in 1..hi - lo : Run(lo, hi)[k] = lo + k
  BY RunTypes
<1>. QED
  BY <1>1, SeqEqual

LEMMA RunParts ==
    ASSUME NEW n \in Nat, NEW lo \in Nat, NEW hi \in lo..n,
           NEW first \in 1..(hi - lo) + 1, NEW j \in first - 1..hi - lo
    PROVE  SubSeq(Run(lo, hi), first, j) = Run(lo + (first - 1), lo + j)
<1>0. PICK i \in 0..hi - lo : first = i + 1 /\ first - 1 = i /\ j \in i..hi - lo
  <2>1. first - 1 \in 0..hi - lo /\ first = (first - 1) + 1
    OBVIOUS
  <2>. QED
    BY <2>1
<1>. DEFINE whole == Run(lo, hi)
            part == SubSeq(whole, i + 1, j)
<1>1. /\ whole \in Seq(1..n) /\ \A k \in 1..hi - lo : whole[k] = lo + k
  BY RunTypes
<1>2. \A k \in i + 1..j : k \in 1..hi - lo /\ lo + k \in 1..n
  BY <1>0
<1>. HIDE DEF whole
<1>3. \A k \in i + 1..j : whole[k] \in 1..n
  BY <1>1, <1>2
<1>4. /\ part \in Seq(1..n)
      /\ Len(part) = IF i + 1 <= j THEN j - (i + 1) + 1 ELSE 0
      /\ \A k \in 1..j - (i + 1) + 1 : part[k] = whole[i + 1 + k - 1]
  <2>1. i + 1 \in Int /\ j \in Int
    BY <1>0
  <2>. QED
    BY <1>3, <2>1, SubSeqProperties
<1>5. lo + i \in Nat /\ lo + j \in lo + i..n /\ (lo + j) - (lo + i) = j - i
      /\ j - (i + 1) + 1 = j - i
  BY <1>0
<1>. HIDE DEF part
<1>6. Len(part) = j - i
  BY <1>0, <1>4, <1>5
<1>7. ASSUME NEW k \in 1..j - i PROVE part[k] = (lo + i) + k
  <2>1. i + 1 + k - 1 = i + k /\ i + k \in 1..hi - lo /\ lo + (i + k) = (lo + i) + k
    BY <1>0
  <2>. QED
    BY <1>1, <1>4, <1>5, <2>1
<1>. QED
  <2>1. part = Run(lo + i, lo + j)
    BY <1>4, <1>5, <1>6, <1>7, RunEqual
  <2>2. SubSeq(Run(lo, hi), i + 1, j) = Run(lo + i, lo + j)
    BY <2>1, Zenon DEF part, whole
  <2>3. first = i + 1 /\ first - 1 = i
    BY <1>0
  <2>. QED
    BY <2>2, <2>3, Zenon

LEMMA RunsJoin ==
    ASSUME NEW n \in Nat, NEW lo \in Nat, NEW mid \in lo..n, NEW hi \in mid..n
    PROVE  Run(lo, mid) \o [k \in 1..hi - mid |-> mid + k] = Run(lo, hi)
<1>. DEFINE s == Run(lo, mid)
            r == Run(mid, hi)
<1>1. /\ s \in Seq(1..n) /\ Len(s) = mid - lo /\ \A k \in 1..mid - lo : s[k] = lo + k
  BY RunTypes
<1>2. mid \in Nat /\ r \in Seq(1..n) /\ Len(r) = hi - mid /\ \A k \in 1..hi - mid : r[k] = mid + k
  <2>1. mid \in Nat
    OBVIOUS
  <2>2. r \in Seq(1..n) /\ Len(r) = hi - mid /\ \A k \in 1..hi - mid : r[k] = mid + k
    BY <2>1, RunTypes
  <2>. QED
    BY <2>1, <2>2
<1>. HIDE DEF s, r
<1>3. /\ s \o r \in Seq(1..n) /\ Len(s \o r) = Len(s) + Len(r)
      /\ \A k \in 1..Len(s) + Len(r) : (s \o r)[k] = IF k <= Len(s) THEN s[k] ELSE r[k - Len(s)]
  BY <1>1, <1>2, ConcatProperties
<1>4. Len(s \o r) = hi - lo /\ hi \in lo..n
  BY <1>1, <1>2, <1>3
<1>5. ASSUME NEW k \in 1..hi - lo PROVE (s \o r)[k] = lo + k
  <2>1. k \in 1..Len(s) + Len(r)
    BY <1>1, <1>2
  <2>2. CASE k <= Len(s)
    BY <1>1, <1>3, <2>1, <2>2
  <2>3. CASE ~(k <= Len(s))
    <3>1. k - Len(s) \in 1..hi - mid /\ mid + (k - Len(s)) = lo + k
      BY <1>1, <1>2, <2>1, <2>3
    <3>. QED
      BY <1>2, <1>3, <2>1, <2>3, <3>1
  <2>. QED
    BY <2>2, <2>3
<1>6. s \o r = Run(lo, hi)
  <2>. DEFINE both == s \o r
  <2>1. both \in Seq(1..n) /\ Len(both) = hi - lo /\ \A k \in 1..hi - lo : both[k] = lo + k
    BY <1>3, <1>4, <1>5
  <2>. HIDE DEF both
  <2>2. both = Run(lo, hi)
    BY <1>4, <2>1, RunEqual
  <2>. QED
    BY <2>2 DEF both
<1>. QED
  BY <1>6 DEF s, r, Run

LEMMA ClearCovers ==
    ASSUME NEW n \in Nat, NEW lo \in Nat, NEW hi \in lo..n
    PROVE  Clear(Run(lo, hi)) \in Seq(Pieces(n)) /\ Covers(Clear(Run(lo, hi)), lo, hi)
<1>. DEFINE piece(k) == [from |-> lo + k, to |-> lo + k, clear |-> TRUE]
            s == [k \in 1..hi - lo |-> piece(k)]
<1>1. hi - lo \in Nat /\ \A k \in 1..hi - lo : lo + k \in 1..n
  OBVIOUS
<1>2. Clear(Run(lo, hi)) = s
  <2>1. DOMAIN Run(lo, hi) = 1..hi - lo
    BY DEF Run
  <2>2. \A k \in 1..hi - lo : Run(lo, hi)[k] = lo + k
    BY DEF Run
  <2>. QED
    BY <2>1, <2>2, Zenon DEF Clear
<1>3. \A k \in 1..hi - lo : piece(k) \in Pieces(n)
  BY <1>1 DEF Pieces
<1>4. s \in Seq(Pieces(n))
  <2>. HIDE DEF piece
  <2>. QED
    BY <1>1, <1>3, IsASeq
<1>5. Len(s) = hi - lo
  <2>1. Len(s) \in Nat /\ DOMAIN s = 1..Len(s)
    BY <1>4, LenProperties
  <2>2. DOMAIN s = 1..hi - lo
    OBVIOUS
  <2>. HIDE DEF s
  <2>. QED
    BY <1>1, <2>1, <2>2
<1>6. \A k \in 1..hi - lo : s[k].from = lo + k /\ s[k].to = lo + k
  OBVIOUS
<1>7. s = <<>> <=> hi - lo = 0
  <2>. HIDE DEF s
  <2>. QED
    BY <1>4, <1>5, EmptySeq
<1>. HIDE DEF s
<1>8. Covers(s, lo, hi)
  <2>1. ASSUME NEW k \in 1..Len(s) PROVE s[k].from <= s[k].to
    BY <1>5, <1>6
  <2>2. ASSUME NEW k \in 2..Len(s) PROVE s[k].from = s[k - 1].to + 1
    <3>1. k \in 1..hi - lo /\ k - 1 \in 1..hi - lo
      BY <1>1, <1>5
    <3>. QED
      BY <1>6, <3>1
  <2>3. ASSUME s # <<>> PROVE s[1].from = lo + 1 /\ s[Len(s)].to = hi
    <3>1. 1 \in 1..hi - lo /\ hi - lo \in 1..hi - lo
      BY <1>1, <1>7, <2>3
    <3>2. s[1].from = lo + 1 /\ s[hi - lo].to = lo + (hi - lo)
      BY <1>6, <3>1
    <3>. QED
      BY <1>5, <3>2
  <2>4. ASSUME s = <<>> PROVE lo = hi
    BY <1>7, <2>4
  <2>. QED
    BY <2>1, <2>2, <2>3, <2>4 DEF Covers
<1>. QED
  BY <1>2, <1>4, <1>8

-----------------------------------------------------------------------------
(* scan.                                                                   *)

\* t is the characters of the text behind lo up to hi.
Part(t, lo, hi) ==
    /\ t \in Seq(Characters) /\ Len(t) = hi - lo
    /\ \A k \in 1..hi - lo : t[k] = text[lo + k]

LEMMA CharsArePart ==
    ASSUME text \in Seq(Characters), NEW lo \in Nat, NEW hi \in lo..Len(text)
    PROVE  Part(Chars(Run(lo, hi)), lo, hi)
<1>. DEFINE part == Run(lo, hi)
            c(k) == text[part[k]]
            t == Chars(part)
<1>1. part \in Seq(1..Len(text)) /\ Len(part) = hi - lo /\ \A k \in 1..hi - lo : part[k] = lo + k
  BY RunTypes, LenProperties
<1>2. DOMAIN part = 1..hi - lo /\ hi - lo \in Nat
  BY <1>1, LenProperties
<1>3. \A k \in 1..hi - lo : c(k) \in Characters /\ c(k) = text[lo + k]
  <2>1. \A k \in 1..hi - lo : part[k] \in 1..Len(text)
    <3>. HIDE DEF part
    <3>. QED
      BY <1>1, ElementOfSeq
  <2>2. \A k \in 1..hi - lo : c(k) = text[lo + k]
    BY <1>1
  <2>. HIDE DEF part
  <2>. QED
    BY <2>1, <2>2, ElementOfSeq
<1>4. t = [k \in 1..hi - lo |-> c(k)]
  BY <1>2 DEF Chars
<1>. HIDE DEF c, t
<1>5. t \in Seq(Characters) /\ DOMAIN t = 1..hi - lo
  BY <1>2, <1>3, <1>4, IsASeq
<1>6. Len(t) = hi - lo
  BY <1>2, <1>5, LenProperties
<1>7. \A k \in 1..hi - lo : t[k] = text[lo + k]
  BY <1>3, <1>4
<1>. QED
  BY <1>5, <1>6, <1>7 DEF Part, t

Begun == [prefix |-> <<>>, cursor |-> 0]

\* One turn of scan's loop.
Turn(t, part, allow, m, before) ==
    IF should_redact(t, m) /\ (allow \/ m.to < Len(t))
      THEN [prefix |-> before.prefix
                \o Clear(SubSeq(part, before.cursor + 1, m.from - 1)) \o <<Redaction(part, m)>>,
            cursor |-> m.to]
      ELSE before

Turns(t, part, allow, ms, f) ==
    f = [k \in 0..Len(ms) |-> IF k = 0 THEN Begun ELSE Turn(t, part, allow, ms[k], f[k - 1])]

\* Where the loop may stand in a text of length len whose characters are behind lo.
Scanned(n, len) == [prefix : Seq(Pieces(n)), cursor : 0..len]

ClearTyped(n) == \A s \in Seq(1..n) : Clear(s) \in Seq(Pieces(n))

LEMMA Clears == ASSUME NEW n \in Nat PROVE ClearTyped(n)
<1>. SUFFICES ASSUME NEW s \in Seq(1..n) PROVE Clear(s) \in Seq(Pieces(n))
  BY DEF ClearTyped
<1>. DEFINE piece(k) == [from |-> s[k], to |-> s[k], clear |-> TRUE]
<1>1. Len(s) \in Nat /\ DOMAIN s = 1..Len(s) /\ \A k \in 1..Len(s) : s[k] \in 1..n
  BY LenProperties, ElementOfSeq
<1>2. Clear(s) = [k \in 1..Len(s) |-> piece(k)]
  BY <1>1 DEF Clear
<1>3. \A k \in 1..Len(s) : piece(k) \in Pieces(n)
  BY <1>1 DEF Pieces
<1>. HIDE DEF piece
<1>. QED
  BY <1>1, <1>2, <1>3, IsASeq

\* A turn that replaces m.
LEMMA TurnOver ==
    ASSUME NEW n \in Nat, NEW lo \in Nat, NEW hi \in lo..n,
           NEW before \in Scanned(n, hi - lo), NEW m \in MatchesOf(hi - lo), m.from <= m.to
    PROVE  LET new == before.prefix
                   \o Clear(SubSeq(Run(lo, hi), before.cursor + 1, m.from - 1))
                   \o <<Redaction(Run(lo, hi), m)>> IN
           /\ new \in Seq(Pieces(n))
           /\ before.cursor < m.from /\ Covers(before.prefix, lo, lo + before.cursor) =>
                 Covers(new, lo, lo + m.to)
<1>. DEFINE part == Run(lo, hi)
            between == SubSeq(part, before.cursor + 1, m.from - 1)
            gap == Clear(between)
            piece == Redaction(part, m)
            P == Pieces(n)
<1>1. /\ before.prefix \in Seq(P) /\ before.cursor \in 0..hi - lo
      /\ m.from \in 1..hi - lo /\ m.to \in 1..hi - lo
  BY DEF Scanned, MatchesOf
<1>2. part \in Seq(1..n) /\ Len(part) = hi - lo /\ \A k \in 1..hi - lo : part[k] = lo + k
  BY RunTypes
<1>3. gap \in Seq(P)
  <2>1. \A k \in before.cursor + 1..m.from - 1 : part[k] \in 1..n
    <3>. HIDE DEF part
    <3>1. ASSUME NEW k \in before.cursor + 1..m.from - 1 PROVE k \in 1..Len(part)
      <4>1. hi - lo \in Nat /\ Len(part) = hi - lo
        BY <1>2
      <4>2. before.cursor \in Nat /\ m.from \in Nat /\ m.from <= hi - lo
        BY <1>1, <4>1
      <4>. QED
        BY <4>1, <4>2
    <3>. QED
      BY <1>2, <3>1, ElementOfSeq
  <2>2. before.cursor + 1 \in Int /\ m.from - 1 \in Int
    BY <1>1
  <2>3. between \in Seq(1..n)
    <3>. HIDE DEF part
    <3>. QED
      BY <2>1, <2>2, SubSeqProperties
  <2>. HIDE DEF between
  <2>. QED
    BY <2>3, Clears DEF ClearTyped
<1>4. piece = [from |-> lo + m.from, to |-> lo + m.to, clear |-> FALSE] /\ piece \in P
  <2>1. part[m.from] = lo + m.from /\ part[m.to] = lo + m.to
    BY <1>1, <1>2
  <2>2. piece = [from |-> lo + m.from, to |-> lo + m.to, clear |-> FALSE]
    BY <2>1 DEF Redaction
  <2>3. lo + m.from \in 1..n /\ lo + m.to \in 1..n
    BY <1>1
  <2>. HIDE DEF piece
  <2>. QED
    BY <2>2, <2>3 DEF Pieces
<1>5. <<piece>> \in Seq(P) /\ Len(<<piece>>) = 1 /\ <<piece>>[1] = piece /\ <<piece>> # <<>>
  <2>. HIDE DEF piece, P
  <2>. QED
    BY <1>4
<1>6. before.prefix \o gap \in Seq(P) /\ before.prefix \o gap \o <<piece>> \in Seq(P)
  <2>. HIDE DEF gap, piece, P
  <2>. QED
    BY <1>1, <1>3, <1>5, ConcatProperties
<1>7. ASSUME before.cursor < m.from, Covers(before.prefix, lo, lo + before.cursor)
      PROVE  Covers(before.prefix \o gap \o <<piece>>, lo, lo + m.to)
  <2>. DEFINE a == lo + before.cursor
              b == lo + (m.from - 1)
  <2>1. /\ a \in Nat /\ b \in a..n /\ b \in Nat /\ lo + m.to \in Nat
        /\ before.cursor \in 0..hi - lo /\ m.from - 1 \in before.cursor..hi - lo
    <3>1. /\ hi - lo \in Nat /\ lo \in Nat /\ hi \in Nat /\ hi <= n /\ before.cursor \in Nat
          /\ m.from \in Nat /\ m.to \in Nat /\ m.from <= hi - lo /\ before.cursor < m.from
          /\ before.cursor <= hi - lo
      BY <1>1, <1>7
    <3>2. \A c, f, g \in Nat : c < f /\ f <= hi - lo /\ c <= hi - lo =>
             /\ lo + c \in Nat /\ lo + (f - 1) \in lo + c..n /\ lo + (f - 1) \in Nat
             /\ lo + g \in Nat /\ c \in 0..hi - lo /\ f - 1 \in c..hi - lo
      BY <3>1
    <3>. QED
      BY <3>1, <3>2, Zenon
  <2>2. between = Run(a, b)
    <3>1. /\ before.cursor + 1 \in 1..(hi - lo) + 1 /\ (before.cursor + 1) - 1 = before.cursor
          /\ m.from - 1 \in (before.cursor + 1) - 1..hi - lo
      BY <2>1
    <3>. QED
      BY <3>1, RunParts
  <2>3. Covers(gap, a, b)
    <3>. HIDE DEF between, a, b
    <3>. QED
      BY <2>1, <2>2, ClearCovers
  <2>4. Covers(before.prefix \o gap, lo, b)
    <3>. HIDE DEF gap, b
    <3>1. Covers(before.prefix, lo, a)
      BY <1>7
    <3>. HIDE DEF a, P
    <3>. QED
      BY <1>1, <1>3, <2>1, <2>3, <3>1, CoversConcat DEF P
  <2>5. Covers(<<piece>>, b, lo + m.to)
    <3>1. piece.from <= piece.to /\ piece.from = b + 1 /\ piece.to = lo + m.to
      BY <1>1, <1>4
    <3>. HIDE DEF piece, b
    <3>. QED
      BY <1>5, <3>1 DEF Covers
  <2>. DEFINE front == before.prefix \o gap
              tail == <<piece>>
              c == lo + m.to
  <2>6. front \in Seq(P) /\ tail \in Seq(P) /\ Covers(front, lo, b) /\ Covers(tail, b, c)
        /\ c \in Nat
    BY <1>5, <1>6, <2>1, <2>4, <2>5
  <2>. HIDE DEF front, tail, b, c
  <2>7. Covers(front \o tail, lo, c)
    BY <2>1, <2>6, CoversConcat
  <2>. QED
    BY <2>7 DEF front, tail, c
<1>. QED
  BY <1>6, <1>7

\* What is replaced after k turns covers what is before the cursor, and the cursor is
\* behind none of the matches to come.
Halfway(ms, lo, k, at) ==
    /\ Covers(at.prefix, lo, lo + at.cursor)
    /\ k < Len(ms) => at.cursor < ms[k + 1].from

LEMMA TurnTyped ==
    ASSUME NEW n \in Nat, NEW lo \in Nat, NEW hi \in lo..n, NEW t, NEW allow,
           NEW ms \in Seq(MatchesOf(hi - lo)), Apart(ms, hi - lo), NEW k \in 1..Len(ms),
           NEW before \in Scanned(n, hi - lo)
    PROVE  /\ Turn(t, Run(lo, hi), allow, ms[k], before) \in Scanned(n, hi - lo)
           /\ Halfway(ms, lo, k - 1, before) =>
                 Halfway(ms, lo, k, Turn(t, Run(lo, hi), allow, ms[k], before))
<1>. DEFINE m == ms[k]
            part == Run(lo, hi)
            after == Turn(t, part, allow, m, before)
            new == before.prefix \o Clear(SubSeq(part, before.cursor + 1, m.from - 1))
                       \o <<Redaction(part, m)>>
<1>1. m \in MatchesOf(hi - lo) /\ m.from <= m.to /\ Len(ms) \in Nat
  BY ElementOfSeq, LenProperties DEF Apart
<1>2. m.from \in 1..hi - lo /\ m.to \in 1..hi - lo
  BY <1>1 DEF MatchesOf
<1>3. /\ new \in Seq(Pieces(n))
      /\ before.cursor < m.from /\ Covers(before.prefix, lo, lo + before.cursor) =>
            Covers(new, lo, lo + m.to)
  <2>. HIDE DEF m
  <2>. QED
    BY <1>1, TurnOver
<1>4. after = before \/ after = [prefix |-> new, cursor |-> m.to]
  BY DEF Turn
<1>5. before.cursor \in 0..hi - lo /\ before.prefix \in Seq(Pieces(n))
  BY DEF Scanned
<1>6. after \in Scanned(n, hi - lo)
  <2>. HIDE DEF new, after, m
  <2>. QED
    BY <1>2, <1>3, <1>4 DEF Scanned
<1>7. k < Len(ms) => ms[k].to < ms[k + 1].from /\ ms[k + 1].from \in Nat
  <2>. SUFFICES ASSUME k < Len(ms) PROVE ms[k].to < ms[k + 1].from /\ ms[k + 1].from \in Nat
    OBVIOUS
  <2>1. k + 1 \in 2..Len(ms) /\ k + 1 \in 1..Len(ms) /\ (k + 1) - 1 = k
    BY <1>1
  <2>2. ms[k + 1] \in MatchesOf(hi - lo)
    BY <2>1, ElementOfSeq
  <2>3. ms[(k + 1) - 1].to < ms[k + 1].from
    BY <2>1 DEF Apart
  <2>4. ms[k].to < ms[k + 1].from
    BY <2>1, <2>3
  <2>5. ms[k + 1].from \in Nat
    BY <2>2 DEF MatchesOf
  <2>. QED
    BY <2>4, <2>5
<1>8. ASSUME Halfway(ms, lo, k - 1, before) PROVE Halfway(ms, lo, k, after)
  <2>1. Covers(before.prefix, lo, lo + before.cursor) /\ before.cursor < m.from
    <3>1. k - 1 < Len(ms) /\ (k - 1) + 1 = k
      BY <1>1
    <3>. QED
      BY <1>8, <3>1 DEF Halfway
  <2>2. CASE after = before
    <3>1. ASSUME k < Len(ms) PROVE before.cursor < ms[k + 1].from
      <4>1. ms[k].to < ms[k + 1].from /\ ms[k + 1].from \in Nat
        BY <1>7, <3>1
      <4>2. ms[k].from <= ms[k].to /\ ms[k].from \in Nat /\ ms[k].to \in Nat /\ before.cursor < ms[k].from
        BY <1>1, <1>2, <2>1
      <4>3. before.cursor \in Nat
        BY <1>5
      <4>. QED
        BY <4>1, <4>2, <4>3
    <3>. HIDE DEF after
    <3>. QED
      BY <2>1, <2>2, <3>1 DEF Halfway
  <2>3. CASE after = [prefix |-> new, cursor |-> m.to]
    <3>1. after.prefix = new /\ after.cursor = m.to
      <4>. HIDE DEF after, new
      <4>. QED
        BY <2>3
    <3>2. Covers(new, lo, lo + m.to)
      BY <1>3, <2>1
    <3>. HIDE DEF after, new
    <3>. QED
      BY <1>7, <3>1, <3>2 DEF Halfway
  <2>. QED
    BY <1>4, <2>2, <2>3
<1>. QED
  BY <1>6, <1>8

\* What scan returns of the characters behind lo up to hi.
Splits(s, n, lo, hi) ==
    \E mid \in lo..hi :
       /\ s.prefix \in Seq(Pieces(n)) /\ Covers(s.prefix, lo, mid)
       /\ s.rest = Run(mid, hi)

\* The turns of scan's loop over these characters.
Unrolls(n, lo, hi, allow, g) ==
    LET part == Run(lo, hi)
        t == Chars(part)
        ms == Matches(t)
    IN
    /\ g[0] = Begun /\ \A k \in 1..Len(ms) : g[k] = Turn(t, part, allow, ms[k], g[k - 1])
    /\ \A k \in 0..Len(ms) : g[k] \in Scanned(n, hi - lo) /\ Halfway(ms, lo, k, g[k])
    /\ scan(part, allow).prefix = g[Len(ms)].prefix
    /\ scan(part, allow).rest = Run(lo + g[Len(ms)].cursor, hi)

LEMMA ScanUnrolls ==
    ASSUME NEW n \in Nat, n = Len(text), text \in Seq(Characters),
           NEW lo \in Nat, NEW hi \in lo..n, NEW allow
    PROVE  \E g : Unrolls(n, lo, hi, allow, g)
<1>. DEFINE part == Run(lo, hi)
            t == Chars(part)
            ms == Matches(t)
            V == Scanned(n, hi - lo)
            step == [kb \in (1..Len(ms)) \X V |-> Turn(t, part, allow, ms[kb[1]], kb[2])]
<1>1. part \in Seq(1..n) /\ Len(part) = hi - lo /\ \A k \in 1..hi - lo : part[k] = lo + k
  BY RunTypes
<1>2. t \in Seq(Characters) /\ Len(t) = hi - lo
  BY CharsArePart DEF Part
<1>. HIDE DEF t
<1>3. ms \in Seq(MatchesOf(hi - lo)) /\ Apart(ms, hi - lo)
  BY <1>2, MatchesApart
<1>. HIDE DEF ms
<1>4. Len(ms) \in Nat /\ hi - lo \in Nat
  BY <1>3, LenProperties
<1>5. Begun \in V /\ Halfway(ms, lo, 0, Begun)
  <2>1. Begun.prefix = <<>> /\ Begun.cursor = 0 /\ <<>> \in Seq(Pieces(n)) /\ Len(<<>>) = 0
    BY EmptySeq DEF Begun
  <2>2. Begun \in V
    BY <1>4, <2>1 DEF Scanned, Begun
  <2>3. Covers(<<>>, lo, lo + 0)
    BY <2>1 DEF Covers
  <2>4. 0 < Len(ms) => 0 < ms[0 + 1].from
    <3>. SUFFICES ASSUME 0 < Len(ms) PROVE 0 < ms[1].from
      OBVIOUS
    <3>1. 1 \in 1..Len(ms)
      BY <1>4
    <3>2. ms[1] \in MatchesOf(hi - lo)
      BY <1>3, <3>1, ElementOfSeq
    <3>. QED
      BY <3>2 DEF MatchesOf
  <2>. QED
    BY <2>1, <2>2, <2>3, <2>4 DEF Halfway
<1>6. \A k \in 1..Len(ms) : \A b \in V :
         /\ Turn(t, part, allow, ms[k], b) \in V
         /\ Halfway(ms, lo, k - 1, b) => Halfway(ms, lo, k, Turn(t, part, allow, ms[k], b))
  BY <1>3, TurnTyped
<1>. HIDE DEF V
<1>7. \A k \in 1..Len(ms) : \A b \in V : step[<<k, b>>] = Turn(t, part, allow, ms[k], b)
  <2>. HIDE DEF part
  <2>. QED
    OBVIOUS
<1>. HIDE DEF part
<1>8. StepsIn(Len(ms), V, step)
  <2>. HIDE DEF step
  <2>. QED
    BY <1>6, <1>7 DEF StepsIn
<1>. HIDE DEF step
<1>9. PICK f \in [0..Len(ms) -> V] : Follows(Len(ms), Begun, step, f)
  BY <1>4, <1>5, <1>8, Recursion
<1>10. ASSUME NEW k \in 0..Len(ms)
       PROVE  f[k] = (IF k = 0 THEN Begun ELSE Turn(t, part, allow, ms[k], f[k - 1]))
  <2>1. CASE k = 0
    BY <1>9, <2>1 DEF Follows
  <2>2. CASE k # 0
    <3>1. k \in 1..Len(ms) /\ k - 1 \in 0..Len(ms)
      BY <1>4, <2>2
    <3>2. f[k - 1] \in V
      BY <1>9, <3>1
    <3>. QED
      BY <1>7, <1>9, <2>2, <3>1, <3>2 DEF Follows
  <2>. QED
    BY <2>1, <2>2
<1>11. Turns(t, part, allow, ms, f)
  BY <1>9, <1>10 DEF Turns
<1>. DEFINE g == CHOOSE h : Turns(t, part, allow, ms, h)
            last == g[Len(ms)]
<1>12. Turns(t, part, allow, ms, g)
  BY <1>11
<1>13. scan(part, allow) = [prefix |-> last.prefix,
                            rest |-> SubSeq(part, last.cursor + 1, Len(part))]
  BY DEF scan, Turns, Turn, Begun, t, ms
<1>. HIDE DEF g
<1>. DEFINE Good == {k \in 0..Len(ms) : g[k] \in V /\ Halfway(ms, lo, k, g[k])}
<1>14. g[0] = Begun /\ \A k \in 1..Len(ms) : g[k] = Turn(t, part, allow, ms[k], g[k - 1])
  <2>1. 0 \in 0..Len(ms) /\ \A k \in 1..Len(ms) : k \in 0..Len(ms) /\ k # 0
    BY <1>4
  <2>. QED
    BY <1>12, <2>1 DEF Turns
<1>15. 0 \in Good
  <2>1. 0 \in 0..Len(ms)
    BY <1>4
  <2>. QED
    BY <1>5, <1>14, <2>1
<1>16. ASSUME NEW k \in 1..Len(ms), k - 1 \in Good PROVE k \in Good
  <2>1. g[k - 1] \in V /\ Halfway(ms, lo, k - 1, g[k - 1]) /\ k \in 0..Len(ms)
    BY <1>16
  <2>2. g[k] = Turn(t, part, allow, ms[k], g[k - 1])
    BY <1>14
  <2>3. g[k] \in V /\ Halfway(ms, lo, k, g[k])
    BY <1>6, <2>1, <2>2
  <2>. QED
    BY <2>1, <2>3
<1>17. /\ \A k \in 0..Len(ms) : g[k] \in V /\ Halfway(ms, lo, k, g[k])
       /\ last \in V
  <2>1. Len(ms) \in 0..Len(ms)
    BY <1>4
  <2>2. \A k \in 0..Len(ms) : k \in Good
    <3>. HIDE DEF Good
    <3>. QED
      BY <1>4, <1>15, <1>16, UpTo
  <2>. QED
    BY <2>1, <2>2
<1>18. last.cursor \in 0..hi - lo
  <2>. HIDE DEF last
  <2>. QED
    BY <1>17 DEF V, Scanned
<1>19. SubSeq(part, last.cursor + 1, Len(part)) = Run(lo + last.cursor, hi)
  <2>. HIDE DEF last
  <2>1. /\ last.cursor + 1 \in 1..(hi - lo) + 1 /\ (last.cursor + 1) - 1 = last.cursor
        /\ hi - lo \in (last.cursor + 1) - 1..hi - lo /\ lo + (hi - lo) = hi
    BY <1>18
  <2>. DEFINE first == last.cursor + 1
  <2>2. first \in 1..(hi - lo) + 1 /\ hi - lo \in first - 1..hi - lo /\ first - 1 = last.cursor
    BY <2>1
  <2>. HIDE DEF first
  <2>3. SubSeq(Run(lo, hi), first, hi - lo) = Run(lo + (first - 1), lo + (hi - lo))
    BY <2>2, RunParts
  <2>. QED
    BY <1>1, <2>1, <2>2, <2>3 DEF part, first
<1>20. scan(part, allow).prefix = last.prefix /\ scan(part, allow).rest = Run(lo + last.cursor, hi)
  BY <1>13, <1>19
<1>. QED
  BY <1>14, <1>17, <1>20 DEF part, t, ms, V, Unrolls

LEMMA ScanCovers ==
    ASSUME NEW n \in Nat, n = Len(text), text \in Seq(Characters),
           NEW lo \in Nat, NEW hi \in lo..n, NEW allow
    PROVE  Splits(scan(Run(lo, hi), allow), n, lo, hi)
<1>. DEFINE ms == Matches(Chars(Run(lo, hi)))
<1>1. PICK g : Unrolls(n, lo, hi, allow, g)
  BY ScanUnrolls
<1>2. Len(ms) \in 0..Len(ms)
  <2>1. Chars(Run(lo, hi)) \in Seq(Characters)
    BY CharsArePart DEF Part
  <2>2. Len(ms) \in Nat
    <3>. HIDE DEF ms
    <3>. QED
      BY <2>1, MatchesApart, LenProperties DEF ms
  <2>. HIDE DEF ms
  <2>. QED
    BY <2>2
<1>. DEFINE last == g[Len(ms)]
            s == scan(Run(lo, hi), allow)
<1>3. /\ last \in Scanned(n, hi - lo) /\ Covers(last.prefix, lo, lo + last.cursor)
      /\ s.prefix = last.prefix /\ s.rest = Run(lo + last.cursor, hi)
  BY <1>1, <1>2 DEF Unrolls, Halfway
<1>. HIDE DEF last, s
<1>4. lo + last.cursor \in lo..hi /\ last.prefix \in Seq(Pieces(n))
  BY <1>3 DEF Scanned
<1>. QED
  BY <1>3, <1>4 DEF s, Splits

LEMMA ScanThenClear ==
    ASSUME NEW n \in Nat, n = Len(text), text \in Seq(Characters),
           NEW lo \in Nat, NEW hi \in lo..n, NEW allow
    PROVE  LET whole == scan(Run(lo, hi), allow).prefix \o Clear(scan(Run(lo, hi), allow).rest)
           IN  whole \in Seq(Pieces(n)) /\ Covers(whole, lo, hi)
<1>. DEFINE s == scan(Run(lo, hi), allow)
<1>1. PICK mid \in lo..hi : /\ s.prefix \in Seq(Pieces(n)) /\ Covers(s.prefix, lo, mid)
                            /\ s.rest = Run(mid, hi)
  BY ScanCovers DEF Splits
<1>2. s.prefix \o Clear(s.rest) = s.prefix \o Clear(Run(mid, hi))
  BY <1>1
<1>. HIDE DEF s
<1>3. mid \in Nat /\ hi \in Nat /\ hi \in mid..n
  OBVIOUS
<1>4. Clear(Run(mid, hi)) \in Seq(Pieces(n)) /\ Covers(Clear(Run(mid, hi)), mid, hi)
  BY <1>3, ClearCovers
<1>. DEFINE front == s.prefix
            tail == Clear(Run(mid, hi))
<1>5. front \in Seq(Pieces(n)) /\ tail \in Seq(Pieces(n)) /\ Covers(front, lo, mid)
      /\ Covers(tail, mid, hi)
  BY <1>1, <1>4
<1>. HIDE DEF front, tail
<1>6. front \o tail \in Seq(Pieces(n)) /\ Covers(front \o tail, lo, hi)
  BY <1>3, <1>5, CoversConcat
<1>7. s.prefix \o Clear(s.rest) \in Seq(Pieces(n)) /\ Covers(s.prefix \o Clear(s.rest), lo, hi)
  BY <1>2, <1>6 DEF front, tail
<1>. QED
  BY <1>7, Zenon DEF s

LEMMA RedactCovers ==
    ASSUME NEW n \in Nat, n = Len(text), text \in Seq(Characters),
           NEW lo \in Nat, NEW hi \in lo..n
    PROVE  redact(Run(lo, hi)) \in Seq(Pieces(n)) /\ Covers(redact(Run(lo, hi)), lo, hi)
<1>1. \A allow :
        /\ scan(Run(lo, hi), allow).prefix \o Clear(scan(Run(lo, hi), allow).rest) \in Seq(Pieces(n))
        /\ Covers(scan(Run(lo, hi), allow).prefix \o Clear(scan(Run(lo, hi), allow).rest), lo, hi)
  BY ScanThenClear
<1>. QED
  BY <1>1, Zenon DEF redact

-----------------------------------------------------------------------------
(* The stream.                                                             *)

LEMMA MaxOfTwo ==
    ASSUME NEW a \in Int, NEW b \in Int
    PROVE  Max({a, b}) \in {a, b} /\ a <= Max({a, b}) /\ b <= Max({a, b})
<1>1. \E x \in {a, b} : \A y \in {a, b} : x >= y
  OBVIOUS
<1>2. Max({a, b}) \in {a, b} /\ \A y \in {a, b} : Max({a, b}) >= y
  BY <1>1 DEF Max
<1>. QED
  BY <1>2

LEMMA PartialStart ==
    ASSUME NEW t, Len(t) \in Nat, NEW lookback \in Nat
    PROVE  partial_match_start(t, lookback) \in 1..Len(t) + 1
<1>. DEFINE first == Max({1, Len(t) - lookback + 1})
            S == {i \in first..Len(t) : Partial(t, i)} \cup {Len(t) + 1}
<1>1. first \in Int /\ 1 <= first
  BY MaxOfTwo
<1>. HIDE DEF first
<1>2. S \in SUBSET (1..Len(t) + 1) /\ S # {}
  BY <1>1
<1>3. partial_match_start(t, lookback) = Min(S)
  BY DEF partial_match_start, first
<1>. HIDE DEF S
<1>4. S \in SUBSET Nat /\ S # {}
  BY <1>2
<1>5. Min(S) \in S
  BY <1>4, Lowest
<1>. QED
  BY <1>2, <1>3, <1>5

\* What was sent covers the text up to at, and what is held the rest of what arrived.
Kept(at) ==
    /\ Covers(out, 0, at)
    /\ phase # "dropped" => buffer = Run(at, fed)
    /\ phase = "flushed" => at = Len(text)

RedactorInv ==
    /\ TypeOK
    /\ \E at \in 0..fed : Kept(at)

LEMMA Texted ==
    ASSUME TypeOK
    PROVE  /\ text \in Seq(Characters) /\ Len(text) \in Nat /\ fed \in 0..Len(text)
           /\ out \in Seq(Pieces(Len(text)))
<1>1. text \in Texts
  BY DEF TypeOK
<1>2. text \in Seq(Characters)
  BY <1>1, SRAssumption, Zenon DEF Characters
<1>3. fed \in 0..Len(text) /\ out \in Seq(Pieces(Len(text)))
  BY DEF TypeOK, Position, Pieces
<1>. QED
  BY <1>2, <1>3, LenProperties

LEMMA WindowNat == Window \in Nat /\ MaxChunk \in Nat
<1>1. Window \in Nat
  BY SRAssumption, Zenon
<1>2. MaxChunk \in Nat \ {0}
  BY SRAssumption, Zenon
<1>. QED
  BY <1>1, <1>2

LEMMA InitKeeps == Init => RedactorInv
<1>. SUFFICES ASSUME Init PROVE RedactorInv
  OBVIOUS
<1>1. text \in Texts /\ fed = 0 /\ buffer = <<>> /\ out = <<>> /\ phase = "open"
  BY DEF Init
<1>2. text \in Seq(Characters)
  BY <1>1, SRAssumption, Zenon DEF Characters
<1>3. Len(text) \in Nat /\ 0 \in 0..Len(text) /\ 0 \in 0..0
  BY <1>2, LenProperties
<1>4. Len(<<>>) = 0 /\ <<>> \in Seq(Position)
      /\ <<>> \in Seq([from : Position, to : Position, clear : BOOLEAN])
  BY EmptySeq
<1>5. TypeOK
  BY <1>1, <1>3, <1>4, WindowNat DEF TypeOK
<1>6. Covers(<<>>, 0, 0)
  BY <1>4 DEF Covers
<1>7. Run(0, 0) = <<>>
  <2>1. Run(0, 0) \in Seq(1..0) /\ Len(Run(0, 0)) = 0 - 0
    BY RunTypes
  <2>. QED
    BY <2>1, EmptySeq
<1>. QED
  BY <1>1, <1>3, <1>5, <1>6, <1>7 DEF RedactorInv, Kept

\* What process sends of the characters behind at up to upto: the pieces of scan up to
\* mid, what cannot grow up to cut, and what the window has no room for up to now.
Sends(at, mid, cut, now, upto, one, two, three) ==
    /\ mid \in at..upto /\ cut \in mid..upto /\ now \in cut..upto
    /\ {one, two, three} \subseteq Seq(Pieces(Len(text)))
    /\ Covers(one, at, mid) /\ Covers(two, mid, cut) /\ Covers(three, cut, now)
    /\ one = scan(Run(at, upto), FALSE).prefix /\ Run(mid, upto) = scan(Run(at, upto), FALSE).rest
    /\ cut = mid + (partial_match_start(Chars(Run(mid, upto)), Window) - 1)
    /\ upto - cut <= Window => now = cut
    /\ out' = out \o one \o two \o three

LEMMA ProcessSplits ==
    ASSUME TypeOK, NEW n \in 1..MaxChunk, process(n), NEW at \in 0..fed, Kept(at)
    PROVE  \E mid, cut, now, one, two, three :
              /\ Sends(at, mid, cut, now, fed + n, one, two, three)
              /\ TypeOK' /\ Kept(now)' /\ now \in 0..fed'
<1>. DEFINE L == Len(text)
            P == Pieces(L)
            upto == fed + n
            grown == buffer \o [k \in 1..n |-> fed + k]
            s == scan(grown, FALSE)
            from == partial_match_start(Chars(s.rest), Window)
            carry == SubSeq(s.rest, from, Len(s.rest))
            overflow == Max({0, Len(carry) - Window})
            one == s.prefix
            two == Clear(SubSeq(s.rest, 1, from - 1))
            three == redact(SubSeq(carry, 1, overflow))
<1>1. /\ text \in Seq(Characters) /\ L \in Nat /\ fed \in 0..L /\ out \in Seq(P)
      /\ n \in Nat /\ upto \in 0..L /\ upto \in Nat /\ fed <= upto
  <2>1. text \in Seq(Characters) /\ L \in Nat /\ fed \in 0..L /\ out \in Seq(P)
    BY Texted
  <2>2. fed + n <= L
    BY DEF process
  <2>. HIDE DEF L
  <2>. QED
    BY <2>1, <2>2, WindowNat
<1>2. Covers(out, 0, at) /\ buffer = Run(at, fed)
  BY DEF Kept, process
<1>3. at \in Nat /\ fed \in Nat /\ fed \in at..L /\ upto \in fed..L /\ upto \in at..L /\ upto - fed = n
  <2>. HIDE DEF L
  <2>. QED
    BY <1>1
<1>4. grown = Run(at, upto)
  <2>1. Run(at, fed) \o [k \in 1..upto - fed |-> fed + k] = Run(at, upto)
    <3>. HIDE DEF L, upto
    <3>. QED
      BY <1>1, <1>3, RunsJoin
  <2>. QED
    BY <1>2, <1>3, <2>1
<1>5. /\ out' = out \o one \o two \o three
      /\ buffer' = SubSeq(carry, overflow + 1, Len(carry))
      /\ fed' = upto /\ phase' = "open" /\ phase = "open" /\ text' = text
  BY DEF process
<1>6. PICK mid \in at..upto :
         one \in Seq(P) /\ Covers(one, at, mid) /\ s.rest = Run(mid, upto)
  <2>1. s = scan(Run(at, upto), FALSE)
    BY <1>4
  <2>2. L = Len(text)
    OBVIOUS
  <2>. HIDE DEF grown, s, upto, L
  <2>3. Splits(scan(Run(at, upto), FALSE), L, at, upto)
    BY <1>1, <1>3, <2>2, ScanCovers
  <2>. QED
    BY <2>1, <2>3 DEF Splits
<1>7. mid \in Nat /\ upto \in mid..L /\ Len(s.rest) = upto - mid /\ mid \in 0..L
  <2>1. mid \in Nat /\ upto \in mid..L /\ mid \in 0..L
    <3>. HIDE DEF upto, L
    <3>. QED
      BY <1>1, <1>3
  <2>. HIDE DEF s, upto, L
  <2>. QED
    BY <1>1, <1>6, <2>1, RunTypes
<1>. HIDE DEF grown, s, upto, L
<1>8. from \in 1..(upto - mid) + 1
  <2>1. Len(Chars(s.rest)) = upto - mid
    <3>. DEFINE c(k) == text[s.rest[k]]
    <3>1. /\ upto - mid \in Nat /\ s.rest \in Seq(1..L)
          /\ \A k \in 1..upto - mid : s.rest[k] \in 1..L
      <4>1. Run(mid, upto) \in Seq(1..L) /\ Len(Run(mid, upto)) = upto - mid
        BY <1>1, <1>7, RunTypes
      <4>2. s.rest \in Seq(1..L) /\ Len(s.rest) = upto - mid
        BY <1>6, <4>1
      <4>3. \A k \in 1..Len(s.rest) : s.rest[k] \in 1..L
        BY <4>2, ElementOfSeq
      <4>. QED
        BY <1>7, <4>2, <4>3
    <3>2. \A k \in 1..upto - mid : c(k) \in Characters
      BY <1>1, <3>1, ElementOfSeq DEF L
    <3>3. Chars(s.rest) = [k \in 1..upto - mid |-> c(k)]
      <4>1. DOMAIN s.rest = 1..upto - mid
        BY <1>7, <3>1, LenProperties
      <4>. QED
        BY <4>1 DEF Chars
    <3>. HIDE DEF c
    <3>4. Chars(s.rest) \in Seq(Characters) /\ DOMAIN Chars(s.rest) = 1..upto - mid
      BY <3>1, <3>2, <3>3, IsASeq
    <3>. QED
      BY <3>1, <3>4, LenProperties
  <2>2. upto - mid \in Nat
    BY <1>7
  <2>. QED
    BY <2>1, <2>2, WindowNat, PartialStart
<1>. HIDE DEF from
<1>9. PICK cut \in mid..upto : cut = mid + (from - 1)
  BY <1>7, <1>8
<1>10. /\ cut \in Nat /\ upto \in cut..L /\ cut \in mid..L /\ upto - cut \in Nat
       /\ 1 \in 1..(upto - mid) + 1 /\ from - 1 \in 1 - 1..upto - mid /\ mid + (1 - 1) = mid
       /\ upto - mid \in from - 1..upto - mid /\ mid + (upto - mid) = upto
  BY <1>1, <1>7, <1>8, <1>9
<1>11. carry = Run(cut, upto) /\ Len(carry) = upto - cut
  <2>1. SubSeq(Run(mid, upto), from, upto - mid) = Run(mid + (from - 1), mid + (upto - mid))
    <3>1. /\ L \in Nat /\ mid \in Nat /\ upto \in mid..L
          /\ from \in 1..(upto - mid) + 1 /\ upto - mid \in from - 1..upto - mid
      BY <1>1, <1>7, <1>8, <1>10
    <3>. QED
      BY <3>1, RunParts
  <2>2. carry = Run(cut, upto)
    BY <1>6, <1>7, <1>9, <1>10, <2>1
  <2>. HIDE DEF carry
  <2>. QED
    BY <1>1, <1>10, <2>2, RunTypes
<1>12. two \in Seq(P) /\ Covers(two, mid, cut)
  <2>1. SubSeq(Run(mid, upto), 1, from - 1) = Run(mid + (1 - 1), mid + (from - 1))
    <3>1. /\ L \in Nat /\ mid \in Nat /\ upto \in mid..L
          /\ 1 \in 1..(upto - mid) + 1 /\ from - 1 \in 1 - 1..upto - mid
      BY <1>1, <1>7, <1>10
    <3>. QED
      BY <3>1, RunParts
  <2>2. two = Clear(Run(mid, cut))
    BY <1>6, <1>9, <1>10, <2>1
  <2>. HIDE DEF two
  <2>. QED
    <3>1. L \in Nat /\ mid \in Nat /\ cut \in mid..L
      BY <1>1, <1>7, <1>10
    <3>. QED
      BY <2>2, <3>1, ClearCovers
<1>. HIDE DEF carry
<1>13. overflow \in 0..upto - cut /\ upto - cut - overflow <= Window
  <2>1. 0 \in Int /\ Len(carry) - Window \in Int
    BY <1>10, <1>11, WindowNat
  <2>2. /\ overflow \in {0, Len(carry) - Window} /\ 0 <= overflow
        /\ Len(carry) - Window <= overflow
    BY <2>1, MaxOfTwo
  <2>. HIDE DEF overflow
  <2>. QED
    BY <1>10, <1>11, <2>2, WindowNat
<1>. HIDE DEF overflow
<1>14. PICK now \in cut..upto : now = cut + overflow
  BY <1>10, <1>13
<1>15. /\ now \in Nat /\ now \in cut..L /\ upto \in now..L /\ upto - now <= Window
       /\ 1 \in 1..(upto - cut) + 1 /\ overflow \in 1 - 1..upto - cut /\ cut + (1 - 1) = cut
       /\ overflow + 1 \in 1..(upto - cut) + 1 /\ (overflow + 1) - 1 = overflow
       /\ upto - cut \in (overflow + 1) - 1..upto - cut
       /\ cut + (upto - cut) = upto /\ now \in 0..upto
  BY <1>1, <1>10, <1>13, <1>14
<1>16. three \in Seq(P) /\ Covers(three, cut, now)
  <2>1. SubSeq(Run(cut, upto), 1, overflow) = Run(cut + (1 - 1), cut + overflow)
    <3>1. /\ L \in Nat /\ cut \in Nat /\ upto \in cut..L
          /\ 1 \in 1..(upto - cut) + 1 /\ overflow \in 1 - 1..upto - cut
      BY <1>1, <1>10, <1>15
    <3>. QED
      BY <3>1, RunParts
  <2>2. three = redact(Run(cut, now))
    BY <1>11, <1>14, <1>15, <2>1
  <2>. HIDE DEF three
  <2>. QED
    BY <1>1, <1>10, <1>15, <2>2, RedactCovers DEF L
<1>17. buffer' = Run(now, upto)
  <2>1. SubSeq(Run(cut, upto), overflow + 1, upto - cut)
           = Run(cut + ((overflow + 1) - 1), cut + (upto - cut))
    <3>1. /\ L \in Nat /\ cut \in Nat /\ upto \in cut..L
          /\ overflow + 1 \in 1..(upto - cut) + 1
          /\ upto - cut \in (overflow + 1) - 1..upto - cut
      BY <1>1, <1>10, <1>15
    <3>. DEFINE first == overflow + 1
    <3>2. first \in 1..(upto - cut) + 1 /\ upto - cut \in first - 1..upto - cut
      BY <3>1
    <3>. HIDE DEF first
    <3>3. SubSeq(Run(cut, upto), first, upto - cut) = Run(cut + (first - 1), cut + (upto - cut))
      BY <3>1, <3>2, RunParts
    <3>. QED
      BY <3>3, Zenon DEF first
  <2>2. cut + ((overflow + 1) - 1) = now /\ cut + (upto - cut) = upto
    BY <1>14, <1>15
  <2>3. SubSeq(Run(cut, upto), overflow + 1, upto - cut) = Run(now, upto)
    BY <2>1, <2>2, Zenon
  <2>. QED
    BY <1>5, <1>11, <2>3, Zenon
<1>. HIDE DEF one, two, three
<1>18. out' \in Seq(P) /\ Covers(out', 0, now)
  <2>1. out \o one \in Seq(P) /\ Covers(out \o one, 0, mid)
    BY <1>1, <1>2, <1>3, <1>6, <1>7, CoversConcat
  <2>2. (out \o one) \o two \in Seq(P) /\ Covers((out \o one) \o two, 0, cut)
    BY <1>1, <1>7, <1>10, <1>12, <2>1, CoversConcat
  <2>3. ((out \o one) \o two) \o three \in Seq(P) /\ Covers(((out \o one) \o two) \o three, 0, now)
    BY <1>1, <1>10, <1>15, <1>16, <2>2, CoversConcat
  <2>. QED
    BY <1>5, <2>3
<1>19. buffer' \in Seq(1..L) /\ Len(buffer') <= Window
  BY <1>1, <1>15, <1>17, RunTypes
<1>20. TypeOK'
  <2>1. text' \in Texts /\ L = Len(text')
    BY <1>5 DEF TypeOK, L
  <2>. QED
    BY <1>1, <1>5, <1>18, <1>19, <2>1 DEF TypeOK, Position, Pieces
<1>21. Kept(now)'
  BY <1>5, <1>17, <1>18 DEF Kept
<1>22. now \in 0..fed'
  BY <1>5, <1>15
<1>23. upto - cut <= Window => now = cut
  <2>. SUFFICES ASSUME upto - cut <= Window PROVE now = cut
    OBVIOUS
  <2>1. 0 \in Int /\ Len(carry) - Window \in Int /\ Len(carry) - Window <= 0
    BY <1>10, <1>11, WindowNat
  <2>2. Max({0, Len(carry) - Window}) = 0
    <3>. DEFINE d == Len(carry) - Window
    <3>1. d \in Int /\ d <= 0
      BY <2>1
    <3>. HIDE DEF d
    <3>2. 0 \in Int /\ d \in Int
      BY <3>1
    <3>. HIDE DEF carry
    <3>3. Max({0, d}) \in {0, d} /\ 0 <= Max({0, d})
      BY <3>2, MaxOfTwo, Zenon
    <3>4. Max({0, d}) = 0
      BY <3>1, <3>3
    <3>. QED
      BY <3>4 DEF d
  <2>. QED
    BY <1>10, <1>14, <2>2 DEF overflow
<1>24. one = scan(Run(at, upto), FALSE).prefix /\ Run(mid, upto) = scan(Run(at, upto), FALSE).rest
  BY <1>4, <1>6, Zenon DEF one, s
<1>25. cut = mid + (partial_match_start(Chars(Run(mid, upto)), Window) - 1)
  <2>1. from = partial_match_start(Chars(Run(mid, upto)), Window)
    BY <1>6, Zenon DEF from
  <2>. QED
    BY <1>9, <2>1
<1>26. Sends(at, mid, cut, now, upto, one, two, three)
  <2>1. {one, two, three} \subseteq Seq(Pieces(Len(text)))
    BY <1>6, <1>12, <1>16 DEF L
  <2>2. mid \in at..upto /\ cut \in mid..upto /\ now \in cut..upto
    BY <1>6, <1>9, <1>14
  <2>3. Covers(one, at, mid) /\ Covers(two, mid, cut) /\ Covers(three, cut, now)
    BY <1>6, <1>12, <1>16
  <2>4. out' = out \o one \o two \o three
    BY <1>5
  <2>. QED
    BY <1>23, <1>24, <1>25, <2>1, <2>2, <2>3, <2>4, Zenon DEF Sends
<1>. QED
  BY <1>20, <1>21, <1>22, <1>26 DEF upto

LEMMA ProcessKeeps ==
    ASSUME RedactorInv, NEW n \in 1..MaxChunk, process(n)
    PROVE  RedactorInv'
<1>1. PICK at \in 0..fed : Kept(at)
  BY DEF RedactorInv
<1>2. PICK now : TypeOK' /\ Kept(now)' /\ now \in 0..fed'
  BY <1>1, ProcessSplits DEF RedactorInv
<1>. QED
  BY <1>2 DEF RedactorInv

LEMMA FlushKeeps ==
    ASSUME RedactorInv, flush
    PROVE  RedactorInv'
<1>. DEFINE L == Len(text)
            rest == redact(buffer)
<1>1. /\ text \in Seq(Characters) /\ L \in Nat /\ fed = L /\ out \in Seq(Pieces(L))
      /\ phase = "open" /\ phase' = "flushed" /\ out' = out \o rest /\ buffer' = <<>>
      /\ UNCHANGED <<text, fed>>
  BY Texted DEF RedactorInv, flush
<1>2. PICK at \in 0..fed : Covers(out, 0, at) /\ buffer = Run(at, fed)
  BY DEF RedactorInv, Kept, flush
<1>3. at \in Nat /\ L \in at..L /\ L \in 0..L
  <2>. HIDE DEF L
  <2>. QED
    BY <1>1
<1>4. rest \in Seq(Pieces(L)) /\ Covers(rest, at, L)
  <2>1. rest = redact(Run(at, L))
    BY <1>1, <1>2
  <2>2. L = Len(text)
    OBVIOUS
  <2>. HIDE DEF rest, L
  <2>. QED
    BY <1>1, <1>3, <2>1, <2>2, RedactCovers
<1>. HIDE DEF rest
<1>5. out' \in Seq(Pieces(L)) /\ Covers(out', 0, L)
  <2>. HIDE DEF L
  <2>. QED
    BY <1>1, <1>2, <1>3, <1>4, CoversConcat
<1>6. Run(L, L) = <<>>
  <2>. HIDE DEF L
  <2>1. Run(L, L) \in Seq(1..L) /\ Len(Run(L, L)) = L - L
    BY <1>1, <1>3, RunTypes
  <2>. QED
    BY <1>1, <2>1, EmptySeq
<1>7. TypeOK'
  <2>1. <<>> \in Seq(Position') /\ Len(<<>>) = 0
    BY EmptySeq
  <2>2. text' \in Texts /\ fed' \in 0..Len(text')
    BY <1>1 DEF RedactorInv, TypeOK
  <2>3. out' \in Seq([from : Position', to : Position', clear : BOOLEAN])
    BY <1>1, <1>5 DEF Position, Pieces
  <2>. QED
    BY <1>1, <2>1, <2>2, <2>3, WindowNat DEF TypeOK
<1>8. L \in 0..fed' /\ fed' = L /\ Len(text') = L
  BY <1>1, <1>3
<1>9. PICK end \in 0..fed' : end = L
  BY <1>8
<1>10. Kept(end)'
  BY <1>1, <1>5, <1>6, <1>8, <1>9 DEF Kept
<1>. QED
  BY <1>7, <1>10 DEF RedactorInv

LEMMA AbandonKeeps ==
    ASSUME RedactorInv, Abandon
    PROVE  RedactorInv'
<1>1. /\ buffer' = <<>> /\ phase' = "dropped" /\ UNCHANGED <<text, fed, out>>
  BY DEF Abandon
<1>2. <<>> \in Seq(Position) /\ Len(<<>>) = 0 /\ Position' = Position
  BY <1>1, EmptySeq DEF Position
<1>3. TypeOK'
  BY <1>1, <1>2, WindowNat DEF RedactorInv, TypeOK
<1>4. PICK at \in 0..fed : Kept(at)
  BY DEF RedactorInv
<1>5. Kept(at)'
  BY <1>1, <1>4 DEF Kept
<1>. QED
  BY <1>1, <1>3, <1>5 DEF RedactorInv

LEMMA NextKeeps == RedactorInv /\ [Next]_vars => RedactorInv'
<1>. SUFFICES ASSUME RedactorInv, [Next]_vars PROVE RedactorInv'
  OBVIOUS
<1>1. ASSUME UNCHANGED vars PROVE RedactorInv'
  BY <1>1 DEF RedactorInv, Kept, TypeOK, Position, vars
<1>2. ASSUME Finished PROVE RedactorInv'
  BY <1>1, <1>2 DEF Finished
<1>. QED
  BY <1>1, <1>2, ProcessKeeps, FlushKeeps, AbandonKeeps DEF Next

\* The inductive invariant: what was sent covers a beginning of what has arrived, and
\* what is held is the rest of it (StreamingRedactor.process, flush).
THEOREM RedactorInvariant == Spec => []RedactorInv
<1>. QED
  BY InitKeeps, NextKeeps, PTL DEF Spec

\* The carry of the redactor (self._buffer) never exceeds the window, for any text
\* and any chunks.
THEOREM CarryBounded == Spec => []TypeOK
<1>1. RedactorInv => TypeOK
  BY DEF RedactorInv
<1>. QED
  BY <1>1, RedactorInvariant, PTL

LEMMA CoveredInOrder == RedactorInv => NothingLost
<1>. SUFFICES ASSUME RedactorInv PROVE NothingLost
  OBVIOUS
<1>1. PICK at \in 0..fed : Kept(at)
  BY DEF RedactorInv
<1>. DEFINE P == Pieces(Len(text))
            End(k) == IF k = 0 THEN 0 ELSE out[k].to
<1>2. /\ out \in Seq(P) /\ Len(out) \in Nat /\ DOMAIN out = 1..Len(out)
      /\ \A k \in 1..Len(out) : out[k].from \in Nat /\ out[k].to \in Nat
  <2>1. out \in Seq(P)
    BY Texted DEF RedactorInv
  <2>2. Len(out) \in Nat /\ DOMAIN out = 1..Len(out) /\ \A k \in 1..Len(out) : out[k] \in P
    <3>. HIDE DEF P
    <3>. QED
      BY <2>1, LenProperties, ElementOfSeq
  <2>. QED
    BY <2>1, <2>2 DEF Pieces
<1>3. Covers(out, 0, at)
  BY <1>1 DEF Kept
<1>4. out = <<>> <=> Len(out) = 0
  BY <1>2, EmptySeq
<1>5. ASSUME NEW k \in DOMAIN out PROVE out[k].from = End(k - 1) + 1 /\ out[k].to >= out[k].from
  <2>1. k \in 1..Len(out) /\ out[k].from <= out[k].to /\ out[k].from \in Nat /\ out[k].to \in Nat
    BY <1>2, <1>3 DEF Covers
  <2>2. CASE k = 1
    BY <1>2, <1>3, <1>4, <2>1, <2>2 DEF Covers
  <2>3. CASE k # 1
    <3>1. k \in 2..Len(out) /\ k - 1 # 0
      BY <1>2, <2>1, <2>3
    <3>. QED
      BY <1>3, <2>1, <3>1 DEF Covers
  <2>. QED
    BY <2>2, <2>3
<1>6. End(Len(out)) = at
  BY <1>2, <1>3, <1>4 DEF Covers
<1>. HIDE DEF End
<1>7. /\ phase # "dropped" => buffer = [k \in 1..fed - End(Len(out)) |-> End(Len(out)) + k]
      /\ phase = "flushed" => End(Len(out)) = Len(text)
  BY <1>1, <1>6 DEF Kept, Run
<1>. QED
  BY <1>5, <1>7 DEF NothingLost, End

\* However the answer is cut into chunks and whatever matches in it, no character of it
\* is lost, repeated or moved between process, the carry and flush.
THEOREM NothingIsLost == Spec => []NothingLost
<1>. QED
  BY RedactorInvariant, CoveredInOrder, PTL

-----------------------------------------------------------------------------
(* A part of the text, and the patterns in it.                             *)

LEMMA PrefixIsPart ==
    ASSUME text \in Seq(Characters), NEW hi \in 0..Len(text)
    PROVE  Part(SubSeq(text, 1, hi), 0, hi)
<1>1. Len(text) \in Nat /\ \A k \in 1..hi : text[k] \in Characters
  BY LenProperties, ElementOfSeq
<1>. DEFINE t == SubSeq(text, 1, hi)
<1>2. t \in Seq(Characters) /\ Len(t) = (IF 1 <= hi THEN hi - 1 + 1 ELSE 0)
      /\ \A k \in 1..hi - 1 + 1 : t[k] = text[1 + k - 1]
  BY <1>1, SubSeqProperties
<1>. HIDE DEF t
<1>3. Len(t) = hi - 0
  BY <1>1, <1>2
<1>4. \A k \in 1..hi - 0 : t[k] = text[0 + k]
  <2>. TAKE k \in 1..hi - 0
  <2>1. k \in 1..hi - 1 + 1 /\ 1 + k - 1 = k /\ 0 + k = k
    BY <1>1
  <2>. QED
    BY <1>2, <2>1
<1>. QED
  BY <1>2, <1>3, <1>4 DEF Part, t

LEMMA TextIsPart == ASSUME text \in Seq(Characters) PROVE Part(text, 0, Len(text))
<1>1. Len(text) \in Nat
  BY LenProperties
<1>2. \A k \in 1..Len(text) - 0 : text[k] = text[0 + k]
  BY <1>1
<1>3. Len(text) = Len(text) - 0
  BY <1>1
<1>. QED
  BY <1>2, <1>3 DEF Part

\* The place x of the text is x - lo in the part.
LEMMA PlaceIn ==
    ASSUME NEW lo \in Nat, NEW hi \in Nat, NEW t, Part(t, lo, hi)
    PROVE  \A x \in lo + 1..hi : x - lo \in 1..Len(t) /\ t[x - lo] = text[x]
<1>. SUFFICES ASSUME NEW x \in lo + 1..hi PROVE x - lo \in 1..Len(t) /\ t[x - lo] = text[x]
  OBVIOUS
<1>1. x - lo \in 1..hi - lo /\ lo + (x - lo) = x
  OBVIOUS
<1>2. t[x - lo] = text[lo + (x - lo)] /\ Len(t) = hi - lo
  BY <1>1 DEF Part
<1>. QED
  BY <1>1, <1>2

LEMMA AllInPart ==
    ASSUME NEW S, NEW lo \in Nat, NEW hi \in Nat, NEW t, Part(t, lo, hi),
           NEW x \in Int, NEW y \in Int, lo < x, y <= hi
    PROVE  AllIn(t, x - lo, y - lo, S) <=> AllIn(text, x, y, S)
<1>1. \A k \in lo + 1..hi : t[k - lo] = text[k]
  <2>. HIDE DEF Part
  <2>1. \A k \in lo + 1..hi : k - lo \in 1..Len(t) /\ t[k - lo] = text[k]
    BY PlaceIn, Zenon
  <2>. QED
    BY <2>1
<1>2. ASSUME AllIn(t, x - lo, y - lo, S), NEW k \in x..y PROVE text[k] \in S
  <2>1. k \in lo + 1..hi /\ k - lo \in x - lo..y - lo
    OBVIOUS
  <2>2. t[k - lo] \in S
    BY <1>2, <2>1 DEF AllIn
  <2>. QED
    BY <1>1, <2>1, <2>2
<1>3. ASSUME AllIn(text, x, y, S), NEW k \in x - lo..y - lo PROVE t[k] \in S
  <2>1. k + lo \in lo + 1..hi /\ k + lo \in x..y /\ (k + lo) - lo = k
    OBVIOUS
  <2>2. text[k + lo] \in S
    BY <1>3, <2>1 DEF AllIn
  <2>3. t[(k + lo) - lo] = text[k + lo]
    BY <1>1, <2>1
  <2>. QED
    BY <2>1, <2>2, <2>3
<1>. QED
  BY <1>2, <1>3 DEF AllIn

LEMMA Sizes == TldMin \in Nat \ {0} /\ CardMin \in Nat /\ CardMin > 1 /\ CardMax \in Nat
               /\ CardMin <= CardMax /\ Window \in Nat /\ Window >= 2 * CardMax - 1
<1>1. TldMin \in Nat \ {0} /\ CardMin \in Nat \ {0, 1} /\ CardMax \in Nat /\ CardMin <= CardMax
      /\ Window \in Nat /\ Window >= 2 * CardMax - 1
  BY SRAssumption, Zenon
<1>. QED
  BY <1>1

\* An address from i to j whose @ and last dot are at these places.
Address(t, i, j, at, dot) ==
    /\ i < at /\ at + 1 < dot /\ dot + TldMin <= j
    /\ t[at] = "@" /\ AllIn(t, i, at - 1, Local)
    /\ {t[at + 1], t[dot - 1]} \subseteq Alnum
    /\ AllIn(t, at + 1, dot - 1, Domain)
    /\ t[dot] = "." /\ AllIn(t, dot + 1, j, Letters)

LEMMA AddressEnds ==
    ASSUME NEW t, Len(t) \in Nat, NEW i \in Nat, NEW j \in Int
    PROVE  j \in EmailEnds(t, i) <=>
              j \in i..Len(t) /\ \E at, dot \in Int : Address(t, i, j, at, dot)
<1>1. ASSUME j \in EmailEnds(t, i)
      PROVE  j \in i..Len(t) /\ \E at, dot \in Int : Address(t, i, j, at, dot)
  <2>1. PICK at \in i + 1..j, dot \in i + 3..j - TldMin :
            /\ t[at] = "@" /\ AllIn(t, i, at - 1, Local)
            /\ at + 1 < dot
            /\ {t[at + 1], t[dot - 1]} \subseteq Alnum
            /\ AllIn(t, at + 1, dot - 1, Domain)
            /\ t[dot] = "." /\ AllIn(t, dot + 1, j, Letters)
    BY <1>1 DEF EmailEnds
  <2>2. at \in Int /\ dot \in Int /\ i < at /\ dot + TldMin <= j
    BY Sizes
  <2>3. Address(t, i, j, at, dot)
    BY <2>1, <2>2 DEF Address
  <2>4. j \in i..Len(t)
    BY <1>1 DEF EmailEnds
  <2>. QED
    BY <2>2, <2>3, <2>4
<1>2. ASSUME j \in i..Len(t), NEW at \in Int, NEW dot \in Int, Address(t, i, j, at, dot)
      PROVE  j \in EmailEnds(t, i)
  <2>1. i < at /\ at + 1 < dot /\ dot + TldMin <= j
    BY <1>2 DEF Address
  <2>2. at \in i + 1..j /\ dot \in i + 3..j - TldMin
    BY <2>1, Sizes
  <2>. QED
    BY <1>2, <2>1, <2>2 DEF EmailEnds, Address
<1>. QED
  BY <1>1, <1>2

LEMMA AddressInPart ==
    ASSUME NEW lo \in Nat, NEW hi \in Nat, NEW t, Part(t, lo, hi),
           NEW x \in lo + 1..hi, NEW y \in x..hi, NEW at \in Int, NEW dot \in Int
    PROVE  Address(t, x - lo, y - lo, at - lo, dot - lo) <=> Address(text, x, y, at, dot)
<1>1. \A k \in lo + 1..hi : t[k - lo] = text[k]
  BY PlaceIn
<1>2. TldMin \in Nat \ {0}
  BY Sizes
<1>3. (x - lo < at - lo /\ (at - lo) + 1 < dot - lo /\ (dot - lo) + TldMin <= y - lo)
         <=> (x < at /\ at + 1 < dot /\ dot + TldMin <= y)
  BY <1>2
<1>. SUFFICES ASSUME x < at /\ at + 1 < dot /\ dot + TldMin <= y
              PROVE  Address(t, x - lo, y - lo, at - lo, dot - lo) <=> Address(text, x, y, at, dot)
  BY <1>3 DEF Address
<1>4. /\ at \in lo + 1..hi /\ at + 1 \in lo + 1..hi /\ dot \in lo + 1..hi /\ dot - 1 \in lo + 1..hi
      /\ (at - lo) + 1 = (at + 1) - lo /\ (dot - lo) - 1 = (dot - 1) - lo
      /\ (at - lo) - 1 = (at - 1) - lo /\ (dot - lo) + 1 = (dot + 1) - lo
      /\ at - 1 \in Int /\ at + 1 \in Int /\ dot - 1 \in Int /\ dot + 1 \in Int /\ x \in Int /\ y \in Int
      /\ lo < x /\ lo < at + 1 /\ lo < dot + 1 /\ at - 1 <= hi /\ dot - 1 <= hi /\ y <= hi
  BY <1>2
<1>5. /\ t[at - lo] = text[at] /\ t[(at - lo) + 1] = text[at + 1]
      /\ t[dot - lo] = text[dot] /\ t[(dot - lo) - 1] = text[dot - 1]
  BY <1>1, <1>4
<1>6. AllIn(t, x - lo, (at - lo) - 1, Local) <=> AllIn(text, x, at - 1, Local)
  BY <1>4, AllInPart
<1>7. AllIn(t, (at - lo) + 1, (dot - lo) - 1, Domain) <=> AllIn(text, at + 1, dot - 1, Domain)
  BY <1>4, AllInPart
<1>8. AllIn(t, (dot - lo) + 1, y - lo, Letters) <=> AllIn(text, dot + 1, y, Letters)
  BY <1>4, AllInPart
<1>. QED
  BY <1>3, <1>5, <1>6, <1>7, <1>8 DEF Address

LEMMA EmailInPart ==
    ASSUME text \in Seq(Characters), NEW lo \in Nat, NEW hi \in lo..Len(text), NEW t, Part(t, lo, hi),
           NEW x \in lo + 1..hi, NEW y \in x..hi
    PROVE  y - lo \in EmailEnds(t, x - lo) <=> y \in EmailEnds(text, x)
<1>1. /\ Len(text) \in Nat /\ Len(t) \in Nat /\ hi \in Nat /\ x \in Nat /\ x - lo \in Nat
      /\ y \in Int /\ y - lo \in Int /\ y - lo \in x - lo..Len(t) /\ y \in x..Len(text)
  <2>1. Len(text) \in Nat /\ Len(t) = hi - lo
    BY LenProperties DEF Part
  <2>. QED
    BY <2>1
<1>2. y - lo \in EmailEnds(t, x - lo) <=> \E at, dot \in Int : Address(t, x - lo, y - lo, at, dot)
  BY <1>1, AddressEnds
<1>3. y \in EmailEnds(text, x) <=> \E at, dot \in Int : Address(text, x, y, at, dot)
  BY <1>1, AddressEnds
<1>4. \A at, dot \in Int : Address(t, x - lo, y - lo, at - lo, dot - lo) <=> Address(text, x, y, at, dot)
  BY <1>1, AddressInPart
<1>5. \A z \in Int : z - lo \in Int /\ z + lo \in Int /\ (z + lo) - lo = z
  OBVIOUS
<1>6. ASSUME NEW at \in Int, NEW dot \in Int, Address(t, x - lo, y - lo, at, dot)
      PROVE  Address(text, x, y, at + lo, dot + lo)
  <2>1. at + lo \in Int /\ dot + lo \in Int /\ (at + lo) - lo = at /\ (dot + lo) - lo = dot
    BY <1>5
  <2>2. Address(t, x - lo, y - lo, (at + lo) - lo, (dot + lo) - lo)
    BY <1>6, <2>1
  <2>. QED
    BY <1>4, <2>1, <2>2
<1>. QED
  BY <1>2, <1>3, <1>4, <1>5, <1>6

-----------------------------------------------------------------------------
(* Numbers.                                                                *)

LEMMA Alphabet ==
    /\ Digit \cap Separator = {} /\ Digit \subseteq Local /\ "-" \in Local /\ Domain \subseteq Local
    /\ "@" \notin Local /\ "@" \notin Digit \cup Separator
    /\ Letters \subseteq Domain /\ "." \in Domain
<1>1. Letters \cap (Digit \cup {"@", ".", "-", "_", " "}) = {}
  BY SRAssumption, Zenon
<1>2. "@" \notin Letters
  BY <1>1
<1>3. "@" \notin Digit /\ Digit \cap Separator = {} /\ "@" \notin Separator
  BY DEF Digit, Separator
<1>4. /\ Digit \subseteq Local /\ "-" \in Local /\ Domain \subseteq Local
      /\ Letters \subseteq Domain /\ "." \in Domain
  BY DEF Local, Domain, Alnum
<1>5. "@" \notin Local
  BY <1>2, <1>3 DEF Local, Domain, Alnum
<1>. QED
  BY <1>3, <1>4, <1>5

LEMMA GroupedInPart ==
    ASSUME NEW lo \in Nat, NEW hi \in Nat, NEW t, Part(t, lo, hi),
           NEW x \in lo + 1..hi, NEW y \in x..hi
    PROVE  Grouped(t, x - lo, y - lo) <=> Grouped(text, x, y)
<1>1. \A k \in lo + 1..hi : t[k - lo] = text[k]
  BY PlaceIn
<1>2. /\ x \in Int /\ y \in Int /\ lo < x /\ y <= hi /\ x \in lo + 1..hi
      /\ x - lo \in Int /\ y - lo \in Int
  OBVIOUS
<1>3. AllIn(t, x - lo, y - lo, Digit \cup Separator) <=> AllIn(text, x, y, Digit \cup Separator)
  BY <1>2, AllInPart
<1>4. t[x - lo] = text[x]
  BY <1>1, <1>2
<1>5. ASSUME \A k \in x - lo..(y - lo) - 1 : t[k] \in Digit \/ t[k + 1] \in Digit,
             NEW k \in x..y - 1
      PROVE  text[k] \in Digit \/ text[k + 1] \in Digit
  <2>1. /\ k - lo \in x - lo..(y - lo) - 1 /\ k \in lo + 1..hi /\ k + 1 \in lo + 1..hi
        /\ (k - lo) + 1 = (k + 1) - lo
    OBVIOUS
  <2>2. t[k - lo] \in Digit \/ t[(k - lo) + 1] \in Digit
    BY <1>5, <2>1
  <2>. QED
    BY <1>1, <2>1, <2>2
<1>6. ASSUME \A k \in x..y - 1 : text[k] \in Digit \/ text[k + 1] \in Digit,
             NEW k \in x - lo..(y - lo) - 1
      PROVE  t[k] \in Digit \/ t[k + 1] \in Digit
  <2>1. /\ k + lo \in x..y - 1 /\ k + lo \in lo + 1..hi /\ (k + lo) + 1 \in lo + 1..hi
        /\ (k + lo) - lo = k /\ ((k + lo) + 1) - lo = k + 1
    OBVIOUS
  <2>2. text[k + lo] \in Digit \/ text[(k + lo) + 1] \in Digit
    BY <1>6, <2>1
  <2>3. t[(k + lo) - lo] = text[k + lo] /\ t[((k + lo) + 1) - lo] = text[(k + lo) + 1]
    BY <1>1, <2>1
  <2>. QED
    BY <2>1, <2>2, <2>3
<1>. QED
  BY <1>3, <1>4, <1>5, <1>6 DEF Grouped

LEMMA GroupedPrefix ==
    ASSUME NEW x \in Nat, NEW y \in Nat, NEW z \in x..y, Grouped(text, x, y)
    PROVE  Grouped(text, x, z)
<1>1. x..z \subseteq x..y /\ x..z - 1 \subseteq x..y - 1
  OBVIOUS
<1>. QED
  BY <1>1 DEF Grouped, AllIn

\* What begins a number may become one.
LEMMA GroupedPartial ==
    ASSUME NEW lo \in Nat, NEW hi \in Nat, NEW t, Part(t, lo, hi),
           NEW x \in lo + 1..hi, NEW y \in Nat, hi <= y, Grouped(text, x, y)
    PROVE  Partial(t, x - lo)
<1>1. x \in Nat /\ hi \in x..y /\ hi \in x..hi
  OBVIOUS
<1>2. Grouped(text, x, hi)
  BY <1>1, GroupedPrefix
<1>3. Grouped(t, x - lo, hi - lo)
  BY <1>1, <1>2, GroupedInPart
<1>4. Len(t) = hi - lo
  BY DEF Part
<1>. QED
  BY <1>3, <1>4 DEF Partial

\* What begins an address may become one.
LEMMA EmailPartial ==
    ASSUME text \in Seq(Characters), NEW lo \in Nat, NEW hi \in lo..Len(text), NEW t, Part(t, lo, hi),
           NEW x \in lo + 1..hi, NEW y \in EmailEnds(text, x), hi <= y
    PROVE  Partial(t, x - lo)
<1>1. /\ Len(text) \in Nat /\ hi \in Nat /\ x \in Nat /\ Len(t) = hi - lo /\ y \in x..Len(text)
      /\ lo \in Int /\ y \in Int /\ x <= hi /\ lo < x
  <2>1. Len(text) \in Nat /\ Len(t) = hi - lo /\ y \in x..Len(text)
    BY LenProperties DEF Part, EmailEnds
  <2>. QED
    BY <2>1
<1>2. PICK at \in Int, dot \in Int : Address(text, x, y, at, dot)
  BY <1>1, AddressEnds
<1>3. /\ x < at /\ at + 1 < dot /\ dot < y /\ text[at] = "@"
      /\ \A k \in x..at - 1 : text[k] \in Local
      /\ \A k \in at + 1..y : text[k] \in Domain
  <2>1. TldMin \in Nat \ {0}
    BY Sizes
  <2>2. /\ x < at /\ at + 1 < dot /\ dot + TldMin <= y /\ text[at] = "@" /\ text[dot] = "."
        /\ \A k \in x..at - 1 : text[k] \in Local
        /\ \A k \in at + 1..dot - 1 : text[k] \in Domain
        /\ \A k \in dot + 1..y : text[k] \in Letters
    BY <1>2 DEF Address, AllIn
  <2>3. dot < y
    BY <1>1, <2>1, <2>2
  <2>4. ASSUME NEW k \in at + 1..y PROVE text[k] \in Domain
    <3>1. k \in at + 1..dot - 1 \/ k = dot \/ k \in dot + 1..y
      BY <1>1
    <3>. QED
      BY <2>2, <3>1, Alphabet
  <2>. QED
    BY <2>2, <2>3, <2>4
<1>4. CASE hi < at
  <2>1. AllIn(text, x, hi, Local)
    <3>1. x..hi \subseteq x..at - 1
      BY <1>1, <1>4
    <3>. QED
      BY <1>3, <3>1 DEF AllIn
  <2>2. AllIn(t, x - lo, hi - lo, Local)
    <3>1. hi \in Nat /\ x \in Int /\ hi \in Int /\ lo < x /\ hi <= hi
      BY <1>1
    <3>. QED
      BY <2>1, <3>1, AllInPart
  <2>3. Len(t) \in x - lo..Len(t) /\ AllIn(t, x - lo, Len(t), Local)
    BY <1>1, <2>2
  <2>. QED
    BY <2>3 DEF Partial
<1>5. CASE ~(hi < at)
  <2>. DEFINE k == (at - 1) - lo
  <2>1. /\ at - 1 \in Int /\ at + 1 \in Int /\ at - 1 <= hi /\ lo < at + 1 /\ hi <= hi
        /\ at \in lo + 1..hi /\ k \in x - lo..Len(t)
        /\ k + 1 = at - lo /\ k + 2 = (at + 1) - lo /\ hi - lo = Len(t)
    BY <1>1, <1>3, <1>5
  <2>2. AllIn(text, x, at - 1, Local) /\ AllIn(text, at + 1, hi, Domain)
    <3>1. at + 1..hi \subseteq at + 1..y
      BY <1>1
    <3>. QED
      BY <1>3, <3>1 DEF AllIn
  <2>3. AllIn(t, x - lo, (at - 1) - lo, Local)
    <3>1. hi \in Nat /\ x \in Int /\ at - 1 \in Int /\ lo < x /\ at - 1 <= hi
      BY <1>1, <2>1
    <3>. HIDE DEF k
    <3>. QED
      BY <2>2, <3>1, AllInPart
  <2>4. AllIn(t, (at + 1) - lo, hi - lo, Domain)
    <3>1. hi \in Nat /\ hi \in Int /\ at + 1 \in Int /\ lo < at + 1 /\ hi <= hi
      BY <1>1, <2>1
    <3>. HIDE DEF k
    <3>. QED
      BY <2>2, <3>1, AllInPart
  <2>5. t[at - lo] = "@"
    BY <1>1, <1>3, <2>1, PlaceIn
  <2>6. AllIn(t, x - lo, k, Local) /\ t[k + 1] = "@" /\ AllIn(t, k + 2, Len(t), Domain)
    BY <2>1, <2>3, <2>4, <2>5
  <2>. HIDE DEF k
  <2>. QED
    BY <2>1, <2>6 DEF Partial
<1>. QED
  BY <1>4, <1>5

LEMMA SsnSizes ==
    \E a, b, c \in Nat \ {0} : /\ SsnLength = a + b + c + 2 /\ SsnBreaks = {a + 1, a + b + 2}
                               /\ a + b + c < CardMin /\ a + b + c + 2 <= Window
<1>. DEFINE a == SsnParts[1]
            b == SsnParts[2]
            c == SsnParts[3]
<1>1. SsnParts \in [1..3 -> Nat \ {0}] /\ a + b + c < CardMin /\ Window >= a + b + c + 2
  BY SRAssumption, Zenon
<1>2. 1 \in 1..3 /\ 2 \in 1..3 /\ 3 \in 1..3
  OBVIOUS
<1>3. a \in Nat \ {0} /\ b \in Nat \ {0} /\ c \in Nat \ {0}
  BY <1>1, <1>2, Zenon
<1>4. SsnLength = a + b + c + 2 /\ SsnBreaks = {a + 1, a + b + 2}
  BY Zenon DEF SsnLength, SsnBreaks
<1>5. a + b + c < CardMin /\ Window >= a + b + c + 2
  BY <1>1
<1>. HIDE DEF a, b, c
<1>6. a + b + c + 2 <= Window
  BY <1>3, <1>5, Sizes
<1>. QED
  BY <1>3, <1>4, <1>5, <1>6

\* The digits and separators of a social security number that begins at i.
SsnForm(t, i) ==
    \A k \in 1..SsnLength : t[i + k - 1] \in IF k \in SsnBreaks THEN Separator ELSE Digit

LEMMA SsnInPart ==
    ASSUME NEW lo \in Nat, NEW hi \in Nat, NEW t, Part(t, lo, hi), NEW x \in lo + 1..hi,
           x + SsnLength - 1 <= hi
    PROVE  SsnForm(t, x - lo) <=> SsnForm(text, x)
<1>1. SsnLength \in Nat
  BY SsnSizes
<1>2. \A k \in 1..SsnLength : t[(x - lo) + k - 1] = text[x + k - 1]
  <2>. TAKE k \in 1..SsnLength
  <2>1. x + k - 1 \in lo + 1..hi /\ (x + k - 1) - lo = (x - lo) + k - 1
    BY <1>1
  <2>2. \A z \in lo + 1..hi : t[z - lo] = text[z]
    BY PlaceIn
  <2>. QED
    BY <2>1, <2>2
<1>. QED
  BY <1>2 DEF SsnForm

LEMMA SsnGrouped ==
    ASSUME NEW x \in Nat, SsnForm(text, x)
    PROVE  Grouped(text, x, x + SsnLength - 1)
<1>1. PICK a \in Nat \ {0}, b \in Nat \ {0}, c \in Nat \ {0} :
         SsnLength = a + b + c + 2 /\ SsnBreaks = {a + 1, a + b + 2}
  BY SsnSizes
<1>. DEFINE y == x + SsnLength - 1
<1>2. \A k \in x..y : /\ text[k] \in Digit \cup Separator
                      /\ k - x + 1 \notin SsnBreaks => text[k] \in Digit
  <2>. TAKE k \in x..y
  <2>1. k - x + 1 \in 1..SsnLength /\ x + (k - x + 1) - 1 = k
    BY <1>1
  <2>2. text[x + (k - x + 1) - 1] \in IF k - x + 1 \in SsnBreaks THEN Separator ELSE Digit
    BY <2>1 DEF SsnForm
  <2>. QED
    BY <2>1, <2>2
<1>3. x \in x..y /\ x - x + 1 \notin SsnBreaks
  BY <1>1
<1>4. ASSUME NEW k \in x..y - 1 PROVE text[k] \in Digit \/ text[k + 1] \in Digit
  <2>1. k \in x..y /\ k + 1 \in x..y
    BY <1>1
  <2>2. k - x + 1 \notin SsnBreaks \/ (k + 1) - x + 1 \notin SsnBreaks
    BY <1>1
  <2>. QED
    BY <1>2, <2>1, <2>2
<1>. QED
  BY <1>2, <1>3, <1>4 DEF Grouped, AllIn

-----------------------------------------------------------------------------
(* How many digits.                                                        *)

Count(i, j) == Cardinality(DigitPlaces(text, i, j))

LEMMA PlacesFinite ==
    ASSUME NEW t, NEW i \in Int, NEW j \in Int
    PROVE  IsFiniteSet(DigitPlaces(t, i, j)) /\ Cardinality(DigitPlaces(t, i, j)) \in Nat
<1>1. DigitPlaces(t, i, j) \in SUBSET (i..j) /\ IsFiniteSet(i..j)
  BY FS_Interval DEF DigitPlaces
<1>2. IsFiniteSet(DigitPlaces(t, i, j))
  BY <1>1, FS_Subset
<1>. QED
  BY <1>2, FS_CardinalityType

LEMMA CountWithin ==
    ASSUME NEW i \in Int, NEW j \in Int, NEW k \in Int, NEW l \in Int, k <= i, j <= l
    PROVE  Count(i, j) <= Count(k, l) /\ Count(i, j) \in Nat /\ Count(k, l) \in Nat
<1>1. DigitPlaces(text, i, j) \in SUBSET DigitPlaces(text, k, l)
  BY DEF DigitPlaces
<1>2. IsFiniteSet(DigitPlaces(text, k, l))
  BY PlacesFinite
<1>3. Count(i, j) <= Count(k, l)
  BY <1>1, <1>2, FS_Subset DEF Count
<1>. QED
  BY <1>3, PlacesFinite DEF Count

\* A digit more, at either end.
LEMMA CountMore ==
    ASSUME NEW i \in Int, NEW j \in Int, NEW k \in Int, NEW l \in Int, k <= i, j <= l,
           NEW p \in k..l, p \notin i..j, text[p] \in Digit
    PROVE  Count(i, j) + 1 <= Count(k, l)
<1>. DEFINE few == DigitPlaces(text, i, j)
            many == DigitPlaces(text, k, l)
<1>1. few \cup {p} \in SUBSET many /\ p \notin few
  BY DEF DigitPlaces
<1>2. IsFiniteSet(few) /\ IsFiniteSet(many) /\ Cardinality(few) \in Nat /\ Cardinality(many) \in Nat
  BY PlacesFinite
<1>. HIDE DEF few, many
<1>3. Cardinality(few \cup {p}) = Cardinality(few) + 1
  BY <1>1, <1>2, FS_AddElement
<1>4. Cardinality(few \cup {p}) <= Cardinality(many)
  BY <1>1, <1>2, FS_Subset
<1>. QED
  BY <1>3, <1>4 DEF Count, few, many

LEMMA CountInPart ==
    ASSUME NEW lo \in Nat, NEW hi \in Nat, NEW t, Part(t, lo, hi),
           NEW x \in lo + 1..hi, NEW y \in x..hi
    PROVE  Cardinality(DigitPlaces(t, x - lo, y - lo)) = Count(x, y)
<1>. DEFINE S == DigitPlaces(t, x - lo, y - lo)
            T == DigitPlaces(text, x, y)
            up == [k \in S |-> k + lo]
            down == [k \in T |-> k - lo]
<1>0. \A k \in lo + 1..hi : t[k - lo] = text[k]
  BY PlaceIn
<1>1. \A k \in S : k \in Int /\ k + lo \in T
  <2>. TAKE k \in S
  <2>1. k \in x - lo..y - lo /\ t[k] \in Digit
    BY DEF DigitPlaces
  <2>2. k + lo \in x..y /\ k + lo \in lo + 1..hi /\ (k + lo) - lo = k
    BY <2>1
  <2>3. t[(k + lo) - lo] = text[k + lo]
    BY <1>0, <2>2
  <2>. QED
    BY <2>1, <2>2, <2>3 DEF DigitPlaces
<1>2. \A k \in T : k \in Int /\ k - lo \in S
  <2>. TAKE k \in T
  <2>1. k \in x..y /\ text[k] \in Digit
    BY DEF DigitPlaces
  <2>2. k - lo \in x - lo..y - lo /\ k \in lo + 1..hi
    BY <2>1
  <2>3. t[k - lo] = text[k]
    BY <1>0, <2>2
  <2>. QED
    BY <2>1, <2>2, <2>3 DEF DigitPlaces
<1>3. IsFiniteSet(S) /\ IsFiniteSet(T) /\ Cardinality(S) \in Nat /\ Cardinality(T) \in Nat
  BY PlacesFinite
<1>. HIDE DEF S, T
<1>4. up \in Injection(S, T)
  <2>1. up \in [S -> T]
    BY <1>1
  <2>2. \A k, l \in S : k + lo = l + lo => k = l
    BY <1>1
  <2>. QED
    BY <2>1, <2>2 DEF Injection, IsInjective
<1>5. down \in Injection(T, S)
  BY <1>2 DEF Injection, IsInjective
<1>6. Cardinality(S) <= Cardinality(T) /\ Cardinality(T) <= Cardinality(S)
  BY <1>3, <1>4, <1>5, FS_Injection
<1>. QED
  BY <1>3, <1>6 DEF Count, S, T

\* A social security number has fewer digits than a card.
LEMMA SsnFew ==
    ASSUME NEW x \in Nat, SsnForm(text, x)
    PROVE  Count(x, x + SsnLength - 1) < CardMin
<1>1. PICK a \in Nat \ {0}, b \in Nat \ {0}, c \in Nat \ {0} :
         SsnLength = a + b + c + 2 /\ SsnBreaks = {a + 1, a + b + 2} /\ a + b + c < CardMin
  BY SsnSizes
<1>. DEFINE y == x + SsnLength - 1
            p == x + a
            q == x + (a + b + 1)
            one == (x..y) \ {p}
            two == one \ {q}
<1>2. y \in Int /\ p \in x..y /\ q \in one /\ y - x + 1 = a + b + c + 2 /\ x <= y
  BY <1>1
<1>3. text[p] \in Separator /\ text[q] \in Separator
  <2>1. /\ a + 1 \in 1..SsnLength /\ a + b + 2 \in 1..SsnLength
        /\ x + (a + 1) - 1 = p /\ x + (a + b + 2) - 1 = q
    BY <1>1
  <2>2. text[x + (a + 1) - 1] \in Separator /\ text[x + (a + b + 2) - 1] \in Separator
    BY <1>1, <2>1 DEF SsnForm
  <2>. QED
    BY <2>1, <2>2
<1>4. DigitPlaces(text, x, y) \in SUBSET two
  BY <1>3, Alphabet DEF DigitPlaces
<1>5. IsFiniteSet(x..y) /\ Cardinality(x..y) = a + b + c + 2
  <2>. HIDE DEF y
  <2>. QED
    BY <1>2, FS_Interval
<1>. HIDE DEF y, p, q
<1>6. IsFiniteSet(one) /\ Cardinality(one) = a + b + c + 2 - 1
  <2>. DEFINE all == x..y
  <2>1. IsFiniteSet(all) /\ Cardinality(all) = a + b + c + 2 /\ p \in all
    BY <1>2, <1>5
  <2>. HIDE DEF all
  <2>2. IsFiniteSet(all \ {p}) /\ Cardinality(all \ {p}) = Cardinality(all) - 1
    BY <2>1, FS_RemoveElement
  <2>. QED
    BY <2>1, <2>2 DEF all
<1>. HIDE DEF one
<1>7. IsFiniteSet(two) /\ Cardinality(two) = a + b + c + 2 - 1 - 1
  BY <1>2, <1>6, FS_RemoveElement
<1>. HIDE DEF two
<1>8. Cardinality(DigitPlaces(text, x, y)) <= a + b + c
  <2>1. Cardinality(DigitPlaces(text, x, y)) <= Cardinality(two)
    BY <1>4, <1>7, FS_Subset
  <2>. QED
    BY <1>7, <2>1
<1>9. Cardinality(DigitPlaces(text, x, y)) \in Nat
  BY <1>2, PlacesFinite
<1>10. Count(x, y) < CardMin
  BY <1>1, <1>8, <1>9, Sizes DEF Count
<1>. QED
  BY <1>10 DEF y

\* There is at most one separator between two digits.
LEMMA CountLength ==
    ASSUME NEW x \in Nat, NEW y \in Nat, x <= y, Grouped(text, x, y), text[y] \in Digit
    PROVE  y - x + 2 <= 2 * Count(x, y)
<1>. DEFINE D == DigitPlaces(text, x, y)
            S == (x..y) \ D
            next == [k \in S |-> k + 1]
<1>1. IsFiniteSet(x..y) /\ Cardinality(x..y) = y - x + 1 /\ IsFiniteSet(D) /\ Cardinality(D) \in Nat
  BY FS_Interval, PlacesFinite
<1>2. x \in D /\ D \subseteq x..y
  BY DEF DigitPlaces, Grouped
<1>3. \A k \in S : k \in Int /\ k + 1 \in D \ {x}
  <2>. TAKE k \in S
  <2>1. k \in x..y /\ text[k] \notin Digit
    BY DEF DigitPlaces
  <2>2. k # y
    BY <2>1
  <2>3. k \in x..y - 1 /\ k + 1 \in x..y /\ k + 1 # x
    BY <2>1, <2>2
  <2>4. text[k + 1] \in Digit
    BY <2>1, <2>3 DEF Grouped
  <2>. QED
    BY <2>3, <2>4 DEF DigitPlaces
<1>. HIDE DEF D
<1>4. IsFiniteSet(S) /\ Cardinality(S) = Cardinality(x..y) - Cardinality(D)
  <2>. DEFINE all == x..y
  <2>1. all \cap D = D /\ IsFiniteSet(all)
    BY <1>1, <1>2
  <2>. HIDE DEF all
  <2>2. IsFiniteSet(all \ D) /\ Cardinality(all \ D) = Cardinality(all) - Cardinality(D)
    BY <2>1, FS_Difference
  <2>. QED
    BY <2>2 DEF all
<1>5. IsFiniteSet(D \ {x}) /\ Cardinality(D \ {x}) = Cardinality(D) - 1
  BY <1>1, <1>2, FS_RemoveElement
<1>. HIDE DEF S
<1>6. next \in Injection(S, D \ {x})
  BY <1>3 DEF Injection, IsInjective
<1>7. Cardinality(S) <= Cardinality(D \ {x})
  BY <1>5, <1>6, FS_Injection
<1>. QED
  BY <1>1, <1>4, <1>5, <1>7 DEF Count, D

-----------------------------------------------------------------------------
(* Where numbers end.                                                      *)

\* Behind lo up to hi there is nothing of S before x or after y.
Beside(x, y, lo, hi, S) == /\ x = lo + 1 \/ text[x - 1] \notin S
                           /\ y = hi \/ text[y + 1] \notin S

SsnTo(x, y, lo, hi) ==
    y = x + SsnLength - 1 /\ SsnForm(text, x) /\ Beside(x, y, lo, hi, Digit)

CardTo(x, y, lo, hi) ==
    /\ Grouped(text, x, y) /\ text[y] \in Digit /\ Count(x, y) \in CardMin..CardMax
    /\ Beside(x, y, lo, hi, Digit \cup {"-"})

LEMMA BesideInPart ==
    ASSUME NEW S, NEW lo \in Nat, NEW hi \in Nat, NEW t, Part(t, lo, hi),
           NEW x \in lo + 1..hi, NEW y \in x..hi
    PROVE  NotBefore(t, x - lo, S) /\ NotAfter(t, y - lo, S) <=> Beside(x, y, lo, hi, S)
<1>1. \A k \in lo + 1..hi : t[k - lo] = text[k]
  <2>1. \A k \in lo + 1..hi : k - lo \in 1..Len(t) /\ t[k - lo] = text[k]
    BY PlaceIn, Zenon
  <2>. QED
    BY <2>1
<1>2. Len(t) = hi - lo
  BY DEF Part
<1>3. NotBefore(t, x - lo, S) <=> x = lo + 1 \/ text[x - 1] \notin S
  <2>1. x - lo = 1 <=> x = lo + 1
    OBVIOUS
  <2>2. x # lo + 1 => t[(x - lo) - 1] = text[x - 1]
    <3>. SUFFICES ASSUME x # lo + 1 PROVE t[(x - lo) - 1] = text[x - 1]
      OBVIOUS
    <3>1. x - 1 \in lo + 1..hi /\ (x - 1) - lo = (x - lo) - 1
      OBVIOUS
    <3>. QED
      BY <1>1, <3>1
  <2>. QED
    BY <2>1, <2>2 DEF NotBefore
<1>4. NotAfter(t, y - lo, S) <=> y = hi \/ text[y + 1] \notin S
  <2>1. y - lo = Len(t) <=> y = hi
    BY <1>2
  <2>2. y # hi => t[(y - lo) + 1] = text[y + 1]
    <3>. SUFFICES ASSUME y # hi PROVE t[(y - lo) + 1] = text[y + 1]
      OBVIOUS
    <3>1. y + 1 \in lo + 1..hi /\ (y + 1) - lo = (y - lo) + 1
      OBVIOUS
    <3>. QED
      BY <1>1, <3>1
  <2>. QED
    BY <2>1, <2>2 DEF NotAfter
<1>. QED
  BY <1>3, <1>4 DEF Beside

LEMMA SsnEndsInPart ==
    ASSUME NEW lo \in Nat, NEW hi \in Nat, NEW t, Part(t, lo, hi),
           NEW x \in lo + 1..hi, NEW y \in x..hi
    PROVE  y - lo \in SsnEnds(t, x - lo) <=> SsnTo(x, y, lo, hi)
<1>1. SsnLength \in Nat
  BY SsnSizes
<1>2. Len(t) = hi - lo
  BY DEF Part
<1>3. y - lo \in 1..Len(t) /\ (y - lo = (x - lo) + SsnLength - 1 <=> y = x + SsnLength - 1)
  BY <1>1, <1>2
<1>4. NotBefore(t, x - lo, Digit) /\ NotAfter(t, y - lo, Digit) <=> Beside(x, y, lo, hi, Digit)
  BY BesideInPart
<1>5. y = x + SsnLength - 1 => (SsnForm(t, x - lo) <=> SsnForm(text, x))
  <2>1. y = x + SsnLength - 1 => x + SsnLength - 1 <= hi
    BY <1>1
  <2>. QED
    BY <2>1, SsnInPart
<1>6. y - lo \in SsnEnds(t, x - lo) <=>
         /\ y - lo = (x - lo) + SsnLength - 1 /\ SsnForm(t, x - lo)
         /\ NotBefore(t, x - lo, Digit) /\ NotAfter(t, y - lo, Digit)
  BY <1>3 DEF SsnEnds, SsnForm
<1>. QED
  BY <1>3, <1>4, <1>5, <1>6 DEF SsnTo

LEMMA CardEndsInPart ==
    ASSUME NEW lo \in Nat, NEW hi \in Nat, NEW t, Part(t, lo, hi),
           NEW x \in lo + 1..hi, NEW y \in x..hi
    PROVE  y - lo \in CardEnds(t, x - lo) <=> CardTo(x, y, lo, hi)
<1>1. Len(t) = hi - lo
  BY DEF Part
<1>2. y - lo \in x - lo..Len(t) /\ y \in lo + 1..hi
  BY <1>1
<1>3. NotBefore(t, x - lo, Digit \cup {"-"}) /\ NotAfter(t, y - lo, Digit \cup {"-"})
         <=> Beside(x, y, lo, hi, Digit \cup {"-"})
  BY BesideInPart
<1>4. Grouped(t, x - lo, y - lo) <=> Grouped(text, x, y)
  BY GroupedInPart
<1>5. Cardinality(DigitPlaces(t, x - lo, y - lo)) = Count(x, y)
  BY CountInPart
<1>6. t[y - lo] = text[y]
  BY <1>2, PlaceIn
<1>7. y - lo \in CardEnds(t, x - lo) <=>
         /\ Grouped(t, x - lo, y - lo) /\ t[y - lo] \in Digit
         /\ Cardinality(DigitPlaces(t, x - lo, y - lo)) \in CardMin..CardMax
         /\ NotBefore(t, x - lo, Digit \cup {"-"}) /\ NotAfter(t, y - lo, Digit \cup {"-"})
  BY <1>2 DEF CardEnds
<1>. QED
  BY <1>3, <1>4, <1>5, <1>6, <1>7 DEF CardTo

\* What MatchAt returns.
Picked(t, i, m) ==
    \/ /\ m.kind = "email" /\ m.to \in EmailEnds(t, i) /\ \A j \in EmailEnds(t, i) : j <= m.to
    \/ /\ m.kind = "ssn" /\ EmailEnds(t, i) = {} /\ m.to \in SsnEnds(t, i)
    \/ /\ m.kind = "card" /\ EmailEnds(t, i) = {} /\ SsnEnds(t, i) = {}
       /\ m.to \in CardEnds(t, i) /\ \A j \in CardEnds(t, i) : j <= m.to

LEMMA MatchPicked ==
    ASSUME NEW t \in Seq(Characters), NEW i \in Starts(t)
    PROVE  MatchAt(t, i).from = i /\ Picked(t, i, MatchAt(t, i))
<1>1. i \in 1..Len(t) /\ Len(t) \in Nat /\ EmailEnds(t, i) \cup SsnEnds(t, i) \cup CardEnds(t, i) # {}
  BY LenProperties DEF Starts
<1>2. ASSUME NEW ends, ends \subseteq i..Len(t), ends # {}
      PROVE  Max(ends) \in ends /\ \A j \in ends : j <= Max(ends)
  <2>1. ends \in SUBSET (0..Len(t))
    BY <1>1, <1>2
  <2>. QED
    BY <1>1, <1>2, <2>1, Largest
<1>3. CASE EmailEnds(t, i) # {}
  <2>1. MatchAt(t, i) = [kind |-> "email", from |-> i, to |-> Max(EmailEnds(t, i))]
    BY <1>3, Zenon DEF MatchAt
  <2>2. /\ Max(EmailEnds(t, i)) \in EmailEnds(t, i)
        /\ \A j \in EmailEnds(t, i) : j <= Max(EmailEnds(t, i))
    BY <1>1, <1>2, <1>3, EndsInside
  <2>. QED
    BY <2>1, <2>2 DEF Picked
<1>4. CASE EmailEnds(t, i) = {} /\ SsnEnds(t, i) # {}
  <2>1. MatchAt(t, i) = [kind |-> "ssn", from |-> i, to |-> Max(SsnEnds(t, i))]
    BY <1>4, Zenon DEF MatchAt
  <2>2. Max(SsnEnds(t, i)) \in SsnEnds(t, i)
    BY <1>1, <1>2, <1>4, EndsInside
  <2>. QED
    BY <1>4, <2>1, <2>2 DEF Picked
<1>5. CASE EmailEnds(t, i) = {} /\ SsnEnds(t, i) = {}
  <2>1. MatchAt(t, i) = [kind |-> "card", from |-> i, to |-> Max(CardEnds(t, i))]
    BY <1>5, Zenon DEF MatchAt
  <2>2. /\ Max(CardEnds(t, i)) \in CardEnds(t, i)
        /\ \A j \in CardEnds(t, i) : j <= Max(CardEnds(t, i))
    BY <1>1, <1>2, <1>5, EndsInside
  <2>. QED
    BY <1>5, <2>1, <2>2 DEF Picked
<1>. QED
  BY <1>3, <1>4, <1>5

-----------------------------------------------------------------------------
(* Which matches finditer returns.                                         *)

AllPicked(t, ms) ==
    \A k \in 1..Len(ms) : ms[k].from \in Starts(t) /\ ms[k] = MatchAt(t, ms[k].from)

Holds(ms, i) == \E k \in 1..Len(ms) : ms[k].from = i

\* No match begins before i and ends at i or behind it.
Free(t, i) == \A j \in Starts(t) : j < i => MatchAt(t, j).to < i

LEMMA FoundPicked ==
    ASSUME NEW t \in Seq(Characters), NEW i \in 1..Len(t), NEW before \in Seq(MatchesOf(Len(t))),
           Apart(before, i - 1), AllPicked(t, before)
    PROVE  /\ AllPicked(t, Found(t, before, i))
           /\ \A f \in 1..Len(t) : f \in Starts(t) /\ Free(t, f) /\ (f < i => Holds(before, f))
                 => (f <= i => Holds(Found(t, before, i), f))
<1>. DEFINE M == MatchesOf(Len(t))
            new == MatchAt(t, i)
            after == Append(before, new)
            take == i \in Starts(t) /\ (before = <<>> \/ before[Len(before)].to < i)
<1>1. Len(before) \in Nat /\ Len(t) \in Nat /\ (before = <<>> <=> Len(before) = 0)
  BY LenProperties, EmptySeq
<1>2. CASE take
  <2>1. new \in M /\ new.from = i
    BY <1>2, MatchInside
  <2>2. /\ after \in Seq(M) /\ Len(after) = Len(before) + 1
        /\ \A k \in 1..Len(before) : after[k] = before[k]
        /\ after[Len(before) + 1] = new
    <3>. HIDE DEF new, M
    <3>. QED
      BY <2>1, AppendProperties DEF M
  <2>3. Found(t, before, i) = after
    BY <1>2 DEF Found
  <2>4. new = MatchAt(t, i) /\ i \in Starts(t)
    BY <1>2
  <2>. HIDE DEF after, new, take
  <2>5. AllPicked(t, after)
    <3>. SUFFICES ASSUME NEW k \in 1..Len(after)
                  PROVE  after[k].from \in Starts(t) /\ after[k] = MatchAt(t, after[k].from)
      BY DEF AllPicked
    <3>1. CASE k = Len(before) + 1
      BY <2>1, <2>2, <2>4, <3>1
    <3>2. CASE k # Len(before) + 1
      <4>1. k \in 1..Len(before)
        BY <1>1, <2>2, <3>2
      <4>. QED
        BY <2>2, <4>1 DEF AllPicked
    <3>. QED
      BY <3>1, <3>2
  <2>6. ASSUME NEW f \in 1..Len(t), f < i => Holds(before, f), f <= i PROVE Holds(after, f)
    <3>1. CASE f = i
      <4>1. Len(before) + 1 \in 1..Len(after)
        BY <1>1, <2>2
      <4>. QED
        BY <2>1, <2>2, <3>1, <4>1 DEF Holds
    <3>2. CASE f # i
      <4>1. PICK k \in 1..Len(before) : before[k].from = f
        BY <2>6, <3>2 DEF Holds
      <4>2. k \in 1..Len(after) /\ after[k] = before[k]
        BY <1>1, <2>2
      <4>. QED
        BY <4>1, <4>2 DEF Holds
    <3>. QED
      BY <3>1, <3>2
  <2>. QED
    BY <2>3, <2>5, <2>6
<1>3. CASE ~take
  <2>1. Found(t, before, i) = before
    BY <1>3 DEF Found
  <2>2. ASSUME i \in Starts(t), Free(t, i) PROVE FALSE
    <3>. DEFINE n == Len(before)
                m == before[n]
    <3>1. n \in 1..Len(before) /\ ~(m.to < i)
      BY <1>1, <1>3, <2>2
    <3>2. m.from \in Starts(t) /\ m = MatchAt(t, m.from)
      BY <3>1 DEF AllPicked
    <3>3. m \in M /\ m.from <= i - 1
      BY <3>1, ElementOfSeq DEF Apart
    <3>4. m.from < i
      BY <3>3 DEF MatchesOf
    <3>. HIDE DEF m
    <3>5. MatchAt(t, m.from).to < i
      BY <2>2, <3>2, <3>4 DEF Free
    <3>. QED
      BY <3>1, <3>2, <3>5
  <2>3. ASSUME NEW f \in 1..Len(t), f \in Starts(t), Free(t, f), f < i => Holds(before, f), f <= i
        PROVE  Holds(before, f)
    BY <2>2, <2>3
  <2>. QED
    BY <2>1, <2>3
<1>. QED
  BY <1>2, <1>3

LEMMA MatchesPicked ==
    ASSUME NEW t \in Seq(Characters)
    PROVE  /\ AllPicked(t, Matches(t))
           /\ \A f \in 1..Len(t) : f \in Starts(t) /\ Free(t, f) => Holds(Matches(t), f)
<1>1. PICK g : Finds(t, g) /\ Matches(t) = g[Len(t)]
  BY FindsOnce
<1>. DEFINE Fine(k) == /\ g[k] \in Seq(MatchesOf(Len(t))) /\ Apart(g[k], k) /\ AllPicked(t, g[k])
                       /\ \A f \in 1..Len(t) :
                             f \in Starts(t) /\ Free(t, f) => (f <= k => Holds(g[k], f))
            Good == {k \in 0..Len(t) : Fine(k)}
<1>2. Len(t) \in Nat
  BY LenProperties
<1>3. g[0] = <<>> /\ \A k \in 1..Len(t) : g[k] = Found(t, g[k - 1], k)
  <2>1. 0 \in 0..Len(t) /\ \A k \in 1..Len(t) : k \in 0..Len(t) /\ k # 0
    BY <1>2
  <2>. QED
    BY <1>1, <2>1 DEF Finds
<1>4. 0 \in Good
  <2>1. Len(<<>>) = 0 /\ <<>> \in Seq(MatchesOf(Len(t)))
    BY EmptySeq
  <2>2. Apart(<<>>, 0) /\ AllPicked(t, <<>>)
    BY <2>1 DEF Apart, AllPicked
  <2>3. 0 \in 0..Len(t) /\ g[0] = <<>> /\ \A f \in 1..Len(t) : ~(f <= 0)
    BY <1>2, <1>3
  <2>4. Fine(0)
    BY <2>1, <2>2, <2>3
  <2>. HIDE DEF Fine
  <2>. QED
    BY <2>3, <2>4
<1>5. ASSUME NEW k \in 1..Len(t), k - 1 \in Good PROVE k \in Good
  <2>. DEFINE before == g[k - 1]
  <2>1. Fine(k - 1) /\ k \in 0..Len(t)
    BY <1>2, <1>5
  <2>2. before \in Seq(MatchesOf(Len(t))) /\ Apart(before, k - 1) /\ AllPicked(t, before)
    BY <2>1
  <2>3. ASSUME NEW f \in 1..Len(t), f \in Starts(t), Free(t, f), f < k PROVE Holds(before, f)
    <3>1. f <= k - 1
      BY <2>3
    <3>. QED
      BY <2>1, <2>3, <3>1
  <2>4. g[k] = Found(t, before, k)
    BY <1>3
  <2>. HIDE DEF before
  <2>5. Found(t, before, k) \in Seq(MatchesOf(Len(t))) /\ Apart(Found(t, before, k), k)
    BY <2>2, FoundTyped, FoundApart
  <2>6. /\ AllPicked(t, Found(t, before, k))
        /\ \A f \in 1..Len(t) : f \in Starts(t) /\ Free(t, f) /\ (f < k => Holds(before, f))
              => (f <= k => Holds(Found(t, before, k), f))
    BY <2>2, FoundPicked
  <2>7. Fine(k)
    BY <2>3, <2>4, <2>5, <2>6
  <2>. HIDE DEF Fine
  <2>. QED
    BY <2>1, <2>7
<1>6. Len(t) \in Good
  <2>1. Len(t) \in 0..Len(t)
    BY <1>2
  <2>. HIDE DEF Good
  <2>. QED
    BY <1>2, <1>4, <1>5, <2>1, UpTo
<1>7. \A f \in 1..Len(t) : f <= Len(t)
  BY <1>2
<1>. QED
  BY <1>1, <1>6, <1>7

LEMMA ApartOrder ==
    ASSUME NEW n \in Nat, NEW ms \in Seq(MatchesOf(n)), Apart(ms, n)
    PROVE  \A k \in 1..Len(ms) : \A j \in 1..k - 1 : ms[j].to < ms[k].from
<1>1. Len(ms) \in Nat /\ \A k \in 1..Len(ms) : ms[k].from \in Nat /\ ms[k].to \in Nat
  <2>1. Len(ms) \in Nat /\ \A k \in 1..Len(ms) : ms[k] \in MatchesOf(n)
    BY LenProperties, ElementOfSeq
  <2>. QED
    BY <2>1 DEF MatchesOf
<1>. DEFINE Good == {k \in 0..Len(ms) : \A j \in 1..k - 1 : ms[j].to < ms[k].from}
<1>2. 0 \in Good
  BY <1>1
<1>3. ASSUME NEW k \in 1..Len(ms), k - 1 \in Good PROVE k \in Good
  <2>1. ASSUME NEW j \in 1..k - 1 PROVE ms[j].to < ms[k].from
    <3>1. k \in 2..Len(ms) /\ k - 1 \in 1..Len(ms) /\ j \in 1..Len(ms)
      BY <1>1, <2>1
    <3>2. ms[k - 1].to < ms[k].from /\ ms[k - 1].from <= ms[k - 1].to
      BY <3>1 DEF Apart
    <3>3. CASE j = k - 1
      BY <3>2, <3>3
    <3>4. CASE j # k - 1
      <4>1. j \in 1..(k - 1) - 1
        BY <3>4
      <4>2. ms[j].to < ms[k - 1].from
        BY <1>3, <4>1
      <4>. QED
        BY <1>1, <3>1, <3>2, <4>2
    <3>. QED
      BY <3>3, <3>4
  <2>. QED
    BY <1>1, <2>1
<1>. HIDE DEF Good
<1>4. \A k \in 0..Len(ms) : k \in Good
  BY <1>1, <1>2, <1>3, UpTo
<1>. QED
  BY <1>4 DEF Good

-----------------------------------------------------------------------------
(* The matches of a part, told by the places of the text.                  *)

EndsAt(x, y, lo, hi) ==
    y \in EmailEnds(text, x) \/ SsnTo(x, y, lo, hi) \/ CardTo(x, y, lo, hi)

\* From x to y is the match that begins at x.
Is(kind, x, y, lo, hi) ==
    \/ /\ kind = "email" /\ y \in EmailEnds(text, x)
       /\ \A z \in x..hi : z \in EmailEnds(text, x) => z <= y
    \/ /\ kind = "ssn" /\ SsnTo(x, y, lo, hi)
       /\ \A z \in x..hi : z \notin EmailEnds(text, x)
    \/ /\ kind = "card" /\ CardTo(x, y, lo, hi)
       /\ \A z \in x..hi : /\ z \notin EmailEnds(text, x) /\ ~SsnTo(x, z, lo, hi)
                           /\ CardTo(x, z, lo, hi) => z <= y

LEMMA StartsInPart ==
    ASSUME text \in Seq(Characters), NEW lo \in Nat, NEW hi \in lo..Len(text), NEW t, Part(t, lo, hi),
           NEW x \in lo + 1..hi
    PROVE  /\ x - lo \in Starts(t) <=> \E y \in x..hi : EndsAt(x, y, lo, hi)
           /\ x - lo \in Starts(t) =>
                 /\ MatchAt(t, x - lo).from = x - lo /\ MatchAt(t, x - lo).to + lo \in x..hi
                 /\ Is(MatchAt(t, x - lo).kind, x, MatchAt(t, x - lo).to + lo, lo, hi)
<1>. DEFINE i == x - lo
            m == MatchAt(t, i)
<1>1. /\ Len(text) \in Nat /\ hi \in Nat /\ t \in Seq(Characters) /\ Len(t) = hi - lo
      /\ i \in 1..Len(t) /\ DOMAIN t = 1..Len(t)
  <2>1. Len(text) \in Nat /\ t \in Seq(Characters) /\ Len(t) = hi - lo /\ DOMAIN t = 1..Len(t)
    BY LenProperties DEF Part
  <2>. QED
    BY <2>1
<1>2. ASSUME NEW y \in x..hi
      PROVE  /\ y - lo \in EmailEnds(t, i) <=> y \in EmailEnds(text, x)
             /\ y - lo \in SsnEnds(t, i) <=> SsnTo(x, y, lo, hi)
             /\ y - lo \in CardEnds(t, i) <=> CardTo(x, y, lo, hi)
  BY <1>1, EmailInPart, SsnEndsInPart, CardEndsInPart
<1>3. /\ EmailEnds(t, i) \subseteq i..Len(t) /\ SsnEnds(t, i) \subseteq i..Len(t)
      /\ CardEnds(t, i) \subseteq i..Len(t)
  BY <1>1, EndsInside
<1>4. /\ \A j \in i..Len(t) : j + lo \in x..hi /\ (j + lo) - lo = j
      /\ \A y \in x..hi : y - lo \in i..Len(t)
  BY <1>1
<1>5. i \in Starts(t) <=> \E j \in i..Len(t) : j \in EmailEnds(t, i) \cup SsnEnds(t, i) \cup CardEnds(t, i)
  <2>. HIDE DEF i
  <2>. QED
    BY <1>1, <1>3 DEF Starts
<1>6. i \in Starts(t) <=> \E y \in x..hi : EndsAt(x, y, lo, hi)
  <2>1. ASSUME NEW j \in i..Len(t), j \in EmailEnds(t, i) \cup SsnEnds(t, i) \cup CardEnds(t, i)
        PROVE  \E y \in x..hi : EndsAt(x, y, lo, hi)
    <3>. DEFINE y == j + lo
    <3>1. y \in x..hi /\ y - lo = j
      BY <1>4
    <3>. HIDE DEF y, i
    <3>2. EndsAt(x, y, lo, hi)
      BY <1>2, <2>1, <3>1 DEF EndsAt
    <3>. QED
      BY <3>1, <3>2
  <2>2. ASSUME NEW y \in x..hi, EndsAt(x, y, lo, hi)
        PROVE  y - lo \in i..Len(t) /\ y - lo \in EmailEnds(t, i) \cup SsnEnds(t, i) \cup CardEnds(t, i)
    <3>. HIDE DEF i
    <3>. QED
      BY <1>2, <1>4, <2>2 DEF EndsAt
  <2>. QED
    BY <1>5, <2>1, <2>2
<1>7. ASSUME i \in Starts(t)
      PROVE  m.from = i /\ m.to + lo \in x..hi /\ Is(m.kind, x, m.to + lo, lo, hi)
  <2>1. m.from = i /\ m.to \in i..Len(t) /\ Picked(t, i, m)
    BY <1>1, <1>7, MatchInside, MatchPicked
  <2>. DEFINE y == m.to + lo
  <2>2. y \in x..hi /\ y - lo = m.to /\ m.to \in Int
    BY <1>1, <1>4, <2>1
  <2>3. \A z \in x..hi : z - lo <= m.to <=> z <= y
    BY <2>2
  <2>. HIDE DEF m, y
  <2>4. CASE m.kind = "email" /\ m.to \in EmailEnds(t, i) /\ \A j \in EmailEnds(t, i) : j <= m.to
    <3>1. y \in EmailEnds(text, x)
      BY <1>2, <2>2, <2>4
    <3>2. \A z \in x..hi : z \in EmailEnds(text, x) => z <= y
      BY <1>2, <2>3, <2>4
    <3>. QED
      BY <2>1, <2>2, <2>4, <3>1, <3>2 DEF Is, y
  <2>5. CASE m.kind = "ssn" /\ EmailEnds(t, i) = {} /\ m.to \in SsnEnds(t, i)
    <3>1. SsnTo(x, y, lo, hi)
      BY <1>2, <2>2, <2>5
    <3>2. \A z \in x..hi : z \notin EmailEnds(text, x)
      BY <1>2, <2>5
    <3>. QED
      BY <2>1, <2>2, <2>5, <3>1, <3>2 DEF Is, y
  <2>6. CASE /\ m.kind = "card" /\ EmailEnds(t, i) = {} /\ SsnEnds(t, i) = {}
             /\ m.to \in CardEnds(t, i) /\ \A j \in CardEnds(t, i) : j <= m.to
    <3>1. CardTo(x, y, lo, hi)
      BY <1>2, <2>2, <2>6
    <3>2. \A z \in x..hi : /\ z \notin EmailEnds(text, x) /\ ~SsnTo(x, z, lo, hi)
                           /\ CardTo(x, z, lo, hi) => z <= y
      BY <1>2, <2>3, <2>6
    <3>. QED
      BY <2>1, <2>2, <2>6, <3>1, <3>2 DEF Is, y
  <2>. QED
    BY <2>1, <2>4, <2>5, <2>6 DEF Picked
<1>. QED
  BY <1>6, <1>7

LEMMA DigitsInPart ==
    ASSUME text \in Seq(Characters), NEW lo \in Nat, NEW hi \in lo..Len(text), NEW t, Part(t, lo, hi),
           NEW x \in lo + 1..hi, NEW y \in x..hi
    PROVE  DigitsOf(t, x - lo, y - lo) = DigitsOf(text, x, y)
<1>. DEFINE i == x - lo
            j == y - lo
            one == SubSeq(t, i, j)
            two == SubSeq(text, x, y)
<1>1. /\ Len(text) \in Nat /\ hi \in Nat /\ t \in Seq(Characters) /\ Len(t) = hi - lo
      /\ i \in 1..Len(t) /\ j \in i..Len(t) /\ x \in Int /\ y \in Int /\ i \in Int /\ j \in Int
  <2>1. Len(text) \in Nat /\ t \in Seq(Characters) /\ Len(t) = hi - lo
    BY LenProperties DEF Part
  <2>. QED
    BY <2>1
<1>2. /\ one \in Seq(Characters) /\ Len(one) = IF i <= j THEN j - i + 1 ELSE 0
      /\ \A k \in 1..j - i + 1 : one[k] = t[i + k - 1]
  <2>1. \A k \in i..j : t[k] \in Characters
    <3>1. \A k \in i..j : k \in 1..Len(t)
      BY <1>1
    <3>. HIDE DEF i, j
    <3>. QED
      BY <1>1, <3>1, ElementOfSeq
  <2>2. i \in Int /\ j \in Int /\ t \in Seq(Characters)
    BY <1>1
  <2>. HIDE DEF i, j
  <2>. QED
    BY <2>1, <2>2, SubSeqProperties
<1>3. /\ two \in Seq(Characters) /\ Len(two) = IF x <= y THEN y - x + 1 ELSE 0
      /\ \A k \in 1..y - x + 1 : two[k] = text[x + k - 1]
  <2>1. \A k \in x..y : text[k] \in Characters
    <3>1. \A k \in x..y : k \in 1..Len(text)
      BY <1>1
    <3>. QED
      BY <3>1, ElementOfSeq
  <2>. QED
    BY <1>1, <2>1, SubSeqProperties
<1>4. i <= j /\ x <= y /\ j - i + 1 = y - x + 1
  BY <1>1
<1>. HIDE DEF one, two
<1>5. ASSUME NEW k \in 1..y - x + 1 PROVE one[k] = two[k]
  <2>1. i + k - 1 = (x + k - 1) - lo /\ x + k - 1 \in lo + 1..hi
    BY <1>1
  <2>2. t[(x + k - 1) - lo] = text[x + k - 1]
    <3>1. hi \in Nat
      BY <1>1
    <3>. HIDE DEF i, j
    <3>2. \A z \in lo + 1..hi : z - lo \in 1..Len(t) /\ t[z - lo] = text[z]
      BY <3>1, PlaceIn, Zenon
    <3>. QED
      BY <2>1, <3>2
  <2>. HIDE DEF i, j
  <2>. QED
    BY <1>2, <1>3, <1>4, <2>1, <2>2
<1>6. one = two
  <2>. HIDE DEF i, j
  <2>1. Len(one) = Len(two) /\ Len(one) = y - x + 1
    BY <1>2, <1>3, <1>4
  <2>. QED
    BY <1>2, <1>3, <1>5, <2>1, SeqEqual
<1>. QED
  BY <1>6, Zenon DEF DigitsOf, one, two

-----------------------------------------------------------------------------
(* A match of the whole text that stands alone and fits the window.        *)

Guarded(m) == m \in Redacted /\ m.to - m.from < Window /\ Alone(m) /\ Plain(m)

Clean(x) == x = 1 \/ text[x - 1] \notin Digit \cup {"-"}

LEMMA RedactedIs ==
    ASSUME text \in Seq(Characters), NEW m \in Redacted
    PROVE  /\ m.from \in 1..Len(text) /\ m.to \in m.from..Len(text) /\ should_redact(text, m)
           /\ Is(m.kind, m.from, m.to, 0, Len(text))
<1>. DEFINE n == Len(text)
            ms == Matches(text)
<1>1. PICK k \in DOMAIN ms : m = ms[k] /\ should_redact(text, m)
  BY DEF Redacted
<1>2. ms \in Seq(MatchesOf(n)) /\ AllPicked(text, ms)
  BY MatchesApart, MatchesPicked
<1>3. k \in 1..Len(ms)
  BY <1>1, <1>2, LenProperties
<1>4. m \in MatchesOf(n) /\ m.from \in Starts(text) /\ m = MatchAt(text, m.from)
  BY <1>1, <1>2, <1>3, ElementOfSeq DEF AllPicked
<1>5. n \in Nat /\ m.from \in 1..n /\ m.to \in 1..n
  BY <1>4, LenProperties DEF MatchesOf
<1>. HIDE DEF n, ms
<1>6. /\ 0 \in Nat /\ n \in 0..Len(text) /\ Part(text, 0, n) /\ m.from \in 0 + 1..n
      /\ m.from - 0 = m.from /\ m.to + 0 = m.to
  BY <1>5, TextIsPart DEF n
<1>7. /\ MatchAt(text, m.from - 0).to + 0 \in m.from..n
      /\ Is(MatchAt(text, m.from - 0).kind, m.from, MatchAt(text, m.from - 0).to + 0, 0, n)
  <2>1. m.from - 0 \in Starts(text)
    BY <1>4, <1>6
  <2>. QED
    BY <1>6, <2>1, StartsInPart
<1>8. m.to \in m.from..n /\ Is(m.kind, m.from, m.to, 0, n)
  BY <1>4, <1>6, <1>7
<1>. QED
  BY <1>1, <1>5, <1>8 DEF n

\* Its characters: an address has one @, a number is digits and separators.
LEMMA IsMade ==
    ASSUME text \in Seq(Characters), NEW lo \in Nat, NEW hi \in lo..Len(text), NEW kind,
           NEW x \in lo + 1..hi, NEW y \in x..hi, Is(kind, x, y, lo, hi)
    PROVE  /\ text[x] \in Local
           /\ kind = "email" => \E at \in x + 1..y : \E dot \in Int : Address(text, x, y, at, dot)
           /\ kind # "email" => Grouped(text, x, y)
           /\ kind = "ssn" => Count(x, y) < CardMin
           /\ kind = "card" => Count(x, y) \in CardMin..CardMax /\ text[y] \in Digit
<1>1. Len(text) \in Nat /\ x \in Nat /\ y \in Int /\ y \in Nat
  <2>1. Len(text) \in Nat
    BY LenProperties
  <2>. QED
    BY <2>1
<1>2. CASE kind = "email" /\ y \in EmailEnds(text, x)
  <2>1. PICK at \in Int, dot \in Int : Address(text, x, y, at, dot)
    BY <1>1, <1>2, AddressEnds
  <2>2. x < at /\ at + 1 < dot /\ dot + TldMin <= y /\ TldMin \in Nat
    BY <2>1, Sizes DEF Address
  <2>3. at \in x + 1..y /\ x \in x..at - 1
    BY <1>1, <2>2
  <2>4. text[x] \in Local
    BY <2>1, <2>3 DEF Address, AllIn
  <2>. QED
    BY <1>2, <2>1, <2>3, <2>4
<1>3. CASE kind = "ssn" /\ SsnTo(x, y, lo, hi)
  <2>1. Grouped(text, x, y) /\ Count(x, y) < CardMin
    BY <1>1, <1>3, SsnGrouped, SsnFew DEF SsnTo
  <2>2. text[x] \in Local
    BY <2>1, Alphabet DEF Grouped
  <2>. QED
    BY <1>3, <2>1, <2>2
<1>4. CASE kind = "card" /\ CardTo(x, y, lo, hi)
  <2>1. text[x] \in Local
    BY <1>4, Alphabet DEF CardTo, Grouped
  <2>. QED
    BY <1>4, <2>1 DEF CardTo
<1>. QED
  BY <1>2, <1>3, <1>4 DEF Is

\* What is before it does not belong to a number.
LEMMA GuardedClean ==
    ASSUME text \in Seq(Characters), NEW m, Guarded(m)
    PROVE  Clean(m.from)
<1>. DEFINE a == m.from
            t == SubSeq(text, 1, a)
<1>1. Len(text) \in Nat /\ a \in 1..Len(text) /\ text[a] \in Local
  <2>1. /\ Len(text) \in Nat /\ a \in 1..Len(text) /\ m.to \in a..Len(text)
        /\ Is(m.kind, a, m.to, 0, Len(text))
    BY RedactedIs, LenProperties DEF Guarded
  <2>. HIDE DEF a
  <2>2. 0 \in Nat /\ Len(text) \in 0..Len(text) /\ a \in 0 + 1..Len(text)
    BY <2>1
  <2>3. text[a] \in Local
    BY <2>1, <2>2, IsMade
  <2>. QED
    BY <2>1, <2>3
<1>2. Part(t, 0, a) /\ \A i \in 1..a - 1 : ~Partial(t, i)
  <2>1. a \in 0..Len(text)
    <3>. HIDE DEF a
    <3>. QED
      BY <1>1
  <2>2. Part(t, 0, a)
    BY <2>1, PrefixIsPart
  <2>. QED
    BY <2>2 DEF Guarded, Alone
<1>. HIDE DEF a, t
<1>3. SUFFICES ASSUME a # 1, text[a - 1] \in Digit \cup {"-"} PROVE FALSE
  BY DEF Clean, a
<1>4. a \in Nat /\ a - 1 \in 1..a - 1 /\ a - 1 \in Int /\ a \in Int /\ 0 < a - 1 /\ a <= a
      /\ (a - 1) - 0 = a - 1 /\ a - 0 = a /\ a \in a - 1..a
  BY <1>1, <1>3
<1>5. AllIn(text, a - 1, a, Local)
  <2>1. \A k \in a - 1..a : k = a - 1 \/ k = a
    BY <1>4
  <2>. QED
    BY <1>1, <1>3, <2>1, Alphabet DEF AllIn
<1>6. AllIn(t, (a - 1) - 0, a - 0, Local)
  <2>1. 0 \in Nat
    OBVIOUS
  <2>. QED
    BY <1>2, <1>4, <1>5, <2>1, AllInPart
<1>7. AllIn(t, a - 1, a, Local) /\ Len(t) = a
  BY <1>2, <1>4, <1>6 DEF Part
<1>8. Partial(t, a - 1)
  BY <1>4, <1>7 DEF Partial
<1>. QED
  BY <1>2, <1>4, <1>8

LEMMA EndsBeside ==
    ASSUME NEW S \in SUBSET (Digit \cup {"-"}), NEW lo \in Nat, NEW n \in Nat, NEW hi \in lo..n,
           NEW x \in lo + 1..hi, NEW y \in x..hi
    PROVE  /\ Beside(x, y, 0, n, S) => Beside(x, y, lo, hi, S)
           /\ (Clean(x) \/ x > lo + 1) /\ (y < hi \/ hi = n) /\ Beside(x, y, lo, hi, S)
                 => Beside(x, y, 0, n, S)
<1>1. ASSUME Beside(x, y, 0, n, S) PROVE Beside(x, y, lo, hi, S)
  <2>1. /\ x = 1 => x = lo + 1
        /\ y = n => y = hi
    OBVIOUS
  <2>. QED
    BY <1>1, <2>1 DEF Beside
<1>2. ASSUME Clean(x) \/ x > lo + 1, y < hi \/ hi = n, Beside(x, y, lo, hi, S)
      PROVE  Beside(x, y, 0, n, S)
  <2>1. x = 0 + 1 \/ text[x - 1] \notin S
    BY <1>2 DEF Clean, Beside
  <2>2. y = n \/ text[y + 1] \notin S
    BY <1>2 DEF Beside
  <2>. QED
    BY <2>1, <2>2 DEF Beside
<1>. QED
  BY <1>1, <1>2

\* A number of the text is one of a part that holds it, and a number of a part is one of
\* the text where the part's ends are not the number's.
LEMMA EndsBetween ==
    ASSUME NEW lo \in Nat, NEW n \in Nat, NEW hi \in lo..n, NEW x \in lo + 1..hi, NEW y \in x..hi
    PROVE  /\ SsnTo(x, y, 0, n) => SsnTo(x, y, lo, hi)
           /\ CardTo(x, y, 0, n) => CardTo(x, y, lo, hi)
           /\ (Clean(x) \/ x > lo + 1) /\ (y < hi \/ hi = n) =>
                 /\ SsnTo(x, y, lo, hi) => SsnTo(x, y, 0, n)
                 /\ CardTo(x, y, lo, hi) => CardTo(x, y, 0, n)
<1>1. Digit \in SUBSET (Digit \cup {"-"}) /\ Digit \cup {"-"} \in SUBSET (Digit \cup {"-"})
  OBVIOUS
<1>2. \A S \in SUBSET (Digit \cup {"-"}) :
         /\ Beside(x, y, 0, n, S) => Beside(x, y, lo, hi, S)
         /\ (Clean(x) \/ x > lo + 1) /\ (y < hi \/ hi = n) /\ Beside(x, y, lo, hi, S)
               => Beside(x, y, 0, n, S)
  BY EndsBeside
<1>. QED
  BY <1>1, <1>2 DEF SsnTo, CardTo

\* No match of a part begins before it and reaches it.
LEMMA NoneBefore ==
    ASSUME text \in Seq(Characters), NEW m, Guarded(m), NEW lo \in Nat, NEW hi \in lo..Len(text),
           NEW kind, NEW x \in lo + 1..hi, NEW y \in x..hi, Is(kind, x, y, lo, hi), x < m.from
    PROVE  y < m.from
<1>. DEFINE a == m.from
            t == SubSeq(text, 1, a)
<1>1. Len(text) \in Nat /\ a \in 1..Len(text)
  BY RedactedIs, LenProperties DEF Guarded
<1>2. SUFFICES ASSUME a <= y PROVE FALSE
  <2>. HIDE DEF a
  <2>1. a <= y \/ y < a
    BY <1>1
  <2>. QED
    BY <1>2, <2>1 DEF a
<1>3. Part(t, 0, a) /\ \A i \in 1..a - 1 : ~Partial(t, i)
  <2>1. a \in 0..Len(text)
    <3>. HIDE DEF a
    <3>. QED
      BY <1>1
  <2>2. Part(t, 0, a)
    BY <2>1, PrefixIsPart
  <2>. QED
    BY <2>2 DEF Guarded, Alone
<1>4. x < a
  OBVIOUS
<1>. HIDE DEF a, t
<1>5. /\ 0 \in Nat /\ a \in Nat /\ a \in 0..Len(text) /\ x \in 0 + 1..a /\ y \in Nat /\ a <= y
      /\ x - 0 = x /\ x \in 1..a - 1
  BY <1>1, <1>2, <1>4
<1>6. Partial(t, x - 0)
  <2>1. CASE kind = "email"
    <3>1. y \in EmailEnds(text, x)
      BY <2>1 DEF Is
    <3>. QED
      BY <1>3, <1>5, <3>1, EmailPartial
  <2>2. CASE kind # "email"
    <3>1. Grouped(text, x, y)
      BY <2>2, IsMade
    <3>. QED
      BY <1>3, <1>5, <3>1, GroupedPartial
  <2>. QED
    BY <2>1, <2>2
<1>. QED
  BY <1>3, <1>5, <1>6

\* A part that holds the match whole has one of its kind there, the same but where the
\* part's end makes more digits a card.
LEMMA WholeInside ==
    ASSUME text \in Seq(Characters), NEW m, Guarded(m), NEW lo \in Nat, NEW hi \in lo..Len(text),
           lo < m.from, m.to <= hi
    PROVE  /\ EndsAt(m.from, m.to, lo, hi)
           /\ \A kind : \A y \in m.from..hi : Is(kind, m.from, y, lo, hi) =>
                 /\ kind = m.kind /\ m.to <= y
                 /\ y = m.to \/ (kind = "card" /\ y = hi /\ hi < Len(text))
<1>. DEFINE a == m.from
            b == m.to
            n == Len(text)
<1>1. n \in Nat /\ a \in 1..n /\ b \in a..n /\ Is(m.kind, a, b, 0, n) /\ Clean(a)
  BY RedactedIs, GuardedClean, LenProperties DEF Guarded
<1>2. lo < a /\ b <= hi
  OBVIOUS
<1>3. hi \in lo..n
  OBVIOUS
<1>. HIDE DEF a, b, n
<1>4. /\ a \in lo + 1..hi /\ b \in a..hi /\ b \in Nat /\ hi \in Nat /\ n \in 0..n
      /\ \A y \in a..hi : y \in a..n /\ (y < hi \/ hi = n \/ (y = hi /\ hi < n))
  BY <1>1, <1>2, <1>3
<1>5. ASSUME NEW y \in a..hi
      PROVE  /\ SsnTo(a, y, 0, n) => SsnTo(a, y, lo, hi)
             /\ CardTo(a, y, 0, n) => CardTo(a, y, lo, hi)
             /\ y < hi \/ hi = n =>
                   /\ SsnTo(a, y, lo, hi) => SsnTo(a, y, 0, n)
                   /\ CardTo(a, y, lo, hi) => CardTo(a, y, 0, n)
  BY <1>1, <1>3, <1>4, EndsBetween
<1>6. CASE m.kind = "email"
  <2>1. b \in EmailEnds(text, a) /\ \A z \in a..n : z \in EmailEnds(text, a) => z <= b
    BY <1>1, <1>6 DEF Is
  <2>2. ASSUME NEW kind, NEW y \in a..hi, Is(kind, a, y, lo, hi)
        PROVE  kind = "email" /\ y = b
    <3>1. kind = "email" /\ y \in EmailEnds(text, a) /\ b <= y
      BY <1>4, <2>1, <2>2 DEF Is
    <3>2. y <= b
      BY <1>4, <2>1, <3>1
    <3>. QED
      BY <1>4, <3>1, <3>2
  <2>3. EndsAt(a, b, lo, hi)
    BY <2>1 DEF EndsAt
  <2>. QED
    BY <1>4, <1>6, <2>2, <2>3 DEF a, b
<1>7. CASE m.kind = "ssn"
  <2>1. SsnTo(a, b, 0, n) /\ \A z \in a..n : z \notin EmailEnds(text, a)
    BY <1>1, <1>7 DEF Is
  <2>2. SsnTo(a, b, lo, hi)
    BY <1>4, <1>5, <2>1
  <2>3. ASSUME NEW kind, NEW y \in a..hi, Is(kind, a, y, lo, hi)
        PROVE  kind = "ssn" /\ y = b
    <3>1. kind = "ssn" /\ SsnTo(a, y, lo, hi)
      BY <1>4, <2>1, <2>2, <2>3 DEF Is
    <3>. QED
      BY <2>1, <3>1 DEF SsnTo
  <2>4. EndsAt(a, b, lo, hi)
    BY <2>2 DEF EndsAt
  <2>. QED
    BY <1>4, <1>7, <2>3, <2>4 DEF a, b
<1>8. CASE m.kind = "card"
  <2>1. /\ CardTo(a, b, 0, n)
        /\ \A z \in a..n : /\ z \notin EmailEnds(text, a) /\ ~SsnTo(a, z, 0, n)
                           /\ CardTo(a, z, 0, n) => z <= b
    BY <1>1, <1>8 DEF Is
  <2>2. CardTo(a, b, lo, hi) /\ Count(a, b) >= CardMin /\ Count(a, b) \in Nat
    <3>1. Count(a, b) \in CardMin..CardMax
      BY <2>1 DEF CardTo
    <3>2. CardTo(a, b, lo, hi)
      BY <1>4, <1>5, <2>1
    <3>. QED
      BY <3>1, <3>2, Sizes
  <2>3. ASSUME NEW y \in a..hi PROVE ~SsnTo(a, y, lo, hi)
    <3>1. SUFFICES ASSUME SsnTo(a, y, lo, hi) PROVE FALSE
      OBVIOUS
    <3>2. CASE y < hi \/ hi = n
      BY <1>4, <1>5, <2>1, <3>1, <3>2
    <3>3. CASE ~(y < hi \/ hi = n)
      <4>1. y = hi /\ b <= y /\ a \in Nat /\ a \in Int /\ y \in Int /\ b \in Int /\ a <= a
        BY <1>1, <1>4, <3>3
      <4>2. Count(a, y) < CardMin
        BY <3>1, <4>1, SsnFew DEF SsnTo
      <4>3. Count(a, b) <= Count(a, y) /\ Count(a, y) \in Nat
        BY <4>1, CountWithin
      <4>. QED
        BY <2>2, <4>2, <4>3, Sizes
    <3>. QED
      BY <3>2, <3>3
  <2>4. ASSUME NEW kind, NEW y \in a..hi, Is(kind, a, y, lo, hi)
        PROVE  kind = "card" /\ b <= y /\ (y = b \/ (y = hi /\ hi < n))
    <3>1. kind = "card" /\ CardTo(a, y, lo, hi) /\ b <= y
      BY <1>4, <2>1, <2>2, <2>3, <2>4 DEF Is
    <3>2. CASE y < hi \/ hi = n
      <4>1. y <= b
        BY <1>4, <1>5, <2>1, <3>1, <3>2
      <4>. QED
        BY <1>4, <3>1, <4>1
    <3>3. CASE ~(y < hi \/ hi = n)
      BY <1>4, <3>1, <3>3
    <3>. QED
      BY <3>2, <3>3
  <2>5. EndsAt(a, b, lo, hi)
    BY <2>2 DEF EndsAt
  <2>. QED
    BY <1>4, <1>8, <2>4, <2>5 DEF a, b, n
<1>. QED
  BY <1>1, <1>6, <1>7, <1>8 DEF Is

LEMMA PlainEnds ==
    ASSUME text \in Seq(Characters), NEW m, Guarded(m),
           NEW x \in m.from..m.to, NEW y \in x..Len(text)
    PROVE  /\ SsnTo(x, y, 0, Len(text)) => m.kind = "ssn"
           /\ CardTo(x, y, 0, Len(text)) => m.kind \in {"ssn", "card"}
<1>1. /\ Len(text) \in Nat /\ m.from \in 1..Len(text) /\ m.to \in m.from..Len(text)
      /\ Is(m.kind, m.from, m.to, 0, Len(text))
  BY RedactedIs, LenProperties DEF Guarded
<1>2. m.kind \in {"email", "ssn", "card"}
  BY <1>1 DEF Is
<1>3. /\ 0 \in Nat /\ Part(text, 0, Len(text)) /\ x \in 0 + 1..Len(text) /\ x - 0 = x /\ y - 0 = y
  BY <1>1, TextIsPart
<1>4. y \in SsnEnds(text, x) <=> SsnTo(x, y, 0, Len(text))
  <2>1. y - 0 \in SsnEnds(text, x - 0) <=> SsnTo(x, y, 0, Len(text))
    BY <1>1, <1>3, SsnEndsInPart
  <2>. QED
    BY <1>3, <2>1
<1>5. y \in CardEnds(text, x) <=> CardTo(x, y, 0, Len(text))
  <2>1. y - 0 \in CardEnds(text, x - 0) <=> CardTo(x, y, 0, Len(text))
    BY <1>1, <1>3, CardEndsInPart
  <2>. QED
    BY <1>3, <2>1
<1>6. /\ m.kind \in {"email", "card"} => SsnEnds(text, x) = {}
      /\ m.kind = "email" => CardEnds(text, x) = {}
  BY DEF Guarded, Plain
<1>. QED
  BY <1>2, <1>4, <1>5, <1>6

\* Where a match of a part begins at the same place, it holds the secret characters.
LEMMA SecretInside ==
    ASSUME text \in Seq(Characters), NEW m, Guarded(m), NEW lo \in Nat, NEW hi \in lo..Len(text),
           NEW kind, lo < m.from, NEW y \in m.from..hi, Is(kind, m.from, y, lo, hi),
           y < hi \/ hi = Len(text)
    PROVE  \A p \in Secret(m) : p <= y
<1>. DEFINE a == m.from
            b == m.to
            n == Len(text)
<1>1. n \in Nat /\ a \in 1..n /\ b \in a..n /\ Is(m.kind, a, b, 0, n) /\ Clean(a)
  BY RedactedIs, GuardedClean, LenProperties DEF Guarded
<1>2. lo < a /\ hi \in lo..n /\ y \in a..hi /\ Is(kind, a, y, lo, hi) /\ (y < hi \/ hi = n)
  OBVIOUS
<1>3. \A p \in Secret(m) :
         /\ p \in a..b
         /\ m.kind = "email" => \A q \in a..p : text[q] # "@"
         /\ m.kind = "card" => text[p] \in Digit /\ Count(a, p) <= CardMin
  BY DEF Secret, Count
<1>4. b <= hi => b <= y
  BY WholeInside
<1>5. \A x \in a..b : \A z \in x..n : /\ SsnTo(x, z, 0, n) => m.kind = "ssn"
                                      /\ CardTo(x, z, 0, n) => m.kind \in {"ssn", "card"}
  BY PlainEnds
<1>. HIDE DEF a, b, n
<1>6. /\ a \in Nat /\ b \in Nat /\ y \in Nat /\ hi \in Nat /\ a \in lo + 1..hi /\ a \in a..b /\ y \in a..n
      /\ 0 \in Nat /\ n \in 0..n /\ a \in 0 + 1..n /\ a <= a
  BY <1>1, <1>2
<1>7. CASE b <= y
  BY <1>1, <1>3, <1>6, <1>7
<1>8. CASE y < b
  <2>1. y < hi
    BY <1>1, <1>2, <1>4, <1>6, <1>8
  <2>2. /\ SsnTo(a, y, lo, hi) => SsnTo(a, y, 0, n)
        /\ CardTo(a, y, lo, hi) => CardTo(a, y, 0, n)
    BY <1>1, <1>2, <1>6, EndsBetween
  <2>3. CASE kind = "email"
    <3>1. y \in EmailEnds(text, a)
      BY <1>2, <2>3 DEF Is
    <3>2. m.kind = "email"
      BY <1>1, <1>6, <3>1 DEF Is
    <3>3. PICK at \in a + 1..y : text[at] = "@"
      <4>1. \E at \in a + 1..y : \E dot \in Int : Address(text, a, y, at, dot)
        BY <1>2, <1>6, <2>3, IsMade DEF n
      <4>. QED
        BY <4>1 DEF Address
    <3>4. ASSUME NEW p \in Secret(m), ~(p <= y) PROVE FALSE
      <4>1. p \in a..b /\ \A q \in a..p : text[q] # "@"
        BY <1>3, <3>2
      <4>2. at \in a..p
        BY <1>6, <3>4, <4>1
      <4>. QED
        BY <3>3, <4>1, <4>2
    <3>. QED
      BY <3>4
  <2>4. CASE kind = "ssn"
    <3>1. SsnTo(a, y, 0, n)
      BY <1>2, <2>2, <2>4 DEF Is
    <3>2. m.kind = "ssn"
      BY <1>5, <1>6, <3>1
    <3>3. y = b
      BY <1>1, <3>1, <3>2 DEF Is, SsnTo
    <3>. QED
      BY <1>6, <1>8, <3>3
  <2>5. CASE kind = "card"
    <3>1. CardTo(a, y, 0, n)
      BY <1>2, <2>2, <2>5 DEF Is
    <3>2. m.kind \in {"ssn", "card"}
      BY <1>5, <1>6, <3>1
    <3>3. Count(a, y) >= CardMin /\ Count(a, y) \in Nat
      <4>1. Count(a, y) \in CardMin..CardMax
        BY <3>1 DEF CardTo
      <4>. QED
        BY <4>1, Sizes
    <3>4. m.kind = "card"
      <4>1. SUFFICES ASSUME m.kind = "ssn" PROVE FALSE
        BY <3>2
      <4>2. Count(a, b) < CardMin
        BY <1>1, <1>6, <4>1, IsMade DEF n
      <4>3. a \in Int /\ b \in Int /\ y \in Int /\ y <= b
        BY <1>6, <1>8
      <4>4. Count(a, y) <= Count(a, b) /\ Count(a, b) \in Nat
        BY <1>6, <4>3, CountWithin
      <4>. QED
        BY <3>3, <4>2, <4>4, Sizes
    <3>5. ASSUME NEW p \in Secret(m), ~(p <= y) PROVE FALSE
      <4>1. p \in a..b /\ text[p] \in Digit /\ Count(a, p) <= CardMin
        BY <1>3, <3>4
      <4>2. a \in Int /\ y \in Int /\ p \in Int /\ y <= p /\ p \in a..p /\ p \notin a..y
        BY <1>6, <3>5, <4>1
      <4>3. Count(a, y) + 1 <= Count(a, p)
        BY <1>6, <4>1, <4>2, CountMore
      <4>4. Count(a, p) \in Nat
        BY <4>2, PlacesFinite DEF Count
      <4>. QED
        BY <3>3, <4>1, <4>3, <4>4, Sizes
    <3>. QED
      BY <3>5
  <2>. QED
    BY <1>2, <2>3, <2>4, <2>5 DEF Is
<1>. QED
  BY <1>6, <1>7, <1>8

\* Where the part ends in it, what begins behind its first character and ends before the
\* part does is no match: the match that begins there is as long.
LEMMA NoneInside ==
    ASSUME text \in Seq(Characters), NEW m, Guarded(m), NEW lo \in Nat, NEW hi \in lo..Len(text),
           NEW kind, lo < m.from, hi < m.to, NEW x \in m.from + 1..hi, NEW y \in x..hi,
           Is(kind, x, y, lo, hi), y < hi
    PROVE  /\ EndsAt(m.from, y, lo, hi)
           /\ \A k : \A z \in m.from..hi : Is(k, m.from, z, lo, hi) => y <= z
<1>. DEFINE a == m.from
            b == m.to
            n == Len(text)
<1>1. n \in Nat /\ a \in 1..n /\ b \in a..n /\ Is(m.kind, a, b, 0, n) /\ Clean(a)
  BY RedactedIs, GuardedClean, LenProperties DEF Guarded
<1>2. lo < a /\ hi \in lo..n /\ hi < b /\ x \in a + 1..hi /\ y \in x..hi /\ Is(kind, x, y, lo, hi) /\ y < hi
  OBVIOUS
<1>5. \A i \in a..b : \A z \in i..n : /\ SsnTo(i, z, 0, n) => m.kind = "ssn"
                                      /\ CardTo(i, z, 0, n) => m.kind \in {"ssn", "card"}
  BY PlainEnds
<1>. HIDE DEF a, b, n
<1>6. /\ a \in Nat /\ b \in Nat /\ x \in Nat /\ y \in Nat /\ hi \in Nat /\ a \in lo + 1..hi /\ a \in a..b
      /\ x \in a..b /\ y \in x..n /\ y \in a..hi /\ y \in a..n /\ x \in lo + 1..hi /\ x > lo + 1 /\ y < b
      /\ 0 \in Nat /\ n \in 0..n /\ a \in 0 + 1..n /\ a <= a /\ a < x
      /\ a \in Int /\ b \in Int /\ x \in Int /\ y \in Int
      /\ a + 1 \in Int
  BY <1>1, <1>2
<1>7. /\ SsnTo(x, y, lo, hi) => SsnTo(x, y, 0, n)
      /\ CardTo(x, y, lo, hi) => CardTo(x, y, 0, n)
  BY <1>1, <1>2, <1>6, EndsBetween
<1>8. CASE kind = "email"
  <2>1. PICK at \in x + 1..y, dot \in Int : Address(text, x, y, at, dot)
    BY <1>2, <1>6, <1>8, IsMade DEF n
  <2>2. text[at] = "@" /\ at \in a..b /\ at \in a + 1..b /\ at \in Int
    BY <1>6, <2>1 DEF Address
  <2>3. m.kind = "email"
    <3>1. SUFFICES ASSUME m.kind # "email" PROVE FALSE
      OBVIOUS
    <3>2. Grouped(text, a, b)
      BY <1>1, <1>6, <3>1, IsMade DEF n
    <3>3. text[at] \in Digit \cup Separator
      BY <2>2, <3>2 DEF Grouped, AllIn
    <3>. QED
      BY <2>2, <3>3, Alphabet
  <2>4. PICK its \in a + 1..b, last \in Int : Address(text, a, b, its, last)
    BY <1>1, <1>6, <2>3, IsMade DEF n
  <2>5. \A k \in a..its - 1 : text[k] \in Local
    BY <2>4 DEF Address, AllIn
  <2>6. ~(its < at)
    <3>1. SUFFICES ASSUME its < at PROVE FALSE
      OBVIOUS
    <3>2. at \in its + 1..last - 1 \/ at = last \/ at \in last + 1..b
      BY <1>6, <2>2, <2>4, <3>1
    <3>3. text[at] \in Domain \/ text[at] = "." \/ text[at] \in Letters
      BY <2>4, <3>2 DEF Address, AllIn
    <3>. QED
      BY <2>2, <3>3, Alphabet
  <2>7. ~(at < its)
    <3>1. SUFFICES ASSUME at < its PROVE FALSE
      OBVIOUS
    <3>2. at \in a..its - 1
      BY <1>6, <2>2, <3>1
    <3>. QED
      BY <2>2, <2>5, <3>2, Alphabet
  <2>8. at = its
    BY <1>6, <2>2, <2>6, <2>7
  <2>9. Address(text, a, y, at, dot)
    <3>1. AllIn(text, a, at - 1, Local)
      BY <2>5, <2>8 DEF AllIn
    <3>2. a < at
      BY <1>6, <2>2
    <3>. QED
      BY <2>1, <3>1, <3>2 DEF Address
  <2>10. y \in EmailEnds(text, a)
    BY <1>1, <1>6, <2>2, <2>9, AddressEnds DEF n
  <2>. QED
    BY <1>6, <2>10 DEF Is, EndsAt, a
<1>9. CASE kind = "ssn"
  <2>1. SsnTo(x, y, 0, n)
    BY <1>2, <1>7, <1>9 DEF Is
  <2>2. m.kind = "ssn"
    BY <1>5, <1>6, <2>1
  <2>3. b = a + SsnLength - 1 /\ y = x + SsnLength - 1
    BY <1>1, <2>1, <2>2 DEF Is, SsnTo
  <2>4. SsnLength \in Nat
    BY SsnSizes
  <2>. QED
    BY <1>6, <2>3, <2>4
<1>10. CASE kind = "card"
  <2>1. CardTo(x, y, 0, n)
    BY <1>2, <1>7, <1>10 DEF Is
  <2>2. m.kind \in {"ssn", "card"}
    BY <1>5, <1>6, <2>1
  <2>3. Count(x, y) >= CardMin /\ Count(x, y) \in Nat /\ text[y] \in Digit
    <3>1. Count(x, y) \in CardMin..CardMax /\ text[y] \in Digit
      BY <2>1 DEF CardTo
    <3>. QED
      BY <3>1, Sizes
  <2>4. y <= b /\ a <= x /\ y <= y
    BY <1>6
  <2>5. m.kind = "card"
    <3>1. SUFFICES ASSUME m.kind = "ssn" PROVE FALSE
      BY <2>2
    <3>2. Count(a, b) < CardMin
      BY <1>1, <1>6, <3>1, IsMade DEF n
    <3>3. Count(x, y) <= Count(a, b) /\ Count(a, b) \in Nat
      BY <1>6, <2>4, CountWithin
    <3>. QED
      BY <2>3, <3>2, <3>3, Sizes
  <2>6. /\ CardTo(a, b, 0, n)
        /\ \A z \in a..n : z \notin EmailEnds(text, a) /\ ~SsnTo(a, z, 0, n)
    BY <1>1, <2>5 DEF Is
  <2>7. Grouped(text, a, b) /\ Count(a, b) \in CardMin..CardMax /\ text[a] \in Digit
        /\ Beside(a, b, 0, n, Digit \cup {"-"})
    BY <2>6 DEF CardTo, Grouped
  <2>8. Grouped(text, a, y)
    <3>1. y \in a..b
      BY <1>6
    <3>. QED
      BY <1>6, <2>7, <3>1, GroupedPrefix
  <2>9. Count(a, y) \in CardMin..CardMax
    <3>1. Count(x, y) <= Count(a, y) /\ Count(a, y) \in Nat /\ Count(a, y) <= Count(a, b)
      BY <1>6, <2>4, CountWithin
    <3>2. Count(a, b) <= CardMax
      BY <2>7, Sizes
    <3>. QED
      BY <2>3, <2>7, <3>1, <3>2, Sizes
  <2>10. Beside(a, y, lo, hi, Digit \cup {"-"})
    <3>1. text[y + 1] \notin Digit \cup {"-"}
      <4>1. Beside(x, y, lo, hi, Digit \cup {"-"})
        BY <1>2, <1>10 DEF Is, CardTo
      <4>. QED
        BY <1>2, <4>1 DEF Beside
    <3>2. a = lo + 1 \/ text[a - 1] \notin Digit \cup {"-"}
      <4>1. a = 1 => a = lo + 1
        BY <1>2, <1>6
      <4>. QED
        BY <1>1, <4>1 DEF Clean
    <3>. QED
      BY <3>1, <3>2 DEF Beside
  <2>11. CardTo(a, y, lo, hi)
    BY <2>3, <2>8, <2>9, <2>10 DEF CardTo
  <2>12. ASSUME NEW k, NEW z \in a..hi, Is(k, a, z, lo, hi) PROVE y <= z
    <3>1. z \in a..n
      BY <1>1, <1>2
    <3>2. CASE k = "email"
      BY <2>6, <2>12, <3>1, <3>2 DEF Is
    <3>3. CASE k = "card"
      BY <1>6, <2>11, <2>12, <3>3 DEF Is
    <3>4. CASE k = "ssn"
      <4>1. SsnTo(a, z, lo, hi)
        BY <2>12, <3>4 DEF Is
      <4>2. ~(z < hi)
        <5>1. SUFFICES ASSUME z < hi PROVE FALSE
          OBVIOUS
        <5>2. SsnTo(a, z, 0, n)
          BY <1>1, <1>2, <1>6, <4>1, <5>1, EndsBetween
        <5>. QED
          BY <2>6, <3>1, <5>2
      <4>. QED
        BY <1>6, <4>2
    <3>. QED
      BY <2>12, <3>2, <3>3, <3>4 DEF Is
  <2>. QED
    BY <2>11, <2>12 DEF EndsAt, a
<1>. QED
  BY <1>2, <1>8, <1>9, <1>10 DEF Is

\* Where the part ends in it, or a match that begins with it ends with the part, what has
\* come of it may still grow, and fits the window.
LEMMA MayGrow ==
    ASSUME text \in Seq(Characters), NEW m, Guarded(m), NEW lo \in Nat, NEW hi \in lo..Len(text),
           lo < m.from, m.from <= hi,
           hi < m.to \/ \E kind : Is(kind, m.from, hi, lo, hi)
    PROVE  /\ hi - m.from < Window
           /\ \A l \in 0..m.from - 1 : \A t : Part(t, l, hi) => Partial(t, m.from - l)
<1>. DEFINE a == m.from
            b == m.to
            n == Len(text)
<1>1. n \in Nat /\ a \in 1..n /\ b \in a..n /\ Is(m.kind, a, b, 0, n) /\ b - a < Window
  BY RedactedIs, LenProperties DEF Guarded
<1>2. lo < a /\ a <= hi /\ hi \in lo..n /\ (hi < b \/ \E kind : Is(kind, a, hi, lo, hi))
  OBVIOUS
<1>3. ASSUME NEW kind, Is(kind, a, hi, lo, hi), b <= hi
      PROVE  kind = m.kind /\ (hi = b \/ kind = "card")
  <2>1. hi \in a..hi
    <3>. HIDE DEF a, b, n
    <3>. QED
      BY <1>1, <1>2
  <2>2. \A k : \A y \in a..hi : Is(k, a, y, lo, hi) =>
           k = m.kind /\ b <= y /\ (y = b \/ (k = "card" /\ y = hi /\ hi < n))
    BY <1>2, <1>3, WholeInside
  <2>. HIDE DEF a, b, n
  <2>. QED
    BY <1>3, <2>1, <2>2
<1>. HIDE DEF a, b, n
<1>4. /\ a \in Nat /\ b \in Nat /\ hi \in Nat /\ a \in lo + 1..hi /\ hi \in a..hi /\ a \in 0 + 1..n
      /\ 0 \in Nat /\ n \in 0..n /\ a <= hi
  BY <1>1, <1>2
<1>5. \E y \in a..n : /\ hi <= y /\ y - a < Window
                      /\ y \in EmailEnds(text, a) \/ Grouped(text, a, y)
  <2>1. CASE hi < b
    <3>1. b \in EmailEnds(text, a) \/ Grouped(text, a, b)
      <4>1. CASE m.kind = "email"
        BY <1>1, <4>1 DEF Is
      <4>2. CASE m.kind # "email"
        BY <1>1, <1>4, <4>2, IsMade DEF n
      <4>. QED
        BY <4>1, <4>2
    <3>. QED
      BY <1>1, <1>4, <2>1, <3>1
  <2>2. CASE ~(hi < b)
    <3>1. PICK kind : Is(kind, a, hi, lo, hi)
      BY <1>2, <2>2
    <3>2. b <= hi
      BY <1>4, <2>2
    <3>3. kind = m.kind /\ (hi = b \/ kind = "card")
      BY <1>3, <3>1, <3>2
    <3>4. hi \in EmailEnds(text, a) \/ Grouped(text, a, hi)
      <4>1. CASE kind = "email"
        BY <3>1, <4>1 DEF Is
      <4>2. CASE kind # "email"
        BY <1>2, <1>4, <3>1, <4>2, IsMade DEF n
      <4>. QED
        BY <4>1, <4>2
    <3>5. hi - a < Window
      <4>1. CASE hi = b
        BY <1>1, <4>1
      <4>2. CASE kind = "card"
        <5>1. Grouped(text, a, hi) /\ text[hi] \in Digit /\ Count(a, hi) \in CardMin..CardMax
          BY <1>2, <1>4, <3>1, <4>2, IsMade DEF n
        <5>2. hi - a + 2 <= 2 * Count(a, hi)
          BY <1>4, <5>1, CountLength
        <5>3. Count(a, hi) \in Nat /\ Count(a, hi) <= CardMax
          BY <5>1, Sizes
        <5>. HIDE DEF Count
        <5>. QED
          BY <1>4, <5>2, <5>3, Sizes
      <4>. QED
        BY <3>3, <4>1, <4>2
    <3>. QED
      BY <1>2, <1>4, <3>4, <3>5
  <2>. QED
    BY <2>1, <2>2
<1>6. PICK y \in a..n : /\ hi <= y /\ y - a < Window
                        /\ y \in EmailEnds(text, a) \/ Grouped(text, a, y)
  BY <1>5
<1>7. hi - a < Window
  BY <1>1, <1>2, <1>6, Sizes
<1>8. ASSUME NEW l \in 0..a - 1, NEW t, Part(t, l, hi) PROVE Partial(t, a - l)
  <2>1. l \in Nat /\ hi \in l..n /\ a \in l + 1..hi /\ y \in Nat /\ hi <= y
    BY <1>1, <1>2, <1>6
  <2>2. CASE y \in EmailEnds(text, a)
    BY <1>8, <2>1, <2>2, EmailPartial DEF n
  <2>3. CASE Grouped(text, a, y)
    BY <1>4, <1>8, <2>1, <2>3, GroupedPartial
  <2>. QED
    BY <1>6, <2>2, <2>3
<1>. QED
  BY <1>7, <1>8 DEF a

\* What scan replaces of the matches of a part.
Replaced(t, m, allow) == should_redact(t, m) /\ (allow \/ m.to < Len(t))

LEMMA SameRedacted ==
    ASSUME text \in Seq(Characters), NEW m, Guarded(m), NEW lo \in Nat, NEW hi \in lo..Len(text),
           NEW t, Part(t, lo, hi), lo < m.from, m.to <= hi, NEW y,
           y.kind = m.kind, y.from = m.from - lo, y.to = m.to - lo
    PROVE  should_redact(t, y)
<1>1. /\ Len(text) \in Nat /\ m.from \in 1..Len(text) /\ m.to \in m.from..Len(text)
      /\ should_redact(text, m)
  BY RedactedIs, LenProperties DEF Guarded
<1>2. m.from \in lo + 1..hi /\ m.to \in m.from..hi
  BY <1>1
<1>3. DigitsOf(t, m.from - lo, m.to - lo) = DigitsOf(text, m.from, m.to)
  BY <1>2, DigitsInPart
<1>. QED
  BY <1>1, <1>3, Zenon DEF should_redact

\* What scan finds of a part that holds the first character of m: nothing before m reaches
\* it; what is replaced behind it is behind a match that begins with m; this one, when it
\* is replaced, hides the secret characters; and when it is not, they are held back.
GuardedIn(m, t, lo, hi, allow) ==
    LET f == m.from - lo
        first == f \in Starts(t) /\ Replaced(t, MatchAt(t, f), allow)
    IN
    /\ Free(t, f)
    /\ \A i \in Starts(t) : f < i /\ Replaced(t, MatchAt(t, i), allow) =>
          f \in Starts(t) /\ (first \/ i <= MatchAt(t, f).to)
    /\ first => \A p \in Secret(m) : p <= MatchAt(t, f).to + lo
    /\ first \/ /\ ~allow /\ hi - m.from < Window
                /\ \A l \in 0..m.from - 1 : \A u : Part(u, l, hi) => Partial(u, m.from - l)

LEMMA GuardedScan ==
    ASSUME text \in Seq(Characters), NEW m, Guarded(m), NEW lo \in Nat, NEW hi \in lo..Len(text),
           NEW t, Part(t, lo, hi), lo < m.from, m.from <= hi,
           NEW allow \in BOOLEAN, allow => hi = Len(text)
    PROVE  GuardedIn(m, t, lo, hi, allow)
<1>. DEFINE a == m.from
            b == m.to
            n == Len(text)
            f == a - lo
            its == MatchAt(t, f)
            end == its.to + lo
            first == f \in Starts(t) /\ Replaced(t, its, allow)
<1>1. n \in Nat /\ a \in 1..n /\ b \in a..n
  BY RedactedIs, LenProperties DEF Guarded
<1>2. lo < a /\ a <= hi /\ hi \in lo..n /\ (allow => hi = n)
  OBVIOUS
<1>3. Len(t) = hi - lo /\ DOMAIN t = 1..Len(t)
  BY LenProperties DEF Part
<1>4. ASSUME NEW i \in Starts(t)
      PROVE  /\ i \in 1..hi - lo /\ lo + i \in lo + 1..hi /\ MatchAt(t, i).to \in Int
             /\ MatchAt(t, i).to + lo \in lo + i..hi
             /\ Is(MatchAt(t, i).kind, lo + i, MatchAt(t, i).to + lo, lo, hi)
  <2>1. i \in 1..Len(t)
    BY <1>3 DEF Starts
  <2>2. i \in 1..hi - lo /\ lo + i \in lo + 1..hi /\ (lo + i) - lo = i
    BY <1>3, <2>1
  <2>. DEFINE x == lo + i
  <2>3. x \in lo + 1..hi /\ x - lo = i
    BY <2>2
  <2>. HIDE DEF x, its, f, n
  <2>4. /\ x - lo \in Starts(t) =>
           /\ MatchAt(t, x - lo).to + lo \in x..hi
           /\ Is(MatchAt(t, x - lo).kind, x, MatchAt(t, x - lo).to + lo, lo, hi)
    BY <2>3, StartsInPart
  <2>5. MatchAt(t, i).to + lo \in x..hi /\ Is(MatchAt(t, i).kind, x, MatchAt(t, i).to + lo, lo, hi)
    BY <1>4, <2>3, <2>4
  <2>6. MatchAt(t, i).to \in Int
    <3>1. t \in Seq(Characters)
      BY DEF Part
    <3>2. MatchAt(t, i).to \in i..Len(t)
      BY <3>1, <1>4, MatchInside
    <3>. QED
      BY <2>2, <3>2, <1>3
  <2>. QED
    BY <2>2, <2>5, <2>6 DEF x
<1>5. f \in Starts(t) <=> \E y \in a..hi : EndsAt(a, y, lo, hi)
  <2>1. a \in lo + 1..hi
    <3>. HIDE DEF a, n, b
    <3>. QED
      BY <1>1, <1>2
  <2>. HIDE DEF a, n
  <2>. QED
    BY <2>1, StartsInPart DEF n
<1>6. f \in Starts(t) => /\ end \in a..hi /\ its.to \in Int /\ its.from = f
                         /\ Is(its.kind, a, end, lo, hi)
  <2>1. a \in lo + 1..hi
    <3>. HIDE DEF a, n, b
    <3>. QED
      BY <1>1, <1>2
  <2>2. f \in Starts(t) => its.to \in Int
    BY <1>4
  <2>3. f \in Starts(t) => its.from = f /\ end \in a..hi /\ Is(its.kind, a, end, lo, hi)
    <3>. HIDE DEF a, n
    <3>. QED
      BY <2>1, StartsInPart DEF n
  <2>. QED
    BY <2>2, <2>3
<1>7. b <= hi => /\ f \in Starts(t) /\ its.kind = m.kind /\ b <= end
                 /\ end = b \/ (end = hi /\ hi < n)
                 /\ end = b => should_redact(t, its)
  <2>. SUFFICES ASSUME b <= hi
                PROVE  /\ f \in Starts(t) /\ its.kind = m.kind /\ b <= end
                       /\ end = b \/ (end = hi /\ hi < n)
                       /\ end = b => should_redact(t, its)
    OBVIOUS
  <2>1. EndsAt(a, b, lo, hi) /\ \A kind : \A y \in a..hi : Is(kind, a, y, lo, hi) =>
           kind = m.kind /\ b <= y /\ (y = b \/ (kind = "card" /\ y = hi /\ hi < n))
    BY WholeInside
  <2>2. b \in a..hi
    <3>. HIDE DEF a, b, n
    <3>. QED
      BY <1>1, <1>2
  <2>3. f \in Starts(t)
    BY <1>5, <2>1, <2>2
  <2>4. its.kind = m.kind /\ b <= end /\ (end = b \/ (end = hi /\ hi < n))
    <3>. HIDE DEF a, b, n, f, its, end
    <3>. QED
      BY <1>6, <2>1, <2>3
  <2>5. ASSUME end = b PROVE should_redact(t, its)
    <3>1. its.to = b - lo /\ its.from = a - lo
      <4>. HIDE DEF a, b, n, its
      <4>. QED
        BY <1>1, <1>6, <2>3, <2>5
    <3>. HIDE DEF its
    <3>. QED
      BY <2>4, <3>1, SameRedacted
  <2>. QED
    BY <2>3, <2>4, <2>5
<1>8. hi < b \/ (f \in Starts(t) /\ Is(its.kind, a, hi, lo, hi)) =>
         /\ hi - a < Window
         /\ \A l \in 0..a - 1 : \A u : Part(u, l, hi) => Partial(u, a - l)
  BY MayGrow
<1>9. Free(t, f)
  <2>. SUFFICES ASSUME NEW j \in Starts(t), j < f PROVE MatchAt(t, j).to < f
    BY DEF Free
  <2>1. lo + j < a
    <3>. HIDE DEF a, n, b
    <3>. QED
      BY <1>1, <1>2, <1>4
  <2>2. MatchAt(t, j).to + lo < a
    BY <1>4, <2>1, NoneBefore
  <2>. HIDE DEF a, n, b
  <2>. QED
    BY <1>1, <1>2, <1>4, <2>2
<1>10. ASSUME first PROVE \A p \in Secret(m) : p <= end
  <2>1. end \in a..hi /\ Is(its.kind, a, end, lo, hi)
    BY <1>6, <1>10
  <2>2. end < hi \/ hi = n
    <3>1. allow \/ its.to < Len(t)
      BY <1>10 DEF Replaced
    <3>. HIDE DEF its, a, b, n
    <3>. QED
      BY <1>2, <1>3, <1>6, <1>10, <3>1
  <2>. HIDE DEF its, end, f, first
  <2>. QED
    BY <2>1, <2>2, SecretInside
<1>. HIDE DEF a, b, n
<1>11. /\ a \in Nat /\ b \in Nat /\ hi \in Nat /\ f \in Int /\ f + lo = a /\ Len(t) = hi - lo
  BY <1>1, <1>2, <1>3
<1>12. ASSUME NEW i \in Starts(t), f < i, Replaced(t, MatchAt(t, i), allow)
       PROVE  f \in Starts(t) /\ (first \/ i <= its.to)
  <2>. DEFINE x == lo + i
              y == MatchAt(t, i).to + lo
  <2>1. x \in a + 1..hi /\ y \in x..hi /\ Is(MatchAt(t, i).kind, x, y, lo, hi) /\ i \in Int
    BY <1>4, <1>11, <1>12
  <2>2. y < hi \/ allow
    <3>1. allow \/ MatchAt(t, i).to < Len(t)
      BY <1>12 DEF Replaced
    <3>. QED
      BY <1>4, <1>11, <3>1
  <2>3. CASE b <= hi
    <3>1. /\ f \in Starts(t) /\ b <= end /\ (end = b \/ end = hi) /\ (end = b => should_redact(t, its))
          /\ end \in a..hi /\ its.to \in Int
      BY <1>6, <1>7, <2>3
    <3>2. ASSUME ~(i <= its.to) PROVE first
      <4>1. its.to < i /\ its.to < Len(t) /\ end # hi
        <5>. DEFINE l == Len(t)
        <5>1. l = hi - lo /\ hi \in Nat /\ lo \in Nat /\ i \in Int /\ its.to \in Int /\ lo + i <= hi
          BY <1>11, <2>1, <3>1
        <5>. HIDE DEF its, l
        <5>2. its.to < i /\ its.to < l /\ its.to + lo # hi
          BY <3>2, <5>1
        <5>. QED
          BY <5>2 DEF l
      <4>. QED
        BY <3>1, <4>1 DEF Replaced
    <3>. QED
      BY <3>1, <3>2
  <2>4. CASE ~(b <= hi)
    <3>1. hi < b /\ y < hi /\ y \in a..hi
      BY <1>1, <1>2, <1>11, <2>1, <2>2, <2>4
    <3>2. EndsAt(a, y, lo, hi) /\ \A k : \A z \in a..hi : Is(k, a, z, lo, hi) => y <= z
      <4>. HIDE DEF x, y, its, f, end, first
      <4>. QED
        BY <2>1, <3>1, NoneInside DEF a, b
    <3>3. f \in Starts(t)
      BY <1>5, <3>1, <3>2
    <3>4. y <= end /\ end \in a..hi /\ its.to \in Int
      <4>. HIDE DEF its, f, y, end
      <4>. QED
        BY <1>6, <3>2, <3>3
    <3>5. i <= its.to
      <4>. HIDE DEF its, y
      <4>. QED
        BY <1>11, <2>1, <3>4
    <3>. QED
      BY <3>3, <3>5
  <2>. QED
    BY <2>3, <2>4
<1>13. ASSUME ~first
       PROVE  /\ ~allow /\ hi - a < Window
              /\ \A l \in 0..a - 1 : \A u : Part(u, l, hi) => Partial(u, a - l)
  <2>1. CASE hi < b
    BY <1>1, <1>2, <1>8, <1>11, <2>1
  <2>2. CASE b <= hi
    <3>1. /\ f \in Starts(t) /\ b <= end /\ (end = b \/ (end = hi /\ hi < n))
          /\ (end = b => should_redact(t, its)) /\ end \in a..hi /\ its.to \in Int
          /\ Is(its.kind, a, end, lo, hi)
      BY <1>6, <1>7, <2>2
    <3>2. CASE end = hi /\ hi < n
      BY <1>1, <1>2, <1>8, <1>11, <3>1, <3>2
    <3>3. CASE end = b
      <4>1. ~allow /\ ~(its.to < Len(t))
        BY <1>13, <3>1, <3>3 DEF Replaced
      <4>2. end = hi
        <5>. HIDE DEF its
        <5>. QED
          BY <1>11, <3>1, <4>1
      <4>. QED
        BY <1>8, <3>1, <4>1, <4>2
    <3>. QED
      BY <3>1, <3>2, <3>3
  <2>. QED
    BY <1>11, <2>1, <2>2
<1>. QED
  BY <1>9, <1>10, <1>12, <1>13 DEF GuardedIn, a

-----------------------------------------------------------------------------
(* What is sent in clear.                                                  *)

\* No piece that is sent as it came is a character of H.
Hides(seq, H) == \A k \in 1..Len(seq) : seq[k].clear => seq[k].from \notin H

Past(m, at) == \A p \in Secret(m) : p <= at

LEMMA PastStays ==
    ASSUME NEW m, Secret(m) \in SUBSET Int, NEW a \in Int, NEW b \in Int, a <= b, Past(m, a)
    PROVE  Past(m, b)
BY DEF Past

LEMMA HidesConcat ==
    ASSUME NEW H, NEW n \in Nat, NEW s \in Seq(Pieces(n)), NEW r \in Seq(Pieces(n)),
           Hides(s, H), Hides(r, H)
    PROVE  s \o r \in Seq(Pieces(n)) /\ Hides(s \o r, H)
<1>. DEFINE P == Pieces(n)
            both == s \o r
<1>1. /\ Len(s) \in Nat /\ Len(r) \in Nat /\ both \in Seq(P) /\ Len(both) = Len(s) + Len(r)
      /\ \A k \in 1..Len(s) + Len(r) : both[k] = IF k <= Len(s) THEN s[k] ELSE r[k - Len(s)]
  BY ConcatProperties, LenProperties
<1>. HIDE DEF both
<1>2. ASSUME NEW k \in 1..Len(both), both[k].clear PROVE both[k].from \notin H
  <2>1. CASE k <= Len(s)
    <3>1. k \in 1..Len(s) /\ both[k] = s[k]
      BY <1>1, <2>1
    <3>. QED
      BY <1>2, <3>1 DEF Hides
  <2>2. CASE ~(k <= Len(s))
    <3>1. k - Len(s) \in 1..Len(r) /\ both[k] = r[k - Len(s)]
      BY <1>1, <2>2
    <3>. QED
      BY <1>2, <3>1 DEF Hides
  <2>. QED
    BY <2>1, <2>2
<1>. QED
  BY <1>1, <1>2 DEF Hides, both

LEMMA CoversHides ==
    ASSUME NEW H, NEW n \in Nat, NEW lo \in Nat, NEW hi \in Nat, NEW seq \in Seq(Pieces(n)),
           Covers(seq, lo, hi), H \in SUBSET Int, \A p \in H : p <= lo \/ hi < p
    PROVE  Hides(seq, H)
<1>. DEFINE N == Len(seq)
<1>1. N \in Nat /\ \A k \in 1..N : seq[k].from \in Nat /\ seq[k].to \in Nat
  <2>1. N \in Nat /\ \A k \in 1..N : seq[k] \in Pieces(n)
    BY LenProperties, ElementOfSeq
  <2>. QED
    BY <2>1 DEF Pieces
<1>2. /\ \A k \in 1..N : seq[k].from <= seq[k].to
      /\ \A k \in 2..N : seq[k].from = seq[k - 1].to + 1
      /\ N > 0 => seq[1].from = lo + 1 /\ seq[N].to = hi
  <2>1. N > 0 => seq # <<>>
    BY EmptySeq
  <2>. QED
    BY <2>1 DEF Covers
<1>. HIDE DEF N
<1>. DEFINE Low == {k \in 0..N : k = 0 \/ lo < seq[k].from}
            High == {k \in 0..N : k = N \/ seq[N - k].to <= hi}
<1>3. \A k \in 0..N : k \in Low
  <2>1. 0 \in Low
    BY <1>1
  <2>2. ASSUME NEW k \in 1..N, k - 1 \in Low PROVE k \in Low
    <3>1. CASE k = 1
      BY <1>1, <1>2, <3>1
    <3>2. CASE k # 1
      <4>1. k \in 2..N /\ k - 1 \in 1..N /\ k - 1 # 0 /\ k \in 0..N
        BY <1>1, <3>2
      <4>2. seq[k].from = seq[k - 1].to + 1 /\ seq[k - 1].from <= seq[k - 1].to /\ lo < seq[k - 1].from
        BY <1>2, <2>2, <4>1
      <4>3. seq[k].from \in Nat /\ seq[k - 1].from \in Nat /\ seq[k - 1].to \in Nat
        BY <1>1, <4>1
      <4>4. lo < seq[k].from
        BY <4>2, <4>3
      <4>. QED
        BY <4>1, <4>4
    <3>. QED
      BY <3>1, <3>2
  <2>. HIDE DEF Low
  <2>. QED
    BY <1>1, <2>1, <2>2, UpTo
<1>4. \A k \in 0..N : k \in High
  <2>1. 0 \in High
    <3>1. N = 0 \/ (N > 0 /\ N - 0 = N)
      BY <1>1
    <3>. QED
      BY <1>1, <1>2, <3>1
  <2>2. ASSUME NEW k \in 1..N, k - 1 \in High PROVE k \in High
    <3>1. CASE k = N
      BY <1>1, <3>1
    <3>2. CASE k # N
      <4>. DEFINE i == N - (k - 1)
      <4>1. i \in 2..N /\ i - 1 = N - k /\ i \in 1..N /\ i - 1 \in 1..N /\ k - 1 # N /\ k \in 0..N
        BY <1>1, <3>2
      <4>2. seq[i].to <= hi
        BY <2>2, <4>1
      <4>. HIDE DEF i
      <4>3. seq[i].from = seq[i - 1].to + 1 /\ seq[i].from <= seq[i].to
        BY <1>2, <4>1
      <4>4. seq[i].from \in Nat /\ seq[i].to \in Nat /\ seq[i - 1].to \in Nat
        BY <1>1, <4>1
      <4>5. seq[i - 1].to <= hi
        <5>. DEFINE x == seq[i].from
                    y == seq[i].to
                    z == seq[i - 1].to
        <5>1. x \in Nat /\ y \in Nat /\ z \in Nat /\ x = z + 1 /\ x <= y /\ y <= hi
          BY <4>2, <4>3, <4>4
        <5>. HIDE DEF x, y, z
        <5>2. z <= hi
          BY <5>1
        <5>. QED
          BY <5>2 DEF z
      <4>. QED
        BY <4>1, <4>5
    <3>. QED
      BY <3>1, <3>2
  <2>. HIDE DEF High
  <2>. QED
    BY <1>1, <2>1, <2>2, UpTo
<1>5. ASSUME NEW k \in 1..N PROVE lo < seq[k].from /\ seq[k].from <= hi
  <2>1. k \in 0..N /\ N - k \in 0..N /\ k # 0 /\ N - k # N /\ N - (N - k) = k
    BY <1>1
  <2>2. lo < seq[k].from
    BY <1>3, <2>1
  <2>3. seq[k].to <= hi
    BY <1>4, <2>1
  <2>. QED
    BY <1>1, <1>2, <2>2, <2>3
<1>6. ASSUME NEW k \in 1..N PROVE seq[k].from \notin H
  BY <1>1, <1>5, <1>6
<1>. QED
  BY <1>6 DEF Hides, N

LEMMA GuardedMatches ==
    ASSUME text \in Seq(Characters), NEW m, Guarded(m), NEW lo \in Nat, NEW hi \in lo..Len(text),
           NEW t, Part(t, lo, hi), lo < m.from, m.from <= hi,
           NEW allow \in BOOLEAN, GuardedIn(m, t, lo, hi, allow)
    PROVE  LET ms == Matches(t)
               f == m.from - lo
               Over(k) == Replaced(t, ms[k], allow)
           IN
           /\ \A k \in 1..Len(ms) :
                 /\ ms[k].to < f \/ f <= ms[k].from
                 /\ ms[k].from = f /\ Over(k) => Past(m, lo + ms[k].to)
                 /\ f < ms[k].from /\ Over(k) => \E j \in 1..k - 1 : ms[j].from = f /\ Over(j)
           /\ (\E k \in 1..Len(ms) : ms[k].from = f /\ Over(k)) \/
                 /\ ~allow /\ hi - m.from < Window
                 /\ \A l \in 0..m.from - 1 : \A u : Part(u, l, hi) => Partial(u, m.from - l)
<1>. DEFINE ms == Matches(t)
            f == m.from - lo
            Over(k) == Replaced(t, ms[k], allow)
            its == MatchAt(t, f)
            first == f \in Starts(t) /\ Replaced(t, its, allow)
<1>1. /\ t \in Seq(Characters) /\ Len(t) = hi - lo /\ Len(text) \in Nat /\ m.from \in 1..Len(text)
  BY RedactedIs, LenProperties DEF Part, Guarded
<1>2. f \in 1..Len(t) /\ f \in Int
  BY <1>1
<1>3. /\ Free(t, f)
      /\ \A i \in Starts(t) : f < i /\ Replaced(t, MatchAt(t, i), allow) =>
            f \in Starts(t) /\ (first \/ i <= its.to)
      /\ first => \A p \in Secret(m) : p <= its.to + lo
      /\ first \/ /\ ~allow /\ hi - m.from < Window
                  /\ \A l \in 0..m.from - 1 : \A u : Part(u, l, hi) => Partial(u, m.from - l)
  BY DEF GuardedIn
<1>. HIDE DEF f
<1>4. /\ ms \in Seq(MatchesOf(hi - lo)) /\ Apart(ms, hi - lo) /\ AllPicked(t, ms)
      /\ f \in Starts(t) => Holds(ms, f)
  BY <1>1, <1>2, <1>3, MatchesApart, MatchesPicked
<1>. HIDE DEF ms
<1>5. /\ Len(ms) \in Nat
      /\ \A k \in 1..Len(ms) : /\ ms[k].from \in Starts(t) /\ ms[k] = MatchAt(t, ms[k].from)
                               /\ ms[k].from \in Int /\ ms[k].to \in Int
                               /\ ms[k].from <= ms[k].to
  <2>1. Len(ms) \in Nat /\ \A k \in 1..Len(ms) : ms[k] \in MatchesOf(hi - lo)
    BY <1>4, LenProperties, ElementOfSeq
  <2>. QED
    BY <1>4, <2>1 DEF MatchesOf, AllPicked, Apart
<1>6. \A k \in 1..Len(ms) : \A j \in 1..k - 1 : ms[j].to < ms[k].from
  <2>1. hi - lo \in Nat
    OBVIOUS
  <2>. QED
    BY <1>4, <2>1, ApartOrder
<1>7. \A k \in 1..Len(ms) : ms[k].from = f => f \in Starts(t) /\ ms[k] = its
  BY <1>5
<1>. HIDE DEF its
<1>8. ASSUME NEW k \in 1..Len(ms) PROVE ms[k].to < f \/ f <= ms[k].from
  BY <1>2, <1>3, <1>5 DEF Free
<1>9. ASSUME NEW k \in 1..Len(ms), ms[k].from = f, Over(k) PROVE Past(m, lo + ms[k].to)
  <2>1. first /\ ms[k] = its
    BY <1>7, <1>9
  <2>2. \A p \in Secret(m) : p <= its.to + lo
    BY <1>3, <2>1
  <2>3. its.to + lo = lo + ms[k].to
    BY <1>5, <2>1
  <2>. QED
    BY <2>2, <2>3 DEF Past
<1>10. ASSUME f \in Starts(t) PROVE \E j \in 1..Len(ms) : ms[j].from = f /\ ms[j] = its
  <2>1. PICK j \in 1..Len(ms) : ms[j].from = f
    BY <1>4, <1>10 DEF Holds
  <2>. QED
    BY <1>7, <2>1
<1>11. ASSUME NEW k \in 1..Len(ms), f < ms[k].from, Over(k)
       PROVE  \E j \in 1..k - 1 : ms[j].from = f /\ Over(j)
  <2>1. f \in Starts(t) /\ (first \/ ms[k].from <= its.to)
    <3>1. ms[k].from \in Starts(t) /\ Replaced(t, MatchAt(t, ms[k].from), allow)
      BY <1>5, <1>11
    <3>. QED
      BY <1>3, <1>11, <3>1
  <2>2. PICK j \in 1..Len(ms) : ms[j].from = f /\ ms[j] = its
    BY <1>10, <2>1
  <2>3. j < k
    <3>1. SUFFICES ASSUME k <= j PROVE FALSE
      BY <1>5
    <3>2. CASE k = j
      BY <1>2, <1>11, <2>2, <3>2
    <3>3. CASE k # j
      <4>1. k \in 1..j - 1
        BY <1>5, <3>1, <3>3
      <4>2. ms[k].to < f
        BY <1>6, <2>2, <4>1
      <4>. QED
        BY <1>2, <1>5, <1>11, <4>2
    <3>. QED
      BY <3>2, <3>3
  <2>4. j \in 1..k - 1
    BY <1>5, <2>3
  <2>5. its.to < ms[k].from
    BY <1>6, <2>2, <2>4
  <2>6. first
    <3>1. its.to \in Int /\ ms[k].from \in Int
      BY <1>5, <2>2
    <3>. QED
      BY <2>1, <2>5, <3>1
  <2>. QED
    BY <2>2, <2>4, <2>6
<1>12. (\E k \in 1..Len(ms) : ms[k].from = f /\ Over(k)) \/
          /\ ~allow /\ hi - m.from < Window
          /\ \A l \in 0..m.from - 1 : \A u : Part(u, l, hi) => Partial(u, m.from - l)
  <2>1. CASE first
    BY <1>10, <2>1
  <2>2. CASE ~first
    BY <1>3, <2>2
  <2>. QED
    BY <2>1, <2>2
<1>. QED
  BY <1>8, <1>9, <1>11, <1>12 DEF f, ms

\* A turn that replaces y hides the characters of H when the characters it sends, those
\* from the cursor to y, are none of them.
LEMMA TurnHides ==
    ASSUME NEW H, H \in SUBSET Int, NEW n \in Nat, NEW lo \in Nat, NEW hi \in lo..n,
           NEW before \in Scanned(n, hi - lo), NEW y \in MatchesOf(hi - lo),
           before.cursor < y.from, Hides(before.prefix, H),
           \A p \in H : p <= lo + before.cursor \/ lo + (y.from - 1) < p
    PROVE  Hides(before.prefix \o Clear(SubSeq(Run(lo, hi), before.cursor + 1, y.from - 1))
                    \o <<Redaction(Run(lo, hi), y)>>, H)
<1>. DEFINE c == before.cursor
            d == y.from - 1
            between == SubSeq(Run(lo, hi), c + 1, d)
            gap == Clear(between)
            piece == Redaction(Run(lo, hi), y)
            P == Pieces(n)
<1>1. /\ before.prefix \in Seq(P) /\ c \in 0..hi - lo
      /\ y.from \in 1..hi - lo /\ y.to \in 1..hi - lo
  BY DEF Scanned, MatchesOf
<1>2. /\ c \in Nat /\ d \in Nat /\ c + 1 \in 1..(hi - lo) + 1 /\ d \in (c + 1) - 1..hi - lo
      /\ (c + 1) - 1 = c /\ lo + c \in Nat /\ lo + d \in lo + c..n /\ lo + d \in Nat
  <2>1. c < y.from
    OBVIOUS
  <2>2. hi - lo \in Nat /\ hi <= n
    OBVIOUS
  <2>. DEFINE z == y.from
  <2>3. z \in 1..hi - lo /\ c < z /\ d = z - 1
    BY <1>1, <2>1
  <2>. HIDE DEF c, d, z
  <2>. QED
    BY <1>1, <2>2, <2>3
<1>3. between = Run(lo + c, lo + d)
  <2>. DEFINE first == c + 1
  <2>1. first \in 1..(hi - lo) + 1 /\ d \in first - 1..hi - lo /\ first - 1 = c
    BY <1>2
  <2>. HIDE DEF first, d, c
  <2>2. SubSeq(Run(lo, hi), first, d) = Run(lo + (first - 1), lo + d)
    BY <2>1, RunParts
  <2>. QED
    BY <2>1, <2>2 DEF first
<1>4. gap \in Seq(P) /\ Hides(gap, H)
  <2>1. \A p \in H : p <= lo + c \/ lo + d < p
    OBVIOUS
  <2>2. gap = Clear(Run(lo + c, lo + d))
    BY <1>3
  <2>. HIDE DEF gap, c, d, between
  <2>3. gap \in Seq(P) /\ Covers(gap, lo + c, lo + d)
    BY <1>2, <2>2, ClearCovers
  <2>. QED
    BY <1>2, <2>1, <2>3, CoversHides
<1>5. piece \in P /\ piece.clear = FALSE
  <2>1. /\ Run(lo, hi) \in Seq(1..n) /\ Len(Run(lo, hi)) = hi - lo
    BY RunTypes
  <2>2. Run(lo, hi)[y.from] \in 1..n /\ Run(lo, hi)[y.to] \in 1..n
    BY <1>1, <2>1, ElementOfSeq
  <2>. QED
    BY <2>2 DEF Redaction, Pieces
<1>. HIDE DEF gap, piece, P
<1>6. <<piece>> \in Seq(P) /\ Hides(<<piece>>, H)
  <2>1. <<piece>> \in Seq(P) /\ Len(<<piece>>) = 1 /\ <<piece>>[1] = piece
    BY <1>5
  <2>2. \A k \in 1..1 : k = 1
    OBVIOUS
  <2>. QED
    BY <1>5, <2>1, <2>2 DEF Hides
<1>7. before.prefix \o gap \in Seq(P) /\ Hides(before.prefix \o gap, H)
  BY <1>1, <1>4, HidesConcat DEF P
<1>. DEFINE front == before.prefix \o gap
<1>8. front \in Seq(P) /\ Hides(front, H)
  BY <1>7
<1>. HIDE DEF front
<1>9. Hides(front \o <<piece>>, H)
  BY <1>6, <1>8, HidesConcat DEF P
<1>. QED
  BY <1>9 DEF front, gap, piece, between, c, d

\* What scan makes of a part that holds the first character of m: either it has replaced
\* m's secret characters, or it has not come to m, and m is held back.
LEMMA ScanHides ==
    ASSUME text \in Seq(Characters), NEW m, Guarded(m), NEW lo \in Nat, NEW hi \in lo..Len(text),
           lo < m.from, m.from <= hi, NEW allow \in BOOLEAN, allow => hi = Len(text)
    PROVE  \E mid \in lo..hi :
              /\ scan(Run(lo, hi), allow).rest = Run(mid, hi)
              /\ Hides(scan(Run(lo, hi), allow).prefix, Secret(m))
              /\ \/ Past(m, mid)
                 \/ /\ mid < m.from /\ ~allow /\ hi - m.from < Window
                    /\ \A l \in 0..m.from - 1 : \A u : Part(u, l, hi) => Partial(u, m.from - l)
<1>. DEFINE n == Len(text)
            part == Run(lo, hi)
            t == Chars(part)
            ms == Matches(t)
            f == m.from - lo
            H == Secret(m)
            Over(k) == Replaced(t, ms[k], allow)
            Held == /\ ~allow /\ hi - m.from < Window
                    /\ \A l \in 0..m.from - 1 : \A u : Part(u, l, hi) => Partial(u, m.from - l)
<1>1. n \in Nat /\ m.from \in 1..n /\ H \in SUBSET Int /\ \A p \in H : m.from <= p
  <2>1. n \in Nat /\ m.from \in 1..n /\ m.to \in m.from..n
    BY RedactedIs, LenProperties DEF Guarded
  <2>2. H \subseteq m.from..m.to
    BY DEF Secret
  <2>. HIDE DEF H, n
  <2>. QED
    BY <2>1, <2>2
<1>2. Part(t, lo, hi) /\ t \in Seq(Characters) /\ Len(t) = hi - lo
  BY CharsArePart DEF Part
<1>3. /\ \A k \in 1..Len(ms) :
            /\ ms[k].to < f \/ f <= ms[k].from
            /\ ms[k].from = f /\ Over(k) => Past(m, lo + ms[k].to)
            /\ f < ms[k].from /\ Over(k) => \E j \in 1..k - 1 : ms[j].from = f /\ Over(j)
      /\ (\E k \in 1..Len(ms) : ms[k].from = f /\ Over(k)) \/ Held
  <2>. HIDE DEF t
  <2>1. GuardedIn(m, t, lo, hi, allow)
    BY <1>2, GuardedScan
  <2>. QED
    BY <1>2, <2>1, GuardedMatches
<1>4. ms \in Seq(MatchesOf(hi - lo)) /\ Apart(ms, hi - lo)
  BY <1>2, MatchesApart
<1>5. PICK g : Unrolls(n, lo, hi, allow, g)
  BY <1>1, ScanUnrolls
<1>6. /\ g[0] = Begun /\ \A k \in 1..Len(ms) : g[k] = Turn(t, part, allow, ms[k], g[k - 1])
      /\ \A k \in 0..Len(ms) : g[k] \in Scanned(n, hi - lo) /\ Halfway(ms, lo, k, g[k])
      /\ scan(part, allow).prefix = g[Len(ms)].prefix
      /\ scan(part, allow).rest = Run(lo + g[Len(ms)].cursor, hi)
  BY <1>5 DEF Unrolls
<1>. HIDE DEF t, ms, f, H, n, Held
<1>7. /\ Len(ms) \in Nat /\ f \in Nat /\ lo + f = m.from /\ hi - lo \in Nat /\ hi \in lo..n
      /\ \A k \in 1..Len(ms) : /\ ms[k] \in MatchesOf(hi - lo) /\ ms[k].from \in Int /\ ms[k].to \in Int
                               /\ ms[k].from <= ms[k].to /\ k - 1 \in 0..Len(ms)
                               /\ g[k - 1].cursor < ms[k].from
  <2>1. Len(ms) \in Nat /\ \A k \in 1..Len(ms) : ms[k] \in MatchesOf(hi - lo)
    BY <1>4, LenProperties, ElementOfSeq
  <2>2. \A k \in 1..Len(ms) : k - 1 \in 0..Len(ms) /\ k - 1 < Len(ms) /\ (k - 1) + 1 = k
    BY <2>1
  <2>3. \A k \in 1..Len(ms) : g[k - 1].cursor < ms[k].from
    <3>. TAKE k \in 1..Len(ms)
    <3>1. Halfway(ms, lo, k - 1, g[k - 1]) /\ k - 1 < Len(ms) /\ (k - 1) + 1 = k
      BY <1>6, <2>2
    <3>. QED
      BY <3>1 DEF Halfway
  <2>4. f \in Nat /\ lo + f = m.from /\ hi - lo \in Nat /\ hi \in lo..n
    BY <1>1 DEF f, n
  <2>. QED
    <3>1. \A k \in 1..Len(ms) : ms[k].from \in Int /\ ms[k].to \in Int
      BY <2>1 DEF MatchesOf
    <3>2. \A k \in 1..Len(ms) : ms[k].from <= ms[k].to
      BY <1>4 DEF Apart
    <3>. QED
      BY <2>1, <2>2, <2>3, <2>4, <3>1, <3>2
<1>8. \A k \in 0..Len(ms) : g[k].cursor \in Nat /\ g[k].cursor <= hi - lo
  BY <1>6, <1>7 DEF Scanned
<1>. DEFINE Fine(k) == /\ Hides(g[k].prefix, H)
                       /\ g[k].cursor < f \/ Past(m, lo + g[k].cursor)
                       /\ (\E j \in 1..k : ms[j].from = f /\ Over(j)) => Past(m, lo + g[k].cursor)
            Good == {k \in 0..Len(ms) : Fine(k)}
<1>9. 0 \in Good
  <2>1. Begun.prefix = <<>> /\ Begun.cursor = 0 /\ Len(<<>>) = 0
    BY DEF Begun
  <2>2. Hides(<<>>, H)
    BY <2>1 DEF Hides
  <2>3. 0 < f
    <3>1. lo < m.from
      OBVIOUS
    <3>. QED
      BY <1>1, <1>7, <3>1
  <2>4. \A j \in 1..0 : FALSE
    OBVIOUS
  <2>. QED
    BY <1>6, <1>7, <2>1, <2>2, <2>3, <2>4
<1>10. ASSUME NEW k \in 1..Len(ms), k - 1 \in Good PROVE k \in Good
  <2>. DEFINE before == g[k - 1]
              y == ms[k]
              after == g[k]
              new == before.prefix \o Clear(SubSeq(part, before.cursor + 1, y.from - 1))
                         \o <<Redaction(part, y)>>
  <2>1. Fine(k - 1) /\ k \in 0..Len(ms) /\ k - 1 \in 0..Len(ms) /\ 1..k - 1 \subseteq 1..k
        /\ \A j \in 1..k : j = k \/ j \in 1..k - 1
    BY <1>7, <1>10
  <2>2. after = IF Over(k) THEN [prefix |-> new, cursor |-> y.to] ELSE before
    BY <1>6, Zenon DEF Turn, Replaced
  <2>3. CASE ~Over(k)
    <3>1. after = before
      BY <2>2, <2>3
    <3>2. (\E j \in 1..k : ms[j].from = f /\ Over(j)) => \E j \in 1..k - 1 : ms[j].from = f /\ Over(j)
      BY <2>1, <2>3
    <3>. HIDE DEF Over
    <3>3. Fine(k)
      BY <2>1, <3>1, <3>2
    <3>. QED
      BY <2>1, <3>3
  <2>4. CASE Over(k)
    <3>1. after.prefix = new /\ after.cursor = y.to
      <4>. HIDE DEF new, Over, before, after
      <4>1. after = [prefix |-> new, cursor |-> y.to]
        BY <2>2, <2>4, Zenon
      <4>. HIDE DEF y
      <4>. QED
        BY <4>1
    <3>2. /\ before.cursor \in Nat /\ y.from \in Int /\ y.to \in Int /\ y.from <= y.to
          /\ before.cursor < y.from /\ y \in MatchesOf(hi - lo) /\ before \in Scanned(n, hi - lo)
      BY <1>6, <1>7, <1>8, <2>1
    <3>3. Past(m, lo + before.cursor) \/ y.from <= f
      <4>1. SUFFICES ASSUME ~(y.from <= f) PROVE Past(m, lo + before.cursor)
        OBVIOUS
      <4>2. f < y.from
        BY <1>7, <3>2, <4>1
      <4>3. \E j \in 1..k - 1 : ms[j].from = f /\ Over(j)
        BY <1>3, <2>4, <4>2
      <4>. HIDE DEF Over
      <4>. QED
        BY <2>1, <4>3
    <3>. HIDE DEF new, after, before, y, Over
    <3>4. \A p \in H : p <= lo + before.cursor \/ lo + (y.from - 1) < p
      <4>1. CASE Past(m, lo + before.cursor)
        BY <4>1 DEF Past, H
      <4>2. CASE y.from <= f
        <5>1. lo + (y.from - 1) < m.from
          BY <1>7, <3>2, <4>2
        <5>. QED
          BY <1>1, <3>2, <5>1
      <4>. QED
        BY <3>3, <4>1, <4>2
    <3>5. Hides(new, H)
      <4>1. Hides(before.prefix, H)
        BY <2>1 DEF before
      <4>. QED
        BY <1>1, <1>7, <3>2, <3>4, <4>1, TurnHides DEF new
    <3>6. lo + before.cursor \in Int /\ lo + y.to \in Int /\ lo + before.cursor <= lo + y.to
      <4>. DEFINE c == before.cursor
                  x == y.from
                  z == y.to
      <4>1. c \in Nat /\ x \in Int /\ z \in Int /\ c < x /\ x <= z
        BY <3>2
      <4>. HIDE DEF c, x, z
      <4>2. lo + c \in Int /\ lo + z \in Int /\ lo + c <= lo + z
        BY <4>1
      <4>. QED
        BY <4>2 DEF c, z
    <3>7. y.to < f \/ Past(m, lo + y.to)
      <4>1. CASE y.to < f
        BY <4>1
      <4>2. CASE ~(y.to < f) /\ y.from <= f
        <5>1. y.from = f
          BY <1>3, <1>7, <3>2, <4>2 DEF y
        <5>. QED
          BY <1>3, <2>4, <5>1 DEF y
      <4>3. CASE Past(m, lo + before.cursor)
        BY <1>1, <3>6, <4>3, PastStays DEF H
      <4>. QED
        BY <3>3, <4>1, <4>2, <4>3
    <3>8. (\E j \in 1..k : ms[j].from = f /\ Over(j)) => Past(m, lo + y.to)
      <4>1. SUFFICES ASSUME NEW j \in 1..k, ms[j].from = f, Over(j) PROVE Past(m, lo + y.to)
        OBVIOUS
      <4>2. CASE j = k
        <5>1. y.from = f /\ f \in Nat /\ y.from \in Int /\ y.to \in Int /\ y.from <= y.to
          BY <1>7, <3>2, <4>1, <4>2 DEF y
        <5>. QED
          BY <3>7, <5>1
      <4>3. CASE j # k
        <5>1. j \in 1..k - 1
          BY <2>1, <4>3
        <5>2. Past(m, lo + before.cursor)
          BY <2>1, <4>1, <5>1 DEF before
        <5>. QED
          BY <1>1, <3>6, <5>2, PastStays DEF H
      <4>. QED
        BY <4>2, <4>3
    <3>9. Fine(k)
      BY <3>1, <3>5, <3>7, <3>8 DEF after
    <3>. QED
      BY <2>1, <3>9
  <2>. QED
    BY <2>3, <2>4
<1>11. Fine(Len(ms))
  <2>1. Len(ms) \in 0..Len(ms)
    BY <1>7
  <2>2. Len(ms) \in Good
    <3>. HIDE DEF Good
    <3>. QED
      BY <1>7, <1>9, <1>10, <2>1, UpTo
  <2>. QED
    BY <2>2
<1>12. PICK mid \in lo..hi : mid = lo + g[Len(ms)].cursor
  <2>1. g[Len(ms)].cursor \in Nat /\ g[Len(ms)].cursor <= hi - lo
    BY <1>7, <1>8
  <2>. QED
    BY <1>7, <2>1
<1>13. Past(m, mid) \/ (mid < m.from /\ Held)
  <2>1. Past(m, mid) \/ g[Len(ms)].cursor < f
    BY <1>11, <1>12
  <2>2. g[Len(ms)].cursor < f => mid < m.from
    <3>1. g[Len(ms)].cursor \in Nat /\ f \in Nat /\ lo + f = m.from /\ mid = lo + g[Len(ms)].cursor
      <4>1. Len(ms) \in 0..Len(ms)
        BY <1>7
      <4>. QED
        BY <1>7, <1>8, <1>12, <4>1
    <3>. QED
      BY <3>1
  <2>3. Past(m, mid) \/ Held
    BY <1>3, <1>11, <1>12
  <2>. QED
    BY <2>1, <2>2, <2>3
<1>14. Hides(scan(part, allow).prefix, H) /\ scan(part, allow).rest = Run(mid, hi)
  BY <1>6, <1>11, <1>12
<1>. QED
  BY <1>13, <1>14 DEF H, Held

\* partial_match_start finds what may grow among the last characters, and no more than these.
LEMMA PartialStartHolds ==
    ASSUME NEW t, Len(t) \in Nat, NEW lookback \in Nat
    PROVE  /\ Len(t) + 1 - partial_match_start(t, lookback) <= lookback
           /\ \A i \in 1..Len(t) :
                 Partial(t, i) /\ Len(t) - i < lookback => partial_match_start(t, lookback) <= i
<1>. DEFINE N == Len(t)
            first == Max({1, N - lookback + 1})
            S == {i \in first..N : Partial(t, i)} \cup {N + 1}
            start == partial_match_start(t, lookback)
<1>1. first \in Int /\ 1 <= first /\ N - lookback + 1 <= first /\ first \in {1, N - lookback + 1}
  <2>. DEFINE d == N - lookback + 1
  <2>1. 1 \in Int /\ d \in Int
    OBVIOUS
  <2>. HIDE DEF d
  <2>2. first \in {1, d} /\ 1 <= first /\ d <= first
    BY <2>1, MaxOfTwo DEF d
  <2>. QED
    BY <2>1, <2>2 DEF d
<1>. HIDE DEF first
<1>2. start = Min(S)
  BY DEF partial_match_start, first
<1>. HIDE DEF start
<1>3. S \in SUBSET Nat /\ S # {}
  BY <1>1
<1>4. start \in S /\ \A y \in S : start <= y
  <2>. HIDE DEF S
  <2>. QED
    BY <1>2, <1>3, Lowest
<1>5. N + 1 - start <= lookback
  <2>1. start = N + 1 \/ start \in first..N
    BY <1>4
  <2>. QED
    BY <1>1, <2>1
<1>6. ASSUME NEW i \in 1..N, Partial(t, i), N - i < lookback PROVE start <= i
  <2>1. i \in first..N
    BY <1>1, <1>6
  <2>2. i \in S
    BY <1>6, <2>1
  <2>. QED
    BY <1>4, <2>2
<1>. QED
  BY <1>5, <1>6 DEF start

LEMMA RunSame ==
    ASSUME NEW n \in Nat, NEW hi \in 0..n, NEW a \in 0..hi, NEW b \in 0..hi, Run(a, hi) = Run(b, hi)
    PROVE  a = b
<1>1. hi \in a..n /\ hi \in b..n /\ a \in Nat /\ b \in Nat
  OBVIOUS
<1>2. Len(Run(a, hi)) = hi - a /\ Len(Run(b, hi)) = hi - b
  BY <1>1, RunTypes
<1>. QED
  BY <1>2

\* None of m's secret characters has been sent, and what is held begins before m or
\* behind all of them.
Withheld(m, at) ==
    /\ Hides(out, Secret(m))
    /\ phase = "open" => at < m.from \/ Past(m, at)

SecretInv ==
    /\ TypeOK
    /\ \E at \in 0..fed : Kept(at) /\ \A m : Guarded(m) => Withheld(m, at)

\* Pieces of the characters between two places hide what is not between them.
LEMMA ThreeHide ==
    ASSUME NEW H, H \in SUBSET Int, NEW n \in Nat, NEW a \in 0..n, NEW b \in a..n, NEW c \in b..n,
           NEW d \in c..n, NEW one \in Seq(Pieces(n)), NEW two \in Seq(Pieces(n)),
           NEW three \in Seq(Pieces(n)), NEW sent \in Seq(Pieces(n)),
           Covers(two, b, c), Covers(three, c, d), Hides(sent, H), Hides(one, H),
           \A p \in H : p <= b \/ d < p
    PROVE  Hides(sent \o one \o two \o three, H)
<1>1. b \in Nat /\ c \in Nat /\ d \in Nat /\ b <= c /\ c <= d
  OBVIOUS
<1>2. Hides(two, H) /\ Hides(three, H)
  <2>1. \A p \in H : (p <= b \/ c < p) /\ (p <= c \/ d < p)
    BY <1>1
  <2>. QED
    BY <1>1, <2>1, CoversHides
<1>3. sent \o one \in Seq(Pieces(n)) /\ Hides(sent \o one, H)
  BY HidesConcat
<1>4. (sent \o one) \o two \in Seq(Pieces(n)) /\ Hides((sent \o one) \o two, H)
  BY <1>2, <1>3, HidesConcat
<1>. QED
  BY <1>2, <1>4, HidesConcat

LEMMA ProcessHides ==
    ASSUME TypeOK, NEW n \in 1..MaxChunk, process(n), NEW at \in 0..fed, Kept(at),
           NEW m, Guarded(m), Withheld(m, at),
           NEW mid, NEW cut, NEW now, NEW one, NEW two, NEW three,
           Sends(at, mid, cut, now, fed + n, one, two, three)
    PROVE  Hides(out', Secret(m)) /\ (now < m.from \/ Past(m, now))
<1>. DEFINE L == Len(text)
            upto == fed + n
            H == Secret(m)
            P == Pieces(L)
<1>1. /\ text \in Seq(Characters) /\ L \in Nat /\ fed \in 0..L /\ out \in Seq(P)
      /\ upto \in 0..L /\ at \in 0..L /\ at <= upto
  <2>1. fed + n <= L /\ fed \in 0..L /\ L \in Nat /\ n \in Nat
    BY Texted, WindowNat DEF process
  <2>2. upto \in 0..L /\ at \in 0..L /\ at <= upto
    <3>. HIDE DEF L
    <3>. QED
      BY <2>1
  <2>. QED
    BY <2>2, Texted
<1>2. m.from \in 1..L /\ H \in SUBSET Int /\ \A p \in H : m.from <= p
  <2>1. m.from \in 1..L /\ m.to \in m.from..L
    BY <1>1, RedactedIs DEF Guarded
  <2>2. H \subseteq m.from..m.to
    BY DEF Secret
  <2>. HIDE DEF H, L
  <2>. QED
    BY <1>1, <2>1, <2>2
<1>3. /\ mid \in at..upto /\ cut \in mid..upto /\ now \in cut..upto
      /\ one \in Seq(P) /\ two \in Seq(P) /\ three \in Seq(P)
      /\ Covers(one, at, mid) /\ Covers(two, mid, cut) /\ Covers(three, cut, now)
      /\ one = scan(Run(at, upto), FALSE).prefix /\ Run(mid, upto) = scan(Run(at, upto), FALSE).rest
      /\ cut = mid + (partial_match_start(Chars(Run(mid, upto)), Window) - 1)
      /\ upto - cut <= Window => now = cut
      /\ out' = out \o one \o two \o three
  BY Zenon DEF Sends
<1>4. Hides(out, H) /\ (at < m.from \/ Past(m, at))
  BY DEF Withheld, process
<1>. HIDE DEF H, L, P, upto
<1>5. /\ mid \in 0..L /\ mid \in Nat /\ mid \in at..L /\ cut \in mid..L /\ now \in cut..L
      /\ cut \in Nat /\ now \in Nat /\ at \in Nat /\ upto \in Nat /\ upto \in at..L
      /\ mid \in 0..upto /\ at <= mid /\ mid <= cut /\ cut <= now /\ now <= upto
  <2>1. /\ L \in Nat /\ at \in Nat /\ upto \in Nat /\ at <= upto /\ upto <= L
        /\ mid \in Int /\ at <= mid /\ mid <= upto /\ cut \in Int /\ mid <= cut /\ cut <= upto
        /\ now \in Int /\ cut <= now /\ now <= upto
    <3>1. L \in Nat /\ at \in Nat /\ upto \in Nat /\ at <= upto /\ upto <= L
      BY <1>1
    <3>2. mid \in at..upto /\ cut \in mid..upto /\ now \in cut..upto
      BY <1>3
    <3>3. mid \in Int /\ at <= mid /\ mid <= upto
      BY <3>1, <3>2
    <3>4. cut \in Int /\ mid <= cut /\ cut <= upto
      BY <3>1, <3>2, <3>3
    <3>. QED
      BY <3>1, <3>2, <3>3, <3>4
  <2>. QED
    BY <2>1
<1>6. ASSUME Hides(one, H), \A p \in H : p <= mid \/ now < p PROVE Hides(out', H)
  BY <1>1, <1>2, <1>3, <1>4, <1>5, <1>6, ThreeHide DEF P
<1>7. CASE (\A p \in H : p <= at) \/ upto < m.from
  <2>1. \A p \in H : (p <= at \/ mid < p) /\ (p <= mid \/ now < p)
    BY <1>2, <1>5, <1>7
  <2>2. Hides(one, H)
    BY <1>1, <1>2, <1>3, <1>5, <2>1, CoversHides DEF P
  <2>3. now < m.from \/ \A p \in H : p <= now
    BY <1>2, <1>5, <1>7
  <2>. QED
    BY <1>6, <2>1, <2>2, <2>3 DEF Past, H
<1>8. CASE at < m.from /\ m.from <= upto
  <2>1. PICK x \in at..upto :
           /\ scan(Run(at, upto), FALSE).rest = Run(x, upto)
           /\ Hides(scan(Run(at, upto), FALSE).prefix, Secret(m))
           /\ \/ Past(m, x)
              \/ /\ x < m.from /\ upto - m.from < Window
                 /\ \A l \in 0..m.from - 1 : \A u : Part(u, l, upto) => Partial(u, m.from - l)
    <3>1. FALSE \in BOOLEAN /\ (FALSE => upto = Len(text)) /\ upto \in at..Len(text)
      BY <1>5 DEF L
    <3>2. \E x \in at..upto :
             /\ scan(Run(at, upto), FALSE).rest = Run(x, upto)
             /\ Hides(scan(Run(at, upto), FALSE).prefix, Secret(m))
             /\ \/ Past(m, x)
                \/ /\ x < m.from /\ ~FALSE /\ upto - m.from < Window
                   /\ \A l \in 0..m.from - 1 : \A u : Part(u, l, upto) => Partial(u, m.from - l)
      BY <1>1, <1>5, <1>8, <3>1, ScanHides
    <3>. QED
      BY <3>2
  <2>2. x = mid
    <3>1. x \in 0..upto
      <4>1. x \in at..upto /\ at \in Nat /\ upto \in Nat
        BY <1>5
      <4>. QED
        BY <4>1
    <3>2. upto \in 0..L /\ Run(x, upto) = Run(mid, upto)
      BY <1>1, <1>3, <2>1
    <3>. QED
      BY <1>1, <1>5, <3>1, <3>2, RunSame
  <2>3. Hides(one, H)
    BY <1>3, <2>1 DEF H
  <2>4. CASE Past(m, mid)
    <3>1. \A p \in H : p <= mid /\ p <= now
      BY <1>2, <1>5, <2>4 DEF Past, H
    <3>. QED
      BY <1>6, <2>3, <3>1 DEF Past, H
  <2>5. CASE /\ mid < m.from /\ upto - m.from < Window
             /\ \A l \in 0..m.from - 1 : \A u : Part(u, l, upto) => Partial(u, m.from - l)
    <3>. DEFINE t == Chars(Run(mid, upto))
                i == m.from - mid
    <3>1. Part(t, mid, upto)
      <4>1. upto \in mid..L
        BY <1>1, <1>5
      <4>. QED
        BY <1>1, <1>5, <4>1, CharsArePart DEF L
    <3>2. Len(t) = upto - mid /\ Len(t) \in Nat
      BY <1>5, <3>1 DEF Part
    <3>. HIDE DEF t
    <3>3. mid \in 0..m.from - 1 /\ i \in 1..Len(t) /\ Len(t) - i < Window
      <4>1. m.from \in Int /\ mid < m.from /\ m.from <= upto /\ upto - m.from < Window
        BY <1>2, <1>8, <2>5
      <4>2. mid \in Nat /\ upto \in Nat /\ Len(t) = upto - mid /\ Window \in Nat
        BY <1>5, <3>2, WindowNat
      <4>. DEFINE f == m.from
                  N == Len(t)
      <4>3. /\ f \in Int /\ mid < f /\ f <= upto /\ upto - f < Window
            /\ mid \in Nat /\ upto \in Nat /\ N = upto - mid /\ Window \in Nat
        BY <4>1, <4>2
      <4>. HIDE DEF f, N
      <4>4. mid \in 0..f - 1 /\ f - mid \in 1..N /\ N - (f - mid) < Window
        BY <4>3
      <4>. QED
        BY <4>4 DEF f, N
    <3>4. Partial(t, i)
      BY <2>5, <3>1, <3>3
    <3>. HIDE DEF i
    <3>5. /\ partial_match_start(t, Window) <= i
          /\ Len(t) + 1 - partial_match_start(t, Window) <= Window
          /\ partial_match_start(t, Window) \in Int
      BY <3>2, <3>3, <3>4, WindowNat, PartialStart, PartialStartHolds
    <3>6. cut = mid + (partial_match_start(t, Window) - 1)
      BY <1>3 DEF t
    <3>7. cut < m.from /\ upto - cut <= Window
      <4>1. i = m.from - mid /\ m.from \in Int /\ mid \in Nat /\ upto \in Nat /\ Window \in Nat
        BY <1>2, <1>5, WindowNat DEF i
      <4>. DEFINE start == partial_match_start(t, Window)
                  N == Len(t)
      <4>2. start \in Int /\ start <= i /\ N + 1 - start <= Window /\ cut = mid + (start - 1)
            /\ N = upto - mid
        BY <3>2, <3>5, <3>6
      <4>. HIDE DEF start, N
      <4>. QED
        BY <4>1, <4>2
    <3>8. now = cut /\ now < m.from
      BY <1>3, <3>7
    <3>9. \A p \in H : now < p
      BY <1>2, <1>5, <3>8
    <3>. QED
      BY <1>6, <2>3, <3>8, <3>9 DEF H
  <2>. QED
    BY <2>1, <2>2, <2>4, <2>5
<1>. QED
  <2>1. at < m.from \/ (\A p \in H : p <= at)
    BY <1>4 DEF Past, H
  <2>2. upto < m.from \/ m.from <= upto
    BY <1>2, <1>5
  <2>. QED
    BY <1>7, <1>8, <2>1, <2>2 DEF H

LEMMA FlushHides ==
    ASSUME TypeOK, flush, NEW at \in 0..fed, Kept(at), NEW m, Guarded(m), Withheld(m, at)
    PROVE  Hides(out', Secret(m))
<1>. DEFINE L == Len(text)
            H == Secret(m)
            P == Pieces(L)
            s == scan(Run(at, L), TRUE)
            rest == redact(Run(at, L))
<1>1. /\ text \in Seq(Characters) /\ L \in Nat /\ fed = L /\ out \in Seq(P)
      /\ at \in 0..L /\ at \in Nat /\ L \in at..L
  <2>1. L \in Nat /\ fed = L
    BY Texted DEF flush
  <2>2. at \in 0..L
    BY <2>1
  <2>3. at \in Nat /\ L \in at..L
    <3>. HIDE DEF L
    <3>. QED
      BY <2>1, <2>2
  <2>. QED
    BY <2>1, <2>2, <2>3, Texted
<1>2. m.from \in 1..L /\ H \in SUBSET Int /\ \A p \in H : m.from <= p
  <2>1. m.from \in 1..L /\ m.to \in m.from..L
    BY <1>1, RedactedIs DEF Guarded
  <2>2. H \subseteq m.from..m.to
    BY DEF Secret
  <2>. HIDE DEF H, L
  <2>. QED
    BY <1>1, <2>1, <2>2
<1>3. out' = out \o rest
  BY <1>1 DEF flush, Kept
<1>4. Hides(out, H) /\ (at < m.from \/ Past(m, at))
  BY DEF Withheld, flush
<1>5. rest = s.prefix \o Clear(s.rest)
  BY Zenon DEF redact
<1>6. rest \in Seq(P) /\ Covers(rest, at, L)
  BY <1>1, RedactCovers
<1>7. Splits(s, L, at, L)
  BY <1>1, ScanCovers
<1>. HIDE DEF H, L, P, s, rest
<1>8. ASSUME Hides(rest, H) PROVE Hides(out', H)
  BY <1>1, <1>3, <1>4, <1>6, <1>8, HidesConcat DEF P
<1>9. CASE Past(m, at)
  <2>1. \A p \in H : p <= at \/ L < p
    BY <1>9 DEF Past, H
  <2>. QED
    BY <1>1, <1>2, <1>6, <1>8, <2>1, CoversHides DEF P, H
<1>10. CASE at < m.from
  <2>1. PICK mid \in at..L : s.rest = Run(mid, L) /\ Hides(s.prefix, H) /\ Past(m, mid)
    <3>1. TRUE \in BOOLEAN /\ (TRUE => L = Len(text)) /\ L \in at..Len(text) /\ m.from <= L
      BY <1>1, <1>2 DEF L
    <3>2. \E x \in at..L :
             /\ scan(Run(at, L), TRUE).rest = Run(x, L)
             /\ Hides(scan(Run(at, L), TRUE).prefix, Secret(m))
             /\ \/ Past(m, x)
                \/ /\ x < m.from /\ ~TRUE /\ L - m.from < Window
                   /\ \A l \in 0..m.from - 1 : \A u : Part(u, l, L) => Partial(u, m.from - l)
      BY <1>1, <1>10, <3>1, ScanHides
    <3>. QED
      BY <3>2 DEF s, H
  <2>2. mid \in Nat /\ L \in mid..L
    BY <1>1
  <2>3. Clear(s.rest) \in Seq(P) /\ Covers(Clear(s.rest), mid, L)
    BY <1>1, <2>1, <2>2, ClearCovers DEF P
  <2>4. Hides(Clear(s.rest), H)
    <3>1. \A p \in H : p <= mid \/ L < p
      BY <2>1 DEF Past, H
    <3>. QED
      BY <1>1, <1>2, <2>2, <2>3, <3>1, CoversHides DEF P
  <2>5. s.prefix \in Seq(P)
    BY <1>7 DEF Splits, P
  <2>. QED
    BY <1>1, <1>5, <1>8, <2>1, <2>3, <2>4, <2>5, HidesConcat DEF P, H
<1>. QED
  BY <1>4, <1>9, <1>10 DEF H

\* The text does not change: what a match is and hides is the same after a step.
LEMMA TextStays ==
    ASSUME text' = text, NEW m
    PROVE  (Guarded(m) <=> Guarded(m)') /\ Secret(m)' = Secret(m)
<1>1. Redacted' = Redacted
  BY DEF Redacted
<1>2. Alone(m)' <=> Alone(m)
  BY DEF Alone
<1>3. Plain(m)' <=> Plain(m)
  BY DEF Plain
<1>4. Secret(m)' = Secret(m)
  BY DEF Secret
<1>. QED
  BY <1>1, <1>2, <1>3, <1>4 DEF Guarded

\* Past(m, at) in the state after the step, in which the text is the same.
LEMMA WithheldAfter ==
    ASSUME text' = text, NEW m, NEW at, Hides(out', Secret(m)),
           phase' = "open" => at < m.from \/ Past(m, at)
    PROVE  Withheld(m, at)'
<1>1. Secret(m)' = Secret(m)
  BY TextStays
<1>2. Hides(out, Secret(m))'
  BY <1>1 DEF Hides
<1>3. phase' = "open" => at < m.from \/ Past(m, at)'
  BY <1>1 DEF Past
<1>. QED
  BY <1>2, <1>3 DEF Withheld

LEMMA SecretInit == Init => SecretInv
<1>. SUFFICES ASSUME Init PROVE SecretInv
  OBVIOUS
<1>1. RedactorInv /\ fed = 0 /\ out = <<>>
  BY InitKeeps DEF Init
<1>2. PICK at \in 0..fed : Kept(at)
  BY <1>1 DEF RedactorInv
<1>3. text \in Seq(Characters) /\ TypeOK
  BY <1>1, Texted DEF RedactorInv
<1>4. at = 0
  BY <1>1, <1>2
<1>5. ASSUME NEW m, Guarded(m) PROVE Withheld(m, at)
  <2>1. m.from \in 1..Len(text) /\ Len(text) \in Nat
    BY <1>3, <1>5, RedactedIs, LenProperties DEF Guarded
  <2>2. at < m.from
    BY <1>4, <2>1
  <2>3. Hides(out, Secret(m))
    <3>1. Len(out) = 0
      BY <1>1, EmptySeq
    <3>. QED
      BY <3>1 DEF Hides
  <2>. QED
    BY <2>2, <2>3 DEF Withheld
<1>. QED
  BY <1>2, <1>3, <1>5 DEF SecretInv

LEMMA SecretNext == SecretInv /\ [Next]_vars => SecretInv'
<1>. SUFFICES ASSUME SecretInv, [Next]_vars PROVE SecretInv'
  OBVIOUS
<1>1. TypeOK
  BY DEF SecretInv
<1>2. PICK at \in 0..fed : Kept(at) /\ \A m : Guarded(m) => Withheld(m, at)
  BY DEF SecretInv
<1>3. ASSUME NEW n \in 1..MaxChunk, process(n) PROVE SecretInv'
  <2>1. PICK mid, cut, now, one, two, three :
           /\ Sends(at, mid, cut, now, fed + n, one, two, three)
           /\ TypeOK' /\ Kept(now)' /\ now \in 0..fed'
    BY <1>1, <1>2, <1>3, ProcessSplits
  <2>2. text' = text
    BY <1>3 DEF process
  <2>3. ASSUME NEW m, Guarded(m)' PROVE Withheld(m, now)'
    <3>1. Guarded(m) /\ Withheld(m, at)
      BY <1>2, <2>2, <2>3, TextStays
    <3>2. Hides(out', Secret(m)) /\ (now < m.from \/ Past(m, now))
      BY <1>1, <1>2, <1>3, <2>1, <3>1, ProcessHides
    <3>. QED
      BY <2>2, <3>2, WithheldAfter
  <2>. QED
    BY <2>1, <2>3 DEF SecretInv
<1>4. ASSUME flush PROVE SecretInv'
  <2>1. PICK end \in 0..fed' : TypeOK' /\ Kept(end)'
    <3>1. RedactorInv
      BY <1>1, <1>2 DEF RedactorInv
    <3>. QED
      BY <1>4, <3>1, FlushKeeps DEF RedactorInv
  <2>2. text' = text /\ phase' # "open"
    BY <1>4 DEF flush
  <2>3. ASSUME NEW m, Guarded(m)' PROVE Withheld(m, end)'
    <3>1. Guarded(m) /\ Withheld(m, at)
      BY <1>2, <2>2, <2>3, TextStays
    <3>2. Hides(out', Secret(m))
      BY <1>1, <1>2, <1>4, <3>1, FlushHides
    <3>. QED
      BY <2>2, <3>2, WithheldAfter
  <2>. QED
    BY <2>1, <2>3 DEF SecretInv
<1>5. ASSUME text' = text, out' = out, fed' = fed, RedactorInv', Kept(at)',
             phase' = "open" => phase = "open"
      PROVE  SecretInv'
  <2>1. ASSUME NEW m, Guarded(m)' PROVE Withheld(m, at)'
    <3>1. Guarded(m) /\ Withheld(m, at)
      BY <1>2, <1>5, <2>1, TextStays
    <3>2. Hides(out', Secret(m)) /\ (phase' = "open" => at < m.from \/ Past(m, at))
      BY <1>5, <3>1 DEF Withheld
    <3>. QED
      BY <1>5, <3>2, WithheldAfter
  <2>. QED
    BY <1>2, <1>5, <2>1 DEF SecretInv, RedactorInv
<1>6. RedactorInv
  BY <1>1, <1>2 DEF RedactorInv
<1>7. ASSUME Abandon PROVE SecretInv'
  <2>1. text' = text /\ out' = out /\ fed' = fed /\ phase' = "dropped"
    BY <1>7 DEF Abandon
  <2>2. Kept(at)'
    BY <1>2, <1>7, <2>1 DEF Kept, Abandon
  <2>. QED
    BY <1>5, <1>6, <1>7, <2>1, <2>2, AbandonKeeps
<1>8. ASSUME UNCHANGED vars PROVE SecretInv'
  <2>1. text' = text /\ out' = out /\ fed' = fed /\ phase' = phase /\ buffer' = buffer
    BY <1>8 DEF vars
  <2>2. Kept(at)'
    BY <1>2, <2>1 DEF Kept
  <2>3. RedactorInv'
    BY <1>6, <1>8, NextKeeps
  <2>. QED
    BY <1>5, <2>1, <2>2, <2>3
<1>9. CASE Finished
  BY <1>8, <1>9 DEF Finished
<1>. QED
  BY <1>3, <1>4, <1>7, <1>8, <1>9 DEF Next

\* However the answer is cut into chunks, no secret character of an address, a social
\* security number or a card is sent that fits the window, stands alone and has no other
\* match in it: process holds it back (partial_match_start) until it is whole, and flush
\* replaces it.
THEOREM SecretsAreHidden == Spec => []SecretsHidden
<1>1. ASSUME SecretInv PROVE SecretsHidden
  <2>1. PICK at \in 0..fed : \A m : Guarded(m) => Withheld(m, at)
    BY <1>1 DEF SecretInv
  <2>2. \A m : Guarded(m) => Hides(out, Secret(m))
    BY <2>1 DEF Withheld
  <2>3. DOMAIN out = 1..Len(out)
    BY <1>1, Texted, LenProperties DEF SecretInv
  <2>. QED
    BY <2>2, <2>3 DEF SecretsHidden, Guarded, Hides
<1>2. SecretInv => SecretsHidden
  BY <1>1
<1>. QED
  BY <1>2, SecretInit, SecretNext, PTL DEF Spec
=============================================================================
