-------------------------------- MODULE Loops ---------------------------------
(***************************************************************************)
(* Facts about loops, for the proofs about modules whose operators are     *)
(* loops over a sequence: induction and recursion over an interval, and    *)
(* extreme numbers.  They are stated of sets and functions, so that they   *)
(* can be used for any definition.                                         *)
(***************************************************************************)
EXTENDS Integers, Sequences, FiniteSets, SequencesExt, SequenceTheorems, NaturalsInduction,
        WellFoundedInduction, TLAPS

LEMMA Least ==
    ASSUME NEW S \in SUBSET Nat, S # {}
    PROVE  \E x \in S : \A y \in S : x <= y
<1>. DEFINE Less == {xy \in Nat \X Nat : xy[1] < xy[2]}
<1>1. IsWellFoundedOn(Less, Nat)
  BY NatLessThanWellFounded, Zenon DEF OpToRel
<1>2. \E x \in S : \A y \in S : ~ (<<y, x>> \in Less)
  <2>. HIDE DEF Less
  <2>. QED
    BY <1>1, WFMin
<1>3. PICK x \in S : \A y \in S : ~ (<<y, x>> \in Less)
  BY <1>2
<1>4. ASSUME NEW y \in S PROVE x <= y
  <2>1. x \in Nat /\ y \in Nat /\ <<y, x>> \notin Less
    BY <1>3
  <2>2. <<y, x>> \in Nat \X Nat
    BY <2>1
  <2>3. ~(y < x)
    BY <2>1, <2>2
  <2>. QED
    BY <2>1, <2>3
<1>. QED
  BY <1>4

LEMMA UpTo ==
    ASSUME NEW n \in Nat, NEW Good, 0 \in Good, \A k \in 1..n : k - 1 \in Good => k \in Good
    PROVE  \A k \in 0..n : k \in Good
<1>. DEFINE Wrong == {k \in 0..n : k \notin Good}
<1>1. SUFFICES ASSUME Wrong # {} PROVE FALSE
  OBVIOUS
<1>2. PICK k \in Wrong : \A j \in Wrong : k <= j
  <2>1. Wrong \in SUBSET Nat
    OBVIOUS
  <2>. HIDE DEF Wrong
  <2>. QED
    BY <1>1, <2>1, Least
<1>3. k \in 1..n /\ k - 1 \in 0..n /\ k - 1 \notin Wrong
  BY <1>2
<1>. QED
  BY <1>2, <1>3

\* From a value of V, step makes the next one.
StepsIn(n, V, step) == \A k \in 1..n : \A v \in V : step[<<k, v>>] \in V
Follows(n, base, step, f) == f[0] = base /\ \A k \in 1..n : f[k] = step[<<k, f[k - 1]>>]

LEMMA Recursion ==
    ASSUME NEW n \in Nat, NEW V, NEW base \in V, NEW step, StepsIn(n, V, step)
    PROVE  \E f \in [0..n -> V] : Follows(n, base, step, f)
<1>. DEFINE Good == {m \in 0..n : \E f \in [0..m -> V] : Follows(m, base, step, f)}
<1>1. 0 \in Good
  <2>1. [k \in 0..0 |-> base] \in [0..0 -> V] /\ Follows(0, base, step, [k \in 0..0 |-> base])
    BY DEF Follows
  <2>. QED
    BY <2>1
<1>2. ASSUME NEW m \in 1..n, m - 1 \in Good PROVE m \in Good
  <2>1. PICK f \in [0..m - 1 -> V] : Follows(m - 1, base, step, f)
    BY <1>2
  <2>. DEFINE next == step[<<m, f[m - 1]>>]
              g == [k \in 0..m |-> IF k = m THEN next ELSE f[k]]
  <2>2. next \in V
    <3>1. m - 1 \in 0..m - 1
      OBVIOUS
    <3>2. f[m - 1] \in V
      BY <2>1, <3>1
    <3>. QED
      BY <3>2 DEF StepsIn
  <2>3. g \in [0..m -> V]
    <3>. HIDE DEF next
    <3>1. ASSUME NEW k \in 0..m, k # m PROVE k \in 0..m - 1
      BY <3>1
    <3>. QED
      BY <2>2, <3>1
  <2>4. g[0] = base
    <3>1. 0 \in 0..m /\ 0 # m
      OBVIOUS
    <3>. QED
      BY <2>1, <3>1 DEF Follows
  <2>5. ASSUME NEW k \in 1..m PROVE g[k] = step[<<k, g[k - 1]>>]
    <3>1. k \in 0..m /\ k - 1 \in 0..m /\ k - 1 # m
      OBVIOUS
    <3>2. g[k - 1] = f[k - 1]
      <4>. HIDE DEF next
      <4>. QED
        BY <3>1
    <3>3. CASE k = m
      BY <3>1, <3>2, <3>3
    <3>4. CASE k # m
      <4>1. k \in 1..m - 1
        BY <3>4
      <4>2. g[k] = f[k]
        BY <3>1, <3>4
      <4>. HIDE DEF g
      <4>. QED
        BY <2>1, <3>2, <4>1, <4>2 DEF Follows
    <3>. QED
      BY <3>3, <3>4
  <2>6. Follows(m, base, step, g)
    <3>. HIDE DEF g
    <3>. QED
      BY <2>4, <2>5 DEF Follows
  <2>7. m \in 0..n
    OBVIOUS
  <2>. HIDE DEF g, next
  <2>. QED
    BY <2>3, <2>6, <2>7
<1>3. \A k \in 0..n : k \in Good
  <2>. HIDE DEF Good
  <2>. QED
    BY <1>1, <1>2, UpTo
<1>4. n \in Good
  <2>1. n \in 0..n
    OBVIOUS
  <2>. HIDE DEF Good
  <2>. QED
    BY <1>3, <2>1
<1>. QED
  BY <1>4

LEMMA Largest ==
    ASSUME NEW n \in Nat, NEW S \in SUBSET (0..n), S # {}
    PROVE  Max(S) \in S /\ \A y \in S : y <= Max(S)
<1>. DEFINE Below == {n - x : x \in S}
<1>1. PICK b \in Below : \A y \in Below : b <= y
  <2>1. Below \in SUBSET Nat /\ Below # {}
    <3>1. \A x \in S : n - x \in Nat
      OBVIOUS
    <3>. QED
      BY <3>1, Zenon
  <2>. HIDE DEF Below
  <2>. QED
    BY <2>1, Least
<1>2. PICK x \in S : b = n - x
  BY <1>1
<1>3. \A y \in S : x >= y
  BY <1>1, <1>2
<1>. QED
  BY <1>3 DEF Max

LEMMA Lowest ==
    ASSUME NEW S \in SUBSET Nat, S # {}
    PROVE  Min(S) \in S /\ \A y \in S : Min(S) <= y
BY Least DEF Min

-----------------------------------------------------------------------------
(* Sequences of sequences, one after the other.                            *)

\* Each two of a sequence are related by R, the earlier one to the later one.
InOrder(s, R) == \A a, b \in 1..Len(s) : a < b => <<s[a], s[b]>> \in R

\* What stands in the first k of seqs.
Within(seqs, k) == UNION {{seqs[i][j] : j \in 1..Len(seqs[i])} : i \in 1..k}

Flattens(seqs, f) ==
    f = [i \in 1..Len(seqs) |-> IF i = 1 THEN seqs[i] ELSE f[i - 1] \o seqs[i]]

LEMMA ConcatInOrder ==
    ASSUME NEW S, NEW s \in Seq(S), NEW r \in Seq(S), NEW R, InOrder(s, R), InOrder(r, R),
           \A a \in 1..Len(s), b \in 1..Len(r) : <<s[a], r[b]>> \in R
    PROVE  InOrder(s \o r, R)
<1>. DEFINE both == s \o r
<1>1. /\ Len(s) \in Nat /\ Len(r) \in Nat /\ Len(both) = Len(s) + Len(r)
      /\ \A i \in 1..Len(s) + Len(r) : both[i] = IF i <= Len(s) THEN s[i] ELSE r[i - Len(s)]
  BY ConcatProperties, LenProperties
<1>. HIDE DEF both
<1>2. ASSUME NEW a \in 1..Len(both), NEW b \in 1..Len(both), a < b
      PROVE  <<both[a], both[b]>> \in R
  <2>1. a \in 1..Len(s) + Len(r) /\ b \in 1..Len(s) + Len(r)
    BY <1>1
  <2>2. CASE b <= Len(s)
    <3>1. a \in 1..Len(s) /\ b \in 1..Len(s) /\ a <= Len(s)
      BY <1>1, <1>2, <2>1, <2>2
    <3>2. both[a] = s[a] /\ both[b] = s[b]
      BY <1>1, <2>1, <2>2, <3>1
    <3>. QED
      BY <1>2, <3>1, <3>2 DEF InOrder
  <2>3. CASE a <= Len(s) /\ ~(b <= Len(s))
    <3>1. a \in 1..Len(s) /\ b - Len(s) \in 1..Len(r)
      BY <1>1, <2>1, <2>3
    <3>2. both[a] = s[a] /\ both[b] = r[b - Len(s)]
      BY <1>1, <2>1, <2>3
    <3>. QED
      BY <3>1, <3>2
  <2>4. CASE ~(a <= Len(s)) /\ ~(b <= Len(s))
    <3>1. a - Len(s) \in 1..Len(r) /\ b - Len(s) \in 1..Len(r) /\ a - Len(s) < b - Len(s)
      BY <1>1, <1>2, <2>1, <2>4
    <3>2. both[a] = r[a - Len(s)] /\ both[b] = r[b - Len(s)]
      BY <1>1, <2>1, <2>4
    <3>. QED
      BY <3>1, <3>2 DEF InOrder
  <2>5. a <= Len(s) \/ ~(b <= Len(s))
    BY <1>1, <1>2, <2>1
  <2>. QED
    BY <2>2, <2>3, <2>4, <2>5
<1>. QED
  BY <1>2 DEF InOrder, both

LEMMA FlattenUnfolds ==
    ASSUME NEW S, NEW seqs \in Seq(Seq(S)), seqs # <<>>
    PROVE  \E f : /\ f[1] = seqs[1]
                  /\ \A k \in 2..Len(seqs) : f[k] = f[k - 1] \o seqs[k]
                  /\ FlattenSeq(seqs) = f[Len(seqs)]
<1>. DEFINE n == Len(seqs)
            V == Seq(S)
            step == [kv \in (1..n) \X V |->
                        IF kv[1] = 1 THEN seqs[kv[1]] ELSE kv[2] \o seqs[kv[1]]]
<1>1. n \in Nat \ {0} /\ <<>> \in V /\ \A k \in 1..n : seqs[k] \in V
  BY EmptySeq, ElementOfSeq
<1>2. \A k \in 1..n : \A v \in V : step[<<k, v>>] = IF k = 1 THEN seqs[k] ELSE v \o seqs[k]
  OBVIOUS
<1>3. StepsIn(n, V, step)
  <2>1. ASSUME NEW k \in 1..n, NEW v \in V PROVE v \o seqs[k] \in V
    BY <1>1, ConcatProperties
  <2>. HIDE DEF n, step, V
  <2>. QED
    BY <1>1, <1>2, <2>1 DEF StepsIn
<1>. HIDE DEF step
<1>4. PICK f \in [0..n -> V] : Follows(n, <<>>, step, f)
  <2>. HIDE DEF n, V
  <2>. QED
    BY <1>1, <1>3, Recursion
<1>. DEFINE g == [k \in 1..n |-> f[k]]
<1>5. ASSUME NEW k \in 1..n PROVE g[k] = IF k = 1 THEN seqs[k] ELSE g[k - 1] \o seqs[k]
  <2>1. f[k - 1] \in V /\ k - 1 \in 0..n
    <3>. HIDE DEF n, V
    <3>1. k - 1 \in 0..n
      BY <1>1
    <3>. QED
      BY <1>4, <3>1
  <2>2. f[k] = step[<<k, f[k - 1]>>]
    BY <1>4 DEF Follows
  <2>3. k # 1 => k - 1 \in 1..n
    BY <1>1
  <2>. HIDE DEF n, V
  <2>. QED
    BY <1>2, <2>1, <2>2, <2>3
<1>6. Flattens(seqs, g)
  BY <1>5 DEF Flattens
<1>. DEFINE h == CHOOSE x : Flattens(seqs, x)
<1>7. Flattens(seqs, h)
  BY <1>6
<1>8. FlattenSeq(seqs) = h[n]
  BY <1>1 DEF FlattenSeq, Flattens
<1>. HIDE DEF h
<1>9. h[1] = seqs[1] /\ \A k \in 2..n : h[k] = h[k - 1] \o seqs[k]
  <2>1. 1 \in 1..n /\ \A k \in 2..n : k \in 1..n /\ k # 1
    BY <1>1
  <2>2. h = [i \in 1..n |-> IF i = 1 THEN seqs[i] ELSE h[i - 1] \o seqs[i]]
    BY <1>7 DEF Flattens
  <2>. HIDE DEF n
  <2>. QED
    BY <2>1, <2>2
<1>. QED
  BY <1>8, <1>9

LEMMA FlattenOrdered ==
    ASSUME NEW S, NEW seqs \in Seq(Seq(S)), NEW R,
           \A i \in 1..Len(seqs) : InOrder(seqs[i], R),
           \A i, k \in 1..Len(seqs) : i < k =>
               \A j \in 1..Len(seqs[i]), l \in 1..Len(seqs[k]) : <<seqs[i][j], seqs[k][l]>> \in R
    PROVE  /\ FlattenSeq(seqs) \in Seq(S) /\ InOrder(FlattenSeq(seqs), R)
           /\ \A a \in 1..Len(FlattenSeq(seqs)) :
                 FlattenSeq(seqs)[a] \in Within(seqs, Len(seqs))
<1>1. CASE seqs = <<>>
  <2>1. FlattenSeq(seqs) = <<>> /\ Len(<<>>) = 0 /\ <<>> \in Seq(S)
    BY <1>1, EmptySeq DEF FlattenSeq
  <2>. QED
    BY <2>1 DEF InOrder
<1>2. CASE seqs # <<>>
  <2>. DEFINE n == Len(seqs)
  <2>1. PICK f : /\ f[1] = seqs[1] /\ \A k \in 2..n : f[k] = f[k - 1] \o seqs[k]
                 /\ FlattenSeq(seqs) = f[n]
    BY <1>2, FlattenUnfolds
  <2>2. n \in Nat \ {0} /\ \A k \in 1..n : seqs[k] \in Seq(S)
    BY <1>2, EmptySeq, ElementOfSeq
  <2>. DEFINE Fine(k) == /\ f[k] \in Seq(S) /\ InOrder(f[k], R)
                         /\ \A a \in 1..Len(f[k]) : f[k][a] \in Within(seqs, k)
              Good == {k \in 0..n : k = 0 \/ Fine(k)}
  <2>3. 0 \in Good
    BY <2>2
  <2>4. ASSUME NEW k \in 1..n, k - 1 \in Good PROVE k \in Good
    <3>1. CASE k = 1
      <4>1. \A a \in 1..Len(seqs[1]) : seqs[1][a] \in Within(seqs, 1)
        BY DEF Within
      <4>. QED
        BY <2>1, <2>2, <3>1, <4>1
    <3>2. CASE k # 1
      <4>1. k \in 2..n /\ k - 1 \in 1..n /\ k - 1 # 0
        BY <2>2, <3>2
      <4>2. Fine(k - 1)
        BY <2>4, <4>1
      <4>3. f[k] = f[k - 1] \o seqs[k]
        BY <2>1, <4>1
      <4>4. ASSUME NEW a \in 1..Len(f[k - 1]), NEW b \in 1..Len(seqs[k])
            PROVE  <<f[k - 1][a], seqs[k][b]>> \in R
        <5>1. PICK i \in 1..k - 1 : f[k - 1][a] \in {seqs[i][j] : j \in 1..Len(seqs[i])}
          BY <4>2 DEF Within
        <5>2. PICK j \in 1..Len(seqs[i]) : f[k - 1][a] = seqs[i][j]
          BY <5>1
        <5>3. i \in 1..n /\ i < k
          BY <2>2, <4>1
        <5>. QED
          BY <5>2, <5>3
      <4>5. InOrder(f[k], R)
        <5>. HIDE DEF n
        <5>1. InOrder(seqs[k], R) /\ seqs[k] \in Seq(S)
          BY <2>2 DEF n
        <5>. QED
          BY <4>2, <4>3, <4>4, <5>1, ConcatInOrder
      <4>6. f[k] \in Seq(S) /\ \A a \in 1..Len(f[k]) : f[k][a] \in Within(seqs, k)
        <5>1. /\ f[k] \in Seq(S) /\ Len(f[k]) = Len(f[k - 1]) + Len(seqs[k])
              /\ \A i \in 1..Len(f[k - 1]) + Len(seqs[k]) : f[k][i] =
                    IF i <= Len(f[k - 1]) THEN f[k - 1][i] ELSE seqs[k][i - Len(f[k - 1])]
              /\ Len(f[k - 1]) \in Nat /\ Len(seqs[k]) \in Nat
          <6>. HIDE DEF n
          <6>1. f[k - 1] \in Seq(S) /\ seqs[k] \in Seq(S)
            BY <2>2, <4>2
          <6>2. Len(f[k - 1]) \in Nat /\ Len(seqs[k]) \in Nat
            BY <6>1, LenProperties
          <6>. DEFINE front == f[k - 1]
          <6>3. /\ front \o seqs[k] \in Seq(S) /\ Len(front \o seqs[k]) = Len(front) + Len(seqs[k])
                /\ \A i \in 1..Len(front) + Len(seqs[k]) : (front \o seqs[k])[i] =
                      IF i <= Len(front) THEN front[i] ELSE seqs[k][i - Len(front)]
            <7>. HIDE DEF front
            <7>1. front \in Seq(S)
              BY <6>1 DEF front
            <7>. QED
              BY <6>1, <7>1, ConcatProperties
          <6>. QED
            BY <4>3, <6>2, <6>3
        <5>2. ASSUME NEW a \in 1..Len(f[k]) PROVE f[k][a] \in Within(seqs, k)
          <6>1. a \in 1..Len(f[k - 1]) + Len(seqs[k])
            BY <5>1
          <6>2. CASE a <= Len(f[k - 1])
            <7>1. a \in 1..Len(f[k - 1])
              BY <6>1, <6>2
            <7>2. f[k][a] = f[k - 1][a] /\ f[k - 1][a] \in Within(seqs, k - 1)
              BY <4>2, <5>1, <6>1, <6>2, <7>1
            <7>3. 1..k - 1 \subseteq 1..k
              OBVIOUS
            <7>. QED
              BY <7>2, <7>3 DEF Within
          <6>3. CASE ~(a <= Len(f[k - 1]))
            <7>1. a - Len(f[k - 1]) \in 1..Len(seqs[k]) /\ k \in 1..k
              <8>. DEFINE m == Len(f[k - 1])
                          l == Len(seqs[k])
              <8>1. m \in Nat /\ l \in Nat /\ a \in 1..m + l /\ ~(a <= m)
                BY <5>1, <6>1, <6>3
              <8>. HIDE DEF m, l
              <8>2. a - m \in 1..l /\ k \in 1..k
                BY <8>1
              <8>. QED
                BY <8>2 DEF m, l
            <7>2. f[k][a] = seqs[k][a - Len(f[k - 1])]
              BY <5>1, <6>1, <6>3
            <7>. QED
              BY <7>1, <7>2 DEF Within
          <6>. QED
            BY <6>2, <6>3
        <5>. QED
          BY <5>1, <5>2
      <4>. QED
        BY <4>5, <4>6
    <3>. QED
      BY <3>1, <3>2
  <2>5. n \in Good
    <3>1. n \in 0..n
      BY <2>2
    <3>. HIDE DEF Good, n
    <3>. QED
      BY <2>2, <2>3, <2>4, <3>1, UpTo
  <2>. QED
    BY <2>1, <2>2, <2>5
<1>. QED
  BY <1>1, <1>2

LEMMA FlattenHolds ==
    ASSUME NEW S, NEW seqs \in Seq(Seq(S)), NEW i \in 1..Len(seqs), NEW j \in 1..Len(seqs[i])
    PROVE  \E a \in 1..Len(FlattenSeq(seqs)) : FlattenSeq(seqs)[a] = seqs[i][j]
<1>. DEFINE n == Len(seqs)
            x == seqs[i][j]
<1>1. n \in Nat /\ n >= 1 /\ \A k \in 1..n : seqs[k] \in Seq(S)
  <2>1. n \in Nat
    BY LenProperties
  <2>. QED
    BY <2>1, ElementOfSeq
<1>2. PICK f : /\ f[1] = seqs[1] /\ \A k \in 2..n : f[k] = f[k - 1] \o seqs[k]
               /\ FlattenSeq(seqs) = f[n]
  <2>1. seqs # <<>>
    BY <1>1, EmptySeq
  <2>. QED
    BY <2>1, FlattenUnfolds
<1>. HIDE DEF n
<1>. DEFINE Holds(s) == \E a \in 1..Len(s) : s[a] = x
            Good == {k \in 0..n : k = 0 \/ (f[k] \in Seq(S) /\ (k >= i => Holds(f[k])))}
<1>3. 0 \in Good
  BY <1>1
<1>4. ASSUME NEW k \in 1..n, k - 1 \in Good PROVE k \in Good
  <2>1. CASE k = 1
    <3>1. k >= i => i = 1
      BY <1>1, <2>1
    <3>2. 1 >= i => Holds(seqs[1])
      BY <2>1, <3>1
    <3>. HIDE DEF Holds
    <3>3. k \in 0..n /\ f[k] = seqs[1] /\ seqs[1] \in Seq(S)
      BY <1>1, <1>2, <2>1
    <3>. QED
      BY <2>1, <3>2, <3>3
  <2>2. CASE k # 1
    <3>1. k \in 2..n /\ k - 1 # 0 /\ k \in 0..n
      BY <1>1, <2>2
    <3>. DEFINE before == f[k - 1]
                both == before \o seqs[k]
    <3>2. before \in Seq(S) /\ (k - 1 >= i => Holds(before))
      BY <1>4, <3>1
    <3>3. f[k] = both
      BY <1>2, <3>1
    <3>. HIDE DEF before
    <3>4. /\ both \in Seq(S) /\ Len(both) = Len(before) + Len(seqs[k])
          /\ Len(before) \in Nat /\ Len(seqs[k]) \in Nat
          /\ \A a \in 1..Len(before) + Len(seqs[k]) :
                both[a] = IF a <= Len(before) THEN before[a] ELSE seqs[k][a - Len(before)]
      BY <1>1, <3>2, ConcatProperties, LenProperties
    <3>. HIDE DEF both
    <3>5. CASE k - 1 >= i
      <4>1. PICK a \in 1..Len(before) : before[a] = x
        BY <3>2, <3>5
      <4>2. a \in 1..Len(both) /\ a \in 1..Len(before) + Len(seqs[k]) /\ a <= Len(before)
        BY <3>4
      <4>3. both[a] = x
        BY <3>4, <4>1, <4>2
      <4>. QED
        BY <3>1, <3>3, <3>4, <4>2, <4>3
    <3>6. CASE k = i
      <4>1. Len(before) + j \in 1..Len(before) + Len(seqs[k]) /\ ~(Len(before) + j <= Len(before))
            /\ (Len(before) + j) - Len(before) = j
        BY <3>4, <3>6
      <4>2. both[Len(before) + j] = x
        BY <3>4, <3>6, <4>1
      <4>. QED
        BY <3>1, <3>3, <3>4, <4>1, <4>2
    <3>7. CASE ~(k >= i)
      BY <3>1, <3>3, <3>4, <3>7
    <3>. QED
      BY <1>1, <3>5, <3>6, <3>7
  <2>. QED
    BY <2>1, <2>2
<1>5. n \in Good
  <2>. HIDE DEF Good
  <2>1. \A k \in 0..n : k \in Good
    BY <1>1, <1>3, <1>4, UpTo
  <2>. QED
    BY <1>1, <2>1
<1>6. Holds(f[n])
  BY <1>1, <1>5 DEF n
<1>. QED
  BY <1>2, <1>6
=============================================================================
