-------------------------- MODULE StreamingRedactor --------------------------
(***************************************************************************)
(* StreamingRedactor and guard_stream of guardrails/streaming.py, with     *)
(* scan and partial_match_start of guardrails/pii.py: a text arrives in    *)
(* chunks, what matches as an email address, a social security number or a *)
(* payment card is replaced, and the end of what has arrived is held back  *)
(* while it may still grow into a match.                                   *)
(*                                                                         *)
(* A character of the stream is its position in the text, so that what is  *)
(* sent and what is held can be told apart character by character.         *)
(***************************************************************************)
EXTENDS Integers, Sequences, FiniteSets, SequencesExt

CONSTANTS
    Texts,      \* what a provider may answer: sequences of characters
    MaxChunk,   \* the longest chunk
    Window,     \* PII_CARRY_BUFFER_CHARS
    Letters,    \* the letters that occur in Texts
    SsnParts,   \* the lengths of the three groups of digits: <<3, 2, 4>>
    CardMin,    \* the fewest digits of a card: 13
    CardMax,    \* and the most: 19
    TldMin      \* the fewest letters after the last dot of an address: 2

Digit == {"0", "1", "2", "3", "4", "5", "6", "7", "8", "9"}

ASSUME SRAssumption ==
    /\ MaxChunk \in Nat \ {0}
    /\ SsnParts \in [1..3 -> Nat \ {0}]
    /\ CardMin \in Nat \ {0, 1} /\ CardMax \in Nat /\ CardMin <= CardMax
    /\ TldMin \in Nat \ {0}
    /\ SsnParts[1] + SsnParts[2] + SsnParts[3] < CardMin
    \* as 128 is (config.py accepts less, down to 32)
    /\ Window \in Nat
    /\ Window >= 2 * CardMax - 1
    /\ Window >= SsnParts[1] + SsnParts[2] + SsnParts[3] + 2
    /\ Letters \cap (Digit \cup {"@", ".", "-", "_", " "}) = {}
    /\ \A t \in Texts : t \in Seq(Letters \cup Digit \cup {"@", ".", "-", "_", " "})

VARIABLES
    text,       \* the whole answer of the provider
    fed,        \* how much of it has arrived
    buffer,     \* _buffer: what is held back
    out,        \* what was sent on: characters and redactions
    phase       \* of guard_stream: "open", "flushed", or "dropped"

vars == <<text, fed, buffer, out, phase>>

-----------------------------------------------------------------------------
(* The patterns.  Each gives the ends of the matches of t that start at i;   *)
(* the quantifiers are greedy and a later end is a longer match, so that the *)
(* match is the longest.                                                     *)

Separator == {"-", " "}
Alnum == Letters \cup Digit
Domain == Alnum \cup {".", "-"}
Local == Domain \cup {"_"}
SsnBreaks == {SsnParts[1] + 1, SsnParts[1] + SsnParts[2] + 2}
SsnLength == SsnParts[1] + SsnParts[2] + SsnParts[3] + 2

AllIn(t, i, j, S) == \A k \in i..j : t[k] \in S
NotBefore(t, i, S) == i = 1 \/ t[i - 1] \notin S
NotAfter(t, j, S) == j = Len(t) \/ t[j + 1] \notin S

EmailEnds(t, i) ==
    {j \in i..Len(t) :
        \E at \in i + 1..j, dot \in i + 3..j - TldMin :
            /\ t[at] = "@" /\ AllIn(t, i, at - 1, Local)
            /\ at + 1 < dot
            /\ {t[at + 1], t[dot - 1]} \subseteq Alnum
            /\ AllIn(t, at + 1, dot - 1, Domain)
            /\ t[dot] = "." /\ AllIn(t, dot + 1, j, Letters)}

SsnEnds(t, i) ==
    {j \in {i + SsnLength - 1} \cap 1..Len(t) :
        /\ \A k \in 1..SsnLength :
              t[i + k - 1] \in IF k \in SsnBreaks THEN Separator ELSE Digit
        /\ NotBefore(t, i, Digit) /\ NotAfter(t, j, Digit)}

\* Digits with single separators between them.
Grouped(t, i, j) ==
    /\ AllIn(t, i, j, Digit \cup Separator)
    /\ t[i] \in Digit
    /\ \A k \in i..j - 1 : t[k] \in Digit \/ t[k + 1] \in Digit

DigitPlaces(t, i, j) == {k \in i..j : t[k] \in Digit}
DigitsOf(t, i, j) == SelectSeq(SubSeq(t, i, j), LAMBDA c : c \in Digit)

CardEnds(t, i) ==
    {j \in i..Len(t) :
        /\ Grouped(t, i, j) /\ t[j] \in Digit
        /\ Cardinality(DigitPlaces(t, i, j)) \in CardMin..CardMax
        /\ NotBefore(t, i, Digit \cup {"-"}) /\ NotAfter(t, j, Digit \cup {"-"})}

\* PATTERN tries its alternatives in this order.
MatchAt(t, i) ==
    LET Longest(kind, ends) == [kind |-> kind, from |-> i, to |-> Max(ends)] IN
    CASE EmailEnds(t, i) # {} -> Longest("email", EmailEnds(t, i))
      [] EmailEnds(t, i) = {} /\ SsnEnds(t, i) # {} -> Longest("ssn", SsnEnds(t, i))
      [] OTHER -> Longest("card", CardEnds(t, i))

Starts(t) == {i \in DOMAIN t : EmailEnds(t, i) \cup SsnEnds(t, i) \cup CardEnds(t, i) # {}}

\* PATTERN.finditer: from left to right, each begins behind the end of the one before.
Matches(t) ==
    LET starts == Starts(t)
        found[i \in 0..Len(t)] ==
            IF i = 0 THEN <<>>
            ELSE LET before == found[i - 1] IN
                 IF i \in starts /\ (before = <<>> \/ before[Len(before)].to < i)
                   THEN Append(before, MatchAt(t, i))
                   ELSE before
    IN found[Len(t)]

-----------------------------------------------------------------------------
(* Scanning a part of the stream.                                            *)

Value == [c \in Digit |-> CHOOSE v \in 0..9 : ToString(v) = c]

luhn_check(digits) ==
    LET n == Len(digits)
        Weighted(k) ==
            LET v == Value[digits[n + 1 - k]] IN
            IF k % 2 = 1 THEN v ELSE IF 2 * v > 9 THEN 2 * v - 9 ELSE 2 * v
    IN MapThenSumSet(Weighted, 1..n) % 10 = 0

should_redact(t, m) ==
    m.kind = "card" => luhn_check(DigitsOf(t, m.from, m.to))

Chars(part) == [k \in DOMAIN part |-> text[part[k]]]
Clear(part) == [k \in DOMAIN part |-> [from |-> part[k], to |-> part[k], clear |-> TRUE]]
Redaction(part, m) == [from |-> part[m.from], to |-> part[m.to], clear |-> FALSE]

\* Match by match; cursor is the end of the last one replaced. A match at the very
\* end may be incomplete, unless nothing follows.
scan(part, allow_trailing_match) ==
    LET t == Chars(part)
        ms == Matches(t)
        done[k \in 0..Len(ms)] ==
            IF k = 0 THEN [prefix |-> <<>>, cursor |-> 0]
            ELSE LET before == done[k - 1] IN
                 IF /\ should_redact(t, ms[k])
                    /\ allow_trailing_match \/ ms[k].to < Len(t)
                   THEN [prefix |-> before.prefix
                             \o Clear(SubSeq(part, before.cursor + 1, ms[k].from - 1))
                             \o <<Redaction(part, ms[k])>>,
                         cursor |-> ms[k].to]
                   ELSE before
        last == done[Len(ms)]
    IN [prefix |-> last.prefix, rest |-> SubSeq(part, last.cursor + 1, Len(part))]

\* Mutant of redact: what follows the last match is forgotten.
redactPrefix(part) == scan(part, TRUE).prefix

redact(part) ==
    LET s == scan(part, TRUE) IN s.prefix \o Clear(s.rest)

\* Mutant of Partial: an address is complete when its @ has come.
PartialLocal(t, i) == AllIn(t, i, Len(t), Local) \/ Grouped(t, i, Len(t))

\* t from i to its end looks like the beginning of an address or of a number. (The $
\* of the patterns also stands before a final newline; there are none in Texts.)
Partial(t, i) ==
    \/ \E k \in i..Len(t) :
          /\ AllIn(t, i, k, Local)
          /\ \/ k = Len(t)
             \/ t[k + 1] = "@" /\ AllIn(t, k + 2, Len(t), Domain)
    \/ Grouped(t, i, Len(t))

partial_match_start(t, lookback) ==
    LET tail == Max({1, Len(t) - lookback + 1})..Len(t) IN
    Min({i \in tail : Partial(t, i)} \cup {Len(t) + 1})

-----------------------------------------------------------------------------
(* The stream.                                                               *)

Init ==
    /\ text \in Texts
    /\ fed = 0
    /\ buffer = <<>>
    /\ out = <<>>
    /\ phase = "open"

\* Mutant of process: the carry is as long as the stretch that may grow.
processUncapped(n) ==
    LET s == scan(buffer \o [k \in 1..n |-> fed + k], FALSE)
        hold_from == partial_match_start(Chars(s.rest), Len(s.rest))
    IN
    /\ phase = "open"
    /\ fed + n <= Len(text)
    /\ fed' = fed + n
    /\ out' = out \o s.prefix \o Clear(SubSeq(s.rest, 1, hold_from - 1))
    /\ buffer' = SubSeq(s.rest, hold_from, Len(s.rest))
    /\ UNCHANGED <<text, phase>>

\* A chunk arrives.
process(n) ==
    LET grown == buffer \o [k \in 1..n |-> fed + k]
        s == scan(grown, FALSE)
        hold_from == partial_match_start(Chars(s.rest), Window)
        carry == SubSeq(s.rest, hold_from, Len(s.rest))
        overflow == Max({0, Len(carry) - Window})
    IN
    /\ phase = "open"
    /\ fed + n <= Len(text)
    /\ fed' = fed + n
    /\ out' = out \o s.prefix \o Clear(SubSeq(s.rest, 1, hold_from - 1))
                  \o redact(SubSeq(carry, 1, overflow))
    /\ buffer' = SubSeq(carry, overflow + 1, Len(carry))
    /\ UNCHANGED <<text, phase>>

\* The provider has finished.
flush ==
    /\ phase = "open" /\ fed = Len(text)
    /\ out' = out \o redact(buffer)
    /\ buffer' = <<>>
    /\ phase' = "flushed"
    /\ UNCHANGED <<text, fed>>

\* The provider fails, or the client disconnects: what is held is not sent.
Abandon ==
    /\ phase = "open"
    /\ buffer' = <<>>
    /\ phase' = "dropped"
    /\ UNCHANGED <<text, fed, out>>

Finished == phase # "open" /\ UNCHANGED vars

Next ==
    \/ \E n \in 1..MaxChunk : process(n)
    \/ flush
    \/ Abandon
    \/ Finished

Spec == Init /\ [][Next]_vars

-----------------------------------------------------------------------------
(* Properties.                                                               *)

Position == 1..Len(text)

\* The carry stays within the window, whatever the text looks like.
TypeOK ==
    /\ text \in Texts
    /\ fed \in 0..Len(text)
    /\ buffer \in Seq(Position) /\ Len(buffer) <= Window
    /\ out \in Seq([from : Position, to : Position, clear : BOOLEAN])
    /\ phase \in {"open", "flushed", "dropped"}

\* Holding back and letting go neither loses nor repeats nor swaps a character:
\* what was sent and what is held are the characters that arrived, in order; and
\* at the end of the stream nothing is held.
NothingLost ==
    LET End(k) == IF k = 0 THEN 0 ELSE out[k].to IN
    /\ \A k \in DOMAIN out : out[k].from = End(k - 1) + 1 /\ out[k].to >= out[k].from
    /\ phase # "dropped" => buffer = [k \in 1..fed - End(Len(out)) |-> End(Len(out)) + k]
    /\ phase = "flushed" => End(Len(out)) = Len(text)

\* What would be replaced if the whole text were scanned at once.
Redacted ==
    LET ms == Matches(text) IN
    {ms[k] : k \in {j \in DOMAIN ms : should_redact(text, ms[j])}}

\* What may not be sent of a match, wherever the chunks end: a social security
\* number, of an address the part before the @, of a card its first digits.
Secret(m) ==
    {p \in m.from..m.to :
        /\ m.kind = "email" => \A q \in m.from..p : text[q] # "@"
        /\ m.kind = "card" => /\ text[p] \in Digit
                              /\ Cardinality(DigitPlaces(text, m.from, p)) <= CardMin}

\* Nothing before m can grow into it: its first character ends all that might.
Alone(m) == \A i \in 1..m.from - 1 : ~Partial(SubSeq(text, 1, m.from), i)

\* An address without a number in it, a card without a social security number.
Plain(m) ==
    \A i \in m.from..m.to :
        /\ m.kind \in {"email", "card"} => SsnEnds(text, i) = {}
        /\ m.kind = "email" => CardEnds(text, i) = {}

\* However the text is cut into chunks, of an address, a social security number
\* or a card that fits the window no secret character is sent, if it stands alone
\* and has no other match in it.
SecretsHidden ==
    \A m \in Redacted :
        m.to - m.from < Window /\ Alone(m) /\ Plain(m) =>
            \A k \in DOMAIN out : out[k].clear => out[k].from \notin Secret(m)

\* "PII split across stream deltas must be redacted exactly as if it had arrived
\* in one piece" (tests/streaming/test_chunk_boundaries.py).
SameAsWhole ==
    phase = "flushed" => out = redact([p \in Position |-> p])
=============================================================================
