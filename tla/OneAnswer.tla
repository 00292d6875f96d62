------------------------------ MODULE OneAnswer ------------------------------
(***************************************************************************)
(* What the gateway promises the client of one completion: the text it     *)
(* gets is, in order and without a gap, what one provider produced; it is  *)
(* told that the answer is complete only when it has all of it; and after  *)
(* the end, complete or failed, nothing follows.  There is no router, no   *)
(* failover, no redactor that holds text back and no frame.                *)
(***************************************************************************)
EXTENDS Naturals, Sequences

CONSTANT Providers

VARIABLES
    source,     \* the provider that answers, once something is produced
    produced,   \* how many pieces of text it has produced
    answer,     \* the pieces the client has
    outcome     \* "open", "complete" or "failed"

answerVars == <<source, produced, answer, outcome>>

AnswerInit ==
    /\ source \in Providers
    /\ produced = 0
    /\ answer = <<>>
    /\ outcome = "open"

Produce(p) ==
    /\ outcome = "open"
    /\ produced = 0 \/ p = source
    /\ source' = p
    /\ produced' = produced + 1
    /\ UNCHANGED <<answer, outcome>>

\* The client gets the pieces up to the n-th.
Deliver(n) ==
    /\ outcome = "open"
    /\ n \in Len(answer)..produced
    /\ answer' = [i \in 1..n |-> <<source, i>>]
    /\ UNCHANGED <<source, produced, outcome>>

\* The last pieces may come with the end.
Complete ==
    /\ outcome = "open"
    /\ answer' = [i \in 1..produced |-> <<source, i>>]
    /\ outcome' = "complete"
    /\ UNCHANGED <<source, produced>>

Fail ==
    /\ outcome = "open"
    /\ outcome' = "failed"
    /\ UNCHANGED <<source, produced, answer>>

AnswerNext ==
    \/ \E p \in Providers : Produce(p)
    \/ \E n \in 0..produced : Deliver(n)
    \/ Complete
    \/ Fail

AnswerSpec == AnswerInit /\ [][AnswerNext]_answerVars
=============================================================================
