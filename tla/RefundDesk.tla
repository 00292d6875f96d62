----------------------------- MODULE RefundDesk -----------------------------
(* What a client of the MCP gateway may rely on when it asks for a refund:   *)
(* it is recorded at most once for a call, and what the client is told of it *)
(* is and stays true.                                                        *)
EXTENDS SequencesExt

CONSTANT Calls

VARIABLES
    recorded,   \* calls whose refund is on record, in order
    told        \* told[c]: what the client of c has been told

deskVars == <<recorded, told>>

DeskInit ==
    /\ recorded = <<>>
    /\ told = [c \in Calls |-> "nothing"]

\* A refund is recorded, possibly after its client was told that nobody knows.
Record(c) ==
    /\ c \notin ToSet(recorded)
    /\ told[c] \in {"nothing", "unknown"}
    /\ recorded' = Append(recorded, c)
    /\ UNCHANGED told

Tell(c, what) ==
    /\ told[c] = "nothing"
    /\ what = "receipt" => c \in ToSet(recorded)
    /\ what = "no receipt" => c \notin ToSet(recorded)
    /\ told' = [told EXCEPT ![c] = what]
    /\ UNCHANGED recorded

DeskNext ==
    \E c \in Calls :
        \/ Record(c)
        \/ \E what \in {"receipt", "no receipt", "unknown"} : Tell(c, what)

DeskSpec == DeskInit /\ [][DeskNext]_deskVars
=============================================================================
