---------------------------- MODULE SlidingWindow ----------------------------
(***************************************************************************)
(* What the token rate limiter promises: a log of charges that is never    *)
(* cut, and an answer to every request that follows from the charges of    *)
(* its key in the window before the moment it asked.  There is no table to *)
(* evict from, no queue and no transaction.                                *)
(***************************************************************************)
EXTENDS Integers

CONSTANTS
    Requests, KeyOf,    \* requests, and the API key each one is charged to
    Sizes, Corrections, \* what a request asks for, and how it is corrected
    Times,              \* moments at which a request may be made
    Limit, Window,      \* tokens a key may use within Window ticks
    Charge(_),          \* the tokens of a set of rows
    RetryAfter(_, _)    \* seconds until the oldest of some rows has left

VARIABLES log, status, answer

swVars == <<log, status, answer>>

SWInit ==
    /\ log = {}
    /\ status = [r \in Requests |-> "idle"]
    /\ answer = [r \in Requests |-> [at |-> 0, tokens |-> 0, used |-> 0, retryAfter |-> 0]]

\* The charges of r's key in the window that ends at time `now`.
InWindow(r, now) ==
    {row \in log : KeyOf[row.req] = KeyOf[r] /\ row.at >= now - Window}

Fits(r, now, n) == Charge(InWindow(r, now)) + n <= Limit

Move(r, from, to) == status[r] = from /\ status' = [status EXCEPT ![r] = to]

Ask(r) ==
    /\ Move(r, "idle", "checking") \/ Move(r, "admitted", "correcting")
    /\ UNCHANGED <<log, answer>>

\* r fits and is charged; its caller is told so, unless it is gone.
Admit(r, now, n) ==
    /\ Fits(r, now, n)
    /\ log' = log \cup {[req |-> r, kind |-> "admission", at |-> now, tokens |-> n]}
    /\ \/ /\ Move(r, "checking", "admitted")
          /\ answer' = [answer EXCEPT ![r] =
                [at |-> now, tokens |-> n, retryAfter |-> 0,
                 used |-> Charge(InWindow(r, now)) + n]]
       \/ /\ Move(r, "checking", "error")
          /\ UNCHANGED answer

Reject(r, now, n) ==
    /\ ~Fits(r, now, n)
    /\ Move(r, "checking", "rejected")
    /\ answer' = [answer EXCEPT ![r] =
          [at |-> now, tokens |-> n, used |-> Charge(InWindow(r, now)),
           retryAfter |-> RetryAfter(InWindow(r, now), now)]]
    /\ UNCHANGED log

\* The charge of r is corrected once, by what the request really used.
Correct(r, now, d) ==
    /\ Move(r, "correcting", "settled")
    /\ log' = log \cup {[req |-> r, kind |-> "reconciliation", at |-> now, tokens |-> d]}
    /\ UNCHANGED answer

GiveUp(r) ==
    /\ Move(r, "checking", "error") \/ Move(r, "correcting", "settled")
    /\ UNCHANGED <<log, answer>>

SWNext ==
    \E r \in Requests :
        \/ Ask(r)
        \/ GiveUp(r)
        \/ \E now \in Times, n \in Sizes : Admit(r, now, n) \/ Reject(r, now, n)
        \/ \E now \in Times, d \in Corrections : Correct(r, now, d)

SWSpec == SWInit /\ [][SWNext]_swVars
=============================================================================
