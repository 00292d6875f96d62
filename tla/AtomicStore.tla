----------------------------- MODULE AtomicStore -----------------------------
(***************************************************************************)
(* What Database.write_transaction promises the code that uses it, without *)
(* locks, statements or threads: each caller's transaction takes effect as *)
(* one step or not at all, the answer "ok" means that it did, and after    *)
(* the answer "error" it cannot take effect any more.                      *)
(***************************************************************************)
CONSTANT Tasks

VARIABLES
    store,      \* the tasks whose transaction is in the database
    outcome     \* outcome[t]: "open" until t's transaction is decided

storeVars == <<store, outcome>>

StoreInit ==
    /\ store = {}
    /\ outcome = [t \in Tasks |-> "open"]

\* The transaction of t takes effect.
Apply(t) ==
    /\ outcome[t] = "open" /\ t \notin store
    /\ store' = store \cup {t}
    /\ UNCHANGED outcome

\* It takes effect, but its caller is gone and has seen an error.
ApplyUnseen(t) ==
    /\ outcome[t] = "open" /\ t \notin store
    /\ store' = store \cup {t}
    /\ outcome' = [outcome EXCEPT ![t] = "error"]

Succeed(t) ==
    /\ outcome[t] = "open" /\ t \in store
    /\ outcome' = [outcome EXCEPT ![t] = "ok"]
    /\ UNCHANGED store

\* Some transactions are given up at once (a crash takes all of a process's).
GiveUp(S) ==
    /\ \A t \in S : outcome[t] = "open"
    /\ outcome' = [t \in Tasks |-> IF t \in S THEN "error" ELSE outcome[t]]
    /\ UNCHANGED store

StoreNext ==
    \/ \E t \in Tasks : Apply(t) \/ ApplyUnseen(t) \/ Succeed(t)
    \/ \E S \in SUBSET Tasks : GiveUp(S)

StoreSpec == StoreInit /\ [][StoreNext]_storeVars
=============================================================================
