----------------------------- MODULE RateLimiter -----------------------------
(***************************************************************************)
(* TokenRateLimiter of llm_gateway/rate_limit/limiter.py: admission checks *)
(* and corrections of several requests, over the table rate_limit_events.  *)
(*                                                                         *)
(* An operation reads the clock first and then queues for the write lock   *)
(* of its process, so its `now` may be old when its transaction runs.  The *)
(* transaction itself is one step, as WriteTransaction shows: it may also  *)
(* take effect although its caller sees an error, or have no effect.       *)
(***************************************************************************)
EXTENDS Integers, Sequences, SequencesExt, FiniteSetsExt

CONSTANTS
    Requests,       \* completion requests; each asks for admission once
    KeyOf,          \* KeyOf[r]: the (hash of the) API key of request r
    Sizes,          \* what a request may ask for (estimated tokens)
    Corrections,    \* actual minus estimated tokens
    Procs,          \* processes that share the database file
    Limit,          \* tokens per key and window
    WindowSeconds,
    TicksPerSecond, \* resolution of the clock (a float in the code)
    MaxClock        \* bound: the last tick

ASSUME RLAssumption ==
    /\ Sizes \subseteq Nat
    /\ Corrections \subseteq Int
    /\ Limit \in Nat
    /\ WindowSeconds \in Nat \ {0}
    /\ TicksPerSecond \in Nat \ {0}
    /\ MaxClock \in Nat

VARIABLES
    clock,      \* ticks
    table,      \* rate_limit_events: the rows not yet evicted
    log,        \* every row ever committed (history; the code keeps no such log)
    queue,      \* queue[p]: rows whose transactions wait for p's write lock
    status,     \* status[r]: how far request r is
    answer      \* answer[r]: the RateLimitDecision of r, and when r asked

vars == <<clock, table, log, queue, status, answer>>

Window == WindowSeconds * TicksPerSecond
Times == 0..MaxClock
Row == [req : Requests, kind : {"admission"}, at : Times, tokens : Sizes] \cup
       [req : Requests, kind : {"reconciliation"}, at : Times, tokens : Corrections]

\* SELECT COALESCE(SUM(token_count), 0)
Charge(rows) == MapThenSumSet(LAMBDA row : row.tokens, rows)

Init ==
    /\ clock = 0
    /\ table = {}
    /\ log = {}
    /\ queue = [p \in Procs |-> <<>>]
    /\ status = [r \in Requests |-> "idle"]
    /\ answer = [r \in Requests |-> [at |-> 0, tokens |-> 0, used |-> 0, retryAfter |-> 0]]

-----------------------------------------------------------------------------
(* An operation is called: `now` is read, then the lock is queued for.     *)

Enqueue(p, row) == queue' = [queue EXCEPT ![p] = Append(@, row)]

CheckAndConsume(r, p) ==
    /\ status[r] = "idle"
    /\ \E n \in Sizes :
          Enqueue(p, [req |-> r, kind |-> "admission", at |-> clock, tokens |-> n])
    /\ status' = [status EXCEPT ![r] = "checking"]
    /\ UNCHANGED <<clock, table, log, answer>>

\* A correction by nothing returns at once and writes nothing.
Reconcile(r, p) ==
    /\ status[r] = "admitted"
    /\ \E d \in Corrections \ {0} :
          Enqueue(p, [req |-> r, kind |-> "reconciliation", at |-> clock, tokens |-> d])
    /\ status' = [status EXCEPT ![r] = "correcting"]
    /\ UNCHANGED <<clock, table, log, answer>>

-----------------------------------------------------------------------------
(* The transaction at the head of the queue. `op` is the row it would      *)
(* insert.                                                                 *)

Serve(p, op) ==
    /\ queue[p] # <<>>
    /\ op = Head(queue[p])
    /\ queue' = [queue EXCEPT ![p] = Tail(@)]

\* Mutant of Retained: `<=` in the DELETE.
RetainedTooFew(op) == {row \in table : row.at > op.at - Window}

\* The rows DELETE leaves; it evicts the old rows of every key.
Retained(op) == {row \in table : row.at >= op.at - Window}

\* Mutant of InWindow: `>` in the SELECT.
InWindowTooFew(rows, op) ==
    {row \in rows : KeyOf[row.req] = KeyOf[op.req] /\ row.at > op.at - Window}

\* The rows of op's key in its window, among `rows`.
InWindow(rows, op) ==
    {row \in rows : KeyOf[row.req] = KeyOf[op.req] /\ row.at >= op.at - Window}

\* Mutant of RetryAfter: rounded down.
RetryAfterTooSoon(rows, now) ==
    IF rows = {} THEN WindowSeconds
    ELSE LET oldest == Min({row.at : row \in rows})
             seconds == (oldest + Window - now) \div TicksPerSecond
         IN IF seconds > 1 THEN seconds ELSE 1

\* Seconds until the oldest of `rows` has left the window of an operation that
\* read the clock at `now`: max(1, int(oldest + window - now) + 1).
RetryAfter(rows, now) ==
    IF rows = {} THEN WindowSeconds
    ELSE LET oldest == Min({row.at : row \in rows})
             seconds == (oldest + Window - now) \div TicksPerSecond + 1
         IN IF seconds > 1 THEN seconds ELSE 1

\* Mutant of Fits: the request itself is not counted.
FitsWithoutItself(op) == Charge(InWindow(Retained(op), op)) <= Limit

Fits(op) == Charge(InWindow(Retained(op), op)) + op.tokens <= Limit

\* The caller gets the decision, or is gone by now (cancelled after COMMIT was
\* submitted): the transaction counts all the same.
Decide(op, how, decision) ==
    \/ /\ status' = [status EXCEPT ![op.req] = how]
       /\ answer' = [answer EXCEPT ![op.req] = decision]
    \/ /\ status' = [status EXCEPT ![op.req] = "error"]
       /\ UNCHANGED answer

Admit(p) ==
    \E op \in Row :
        /\ Serve(p, op)
        /\ op.kind = "admission"
        /\ Fits(op)
        /\ table' = Retained(op) \cup {op}
        /\ log' = log \cup {op}
        /\ Decide(op, "admitted",
                  [at |-> op.at, tokens |-> op.tokens, retryAfter |-> 0,
                   used |-> Charge(InWindow(Retained(op), op)) + op.tokens])
        /\ UNCHANGED clock

\* A rejection returns from inside the transaction: its eviction is committed.
Reject(p) ==
    \E op \in Row :
        /\ Serve(p, op)
        /\ op.kind = "admission"
        /\ ~Fits(op)
        /\ table' = Retained(op)
        /\ Decide(op, "rejected",
                  [at |-> op.at, tokens |-> op.tokens,
                   used |-> Charge(InWindow(Retained(op), op)),
                   retryAfter |-> RetryAfter(InWindow(Retained(op), op), op.at)])
        /\ UNCHANGED <<clock, log>>

\* A correction inserts its row and evicts nothing.
Correct(p) ==
    \E op \in Row :
        /\ Serve(p, op)
        /\ op.kind = "reconciliation"
        /\ table' = table \cup {op}
        /\ log' = log \cup {op}
        /\ status' = [status EXCEPT ![op.req] = "settled"]
        /\ UNCHANGED <<clock, answer>>

\* A transaction without effect: cancelled while it waits, refused, rolled back
\* or lost in a crash. A check fails closed; a correction is not repeated.
GiveUp(p) ==
    /\ \E i \in DOMAIN queue[p] :
          LET op == queue[p][i] IN
          /\ queue' = [queue EXCEPT ![p] = RemoveAt(@, i)]
          /\ status' = [status EXCEPT ![op.req] =
                          IF op.kind = "admission" THEN "error" ELSE "settled"]
    /\ UNCHANGED <<clock, table, log, answer>>

Tick ==
    /\ clock < MaxClock
    /\ clock' = clock + 1
    /\ UNCHANGED <<table, log, queue, status, answer>>

-----------------------------------------------------------------------------
\* The clock is at its bound and nothing is waiting.
Finished ==
    /\ clock = MaxClock
    /\ \A p \in Procs : queue[p] = <<>>
    /\ UNCHANGED vars

Next ==
    \/ \E r \in Requests, p \in Procs : CheckAndConsume(r, p) \/ Reconcile(r, p)
    \/ \E p \in Procs : Admit(p) \/ Reject(p) \/ Correct(p) \/ GiveUp(p)
    \/ Tick
    \/ Finished

Spec == Init /\ [][Next]_vars

-----------------------------------------------------------------------------
TypeOK ==
    /\ clock \in Times
    /\ table \subseteq Row
    /\ log \subseteq Row
    /\ queue \in [Procs -> Seq(Row)]
    /\ status \in [Requests -> {"idle", "checking", "admitted", "rejected",
                                "error", "correcting", "settled"}]
    /\ DOMAIN answer = Requests

\* Eviction never loses a charge that counts: a row that was deleted is out of
\* the window of every check made from now on, and of every check that has
\* read its clock already and still waits for the lock.
EvictionSafe ==
    \A row \in log \ table :
        /\ row.at < clock - Window
        /\ \A p \in Procs : \A i \in 1..Len(queue[p]) :
              row.at < queue[p][i].at - Window

\* The rows of a key within the window that ends when request `a` was made.
Before(a, kind) ==
    {row \in log : /\ row.kind = kind
                   /\ KeyOf[row.req] = KeyOf[a.req]
                   /\ row.at \in (a.at - Window)..a.at}

\* The ceiling: the admissions of a key in any window that ends with an
\* admission exceed the limit by no more than what was refunded in that window.
\* (All checks count: those queued with an older clock, lost to a disconnect
\* or decided while rows are evicted for another key.)
WindowCeiling ==
    \A a \in log : a.kind = "admission" =>
        LET refunds == {row \in Before(a, "reconciliation") : row.tokens < 0}
        IN Charge(Before(a, "admission")) + Charge(refunds) <= Limit

\* Retry-After is right to the second: when the client comes back at the time
\* it was told, a row that counted against it has left the window, and a second
\* earlier all of them still counted.
ComesBackInTime ==
    \A r \in Requests :
        status[r] = "checking" /\ status'[r] = "rejected" =>
            LET a == answer'[r]
                rows == {row \in log : KeyOf[row.req] = KeyOf[r] /\ row.at >= a.at - Window}
                back == a.at + a.retryAfter * TicksPerSecond
            IN rows # {} =>
                  /\ \E row \in rows : row.at < back - Window
                  /\ \A row \in rows : row.at >= back - TicksPerSecond - Window

RetryAfterTight == [][ComesBackInTime]_vars

\* The limiter decides as one that never evicts a row and asks no lock: every
\* answer, `used` and Retry-After included, is the one the whole log gives.
Unbounded == INSTANCE SlidingWindow

ImplementsSlidingWindow == Unbounded!SWSpec
=============================================================================
