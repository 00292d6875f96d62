-------------------------- MODULE WriteTransaction --------------------------
(***************************************************************************)
(* Database.write_transaction of persistence/sqlite.py: an asyncio.Lock    *)
(* per process around BEGIN IMMEDIATE / statements / COMMIT or ROLLBACK on *)
(* that process's single aiosqlite connection.                             *)
(*                                                                         *)
(* Three parties interleave:                                               *)
(*   - the tasks of the event loop, each running one write transaction; a  *)
(*     task may be cancelled at any await (a client that disconnects, a    *)
(*     server that shuts down);                                            *)
(*   - the connection's worker thread, which executes the statements in    *)
(*     the order they were submitted, whether or not the task that         *)
(*     submitted them still waits for the answer;                          *)
(*   - SQLite, which lets one connection at a time hold the write lock and *)
(*     forgets an uncommitted transaction when its process dies.           *)
(***************************************************************************)
EXTENDS Naturals, Sequences, FiniteSets

CONSTANTS
    Tasks,          \* coroutines, each of which runs one write transaction
    Procs,          \* processes: one Database, one connection, one lock each
    ProcOf,         \* the process a task runs in
    NumWrites,      \* statements in the body of a transaction
    CancelPoints,   \* the awaits at which a task may be cancelled
    FaultPoints,    \* the statements SQLite may refuse (disk full, ...)
    Budget,         \* bounds: cancellations, refused statements, crashes
    NoTask          \* no task: a free lock, a connection in autocommit mode

Mishaps == {"cancel", "fault", "crash"}

\* The awaits inside write_transaction, named by what the task waits for.
Awaits == {"lock", "begin", "write", "commit", "rollback"}

ASSUME WTAssumption ==
    /\ ProcOf \in [Tasks -> Procs]
    /\ NumWrites \in Nat \ {0}
    /\ CancelPoints \subseteq Awaits
    /\ FaultPoints \subseteq {"write", "commit"}
    /\ Budget \in [Mishaps -> Nat]
    /\ NoTask \notin Tasks

VARIABLES
    pc,        \* pc[t]: where task t stands; "ok" and "error" are final
    step,      \* step[t]: the body statement task t submitted last
    reply,     \* reply[t]: the answer to the statement t awaits, if it is in
    holder,    \* holder[p]: the task that owns the write lock of process p
    waiters,   \* waiters[p]: the tasks waiting for that lock, in FIFO order
    stmts,     \* stmts[p]: statements the worker thread has still to execute
    txn,       \* txn[p]: the task whose BEGIN opened p's transaction
    pending,   \* pending[p]: the uncommitted writes of that transaction
    disk,      \* the committed writes
    budget     \* cancellations, refused statements and crashes still to come

vars == <<pc, step, reply, holder, waiters, stmts, txn, pending, disk, budget>>

Ops == {"begin", "write", "commit", "rollback"}
Statements == {s \in [task : Tasks, op : Ops, n : 0..NumWrites] :
                  s.op = "write" => s.n # 0}
Write == Tasks \X (1..NumWrites)
Final == {"ok", "error"}

\* Every write the transaction of task t makes.
WritesOf(t) == {t} \X (1..NumWrites)

Init ==
    /\ pc = [t \in Tasks |-> "idle"]
    /\ step = [t \in Tasks |-> 0]
    /\ reply = [t \in Tasks |-> "none"]
    /\ holder = [p \in Procs |-> NoTask]
    /\ waiters = [p \in Procs |-> <<>>]
    /\ stmts = [p \in Procs |-> <<>>]
    /\ txn = [p \in Procs |-> NoTask]
    /\ pending = [p \in Procs |-> {}]
    /\ disk = {}
    /\ budget = Budget

\* One of the bounded mishaps happens.
Spend(mishap) ==
    /\ budget[mishap] > 0
    /\ budget' = [budget EXCEPT ![mishap] = @ - 1]

-----------------------------------------------------------------------------
(* The tasks.                                                              *)

\* `await conn.execute(...)`: hand a statement to the worker thread and wait.
Submit(t, op, n) ==
    /\ stmts' = [stmts EXCEPT ![ProcOf[t]] =
                    Append(@, [task |-> t, op |-> op, n |-> n])]
    /\ pc' = [pc EXCEPT ![t] = op]
    /\ step' = [step EXCEPT ![t] = n]
    /\ reply' = [reply EXCEPT ![t] = "none"]

\* Mutant of Leave: the lock is not released.
LeaveHolding(t, how) ==
    /\ pc' = [pc EXCEPT ![t] = how]
    /\ reply' = [reply EXCEPT ![t] = "none"]
    /\ UNCHANGED <<step, stmts, holder>>

\* Leaving `async with self._write_lock`: the caller gets result `how`.
Leave(t, how) ==
    /\ holder' = [holder EXCEPT ![ProcOf[t]] = NoTask]
    /\ pc' = [pc EXCEPT ![t] = how]
    /\ reply' = [reply EXCEPT ![t] = "none"]
    /\ UNCHANGED <<step, stmts>>

\* Entering `async with self._write_lock`: the lock is FIFO, so a task queues
\* even when the lock is free but somebody is ahead of it.
Enter(t) ==
    /\ pc[t] = "idle"
    /\ pc' = [pc EXCEPT ![t] = "lock"]
    /\ waiters' = [waiters EXCEPT ![ProcOf[t]] = Append(@, t)]
    /\ UNCHANGED <<step, reply, holder, stmts, txn, pending, disk, budget>>

\* The lock is free and t is first: t takes it and submits BEGIN IMMEDIATE.
AcquireLock(t) ==
    LET p == ProcOf[t] IN
    /\ pc[t] = "lock"
    /\ holder[p] = NoTask
    /\ waiters[p] # <<>>
    /\ Head(waiters[p]) = t
    /\ holder' = [holder EXCEPT ![p] = t]
    /\ waiters' = [waiters EXCEPT ![p] = Tail(@)]
    /\ Submit(t, "begin", 0)
    /\ UNCHANGED <<txn, pending, disk, budget>>

\* BEGIN IMMEDIATE raised. It stands before the `try`, so nothing is rolled back.
BeginRaised(t) ==
    /\ pc[t] = "begin" /\ reply[t] = "fail"
    /\ Leave(t, "error")
    /\ UNCHANGED <<waiters, txn, pending, disk, budget>>

\* The body of the `async with` block goes on to its next statement.
NextWrite(t) ==
    /\ pc[t] \in {"begin", "write"} /\ reply[t] = "ok"
    /\ step[t] < NumWrites
    /\ Submit(t, "write", step[t] + 1)
    /\ UNCHANGED <<holder, waiters, txn, pending, disk, budget>>

\* The body ended normally: the `else` branch submits COMMIT.
BodyEnds(t) ==
    /\ pc[t] = "write" /\ reply[t] = "ok"
    /\ step[t] = NumWrites
    /\ Submit(t, "commit", 0)
    /\ UNCHANGED <<holder, waiters, txn, pending, disk, budget>>

\* Mutant of BodyRaised: the statement's error is swallowed and COMMIT follows.
BodyRaisedCommits(t) ==
    /\ pc[t] = "write" /\ reply[t] = "fail"
    /\ Submit(t, "commit", 0)
    /\ UNCHANGED <<holder, waiters, txn, pending, disk, budget>>

\* A statement of the body raised: `except BaseException` submits ROLLBACK.
BodyRaised(t) ==
    /\ pc[t] = "write" /\ reply[t] = "fail"
    /\ Submit(t, "rollback", 0)
    /\ UNCHANGED <<holder, waiters, txn, pending, disk, budget>>

\* Mutant of CommitReturned: nobody looks whether COMMIT raised.
CommitReturnedUnchecked(t) ==
    /\ pc[t] = "commit" /\ reply[t] # "none"
    /\ Leave(t, "ok")
    /\ UNCHANGED <<waiters, txn, pending, disk, budget>>

\* COMMIT or ROLLBACK came back. A COMMIT that raised is not rolled back: the
\* `else` branch is outside what the `except` clause guards.
CommitReturned(t) ==
    /\ pc[t] = "commit" /\ reply[t] # "none"
    /\ Leave(t, IF reply[t] = "ok" THEN "ok" ELSE "error")
    /\ UNCHANGED <<waiters, txn, pending, disk, budget>>

RollbackReturned(t) ==
    /\ pc[t] = "rollback" /\ reply[t] # "none"
    /\ Leave(t, "error")
    /\ UNCHANGED <<waiters, txn, pending, disk, budget>>

-----------------------------------------------------------------------------
(* Cancellation: CancelledError is raised at the await where the task is.  *)
(* A statement already handed to the worker thread is executed all the     *)
(* same.                                                                   *)

MayCancel(t, point) ==
    /\ pc[t] = point
    /\ point \in CancelPoints
    /\ Spend("cancel")

CancelWaiting(t) ==
    LET p == ProcOf[t] IN
    /\ MayCancel(t, "lock")
    /\ \E i \in DOMAIN waiters[p] :
          /\ waiters[p][i] = t
          /\ waiters' = [waiters EXCEPT ![p] =
                            SubSeq(@, 1, i - 1) \o SubSeq(@, i + 1, Len(@))]
    /\ pc' = [pc EXCEPT ![t] = "error"]
    /\ UNCHANGED <<step, reply, holder, stmts, txn, pending, disk>>

\* Mutant of CancelBody: a `finally` clause commits.
CancelBodyCommits(t) ==
    /\ MayCancel(t, "write")
    /\ Submit(t, "commit", 0)
    /\ UNCHANGED <<holder, waiters, txn, pending, disk>>

\* Inside the `try`: `except BaseException` catches the cancellation too.
CancelBody(t) ==
    /\ MayCancel(t, "write")
    /\ Submit(t, "rollback", 0)
    /\ UNCHANGED <<holder, waiters, txn, pending, disk>>

\* Outside the `try` (BEGIN, COMMIT) or in its handler (ROLLBACK): the task
\* only releases the lock.
CancelOutside(t) ==
    /\ \E point \in {"begin", "commit", "rollback"} : MayCancel(t, point)
    /\ Leave(t, "error")
    /\ UNCHANGED <<waiters, txn, pending, disk>>

-----------------------------------------------------------------------------
(* The worker thread of process p and SQLite.                              *)

\* The transaction of p is over; its writes are forgotten or on disk.
CloseTransaction(p) ==
    /\ txn' = [txn EXCEPT ![p] = NoTask]
    /\ pending' = [pending EXCEPT ![p] = {}]

\* The answer reaches the task if it still awaits that statement.
Answer(s, how) ==
    reply' = IF pc[s.task] = s.op THEN [reply EXCEPT ![s.task] = how] ELSE reply

\* The thread takes its next statement, which is `op` and is answered `how`.
Take(p, op, how) ==
    /\ stmts[p] # <<>>
    /\ Head(stmts[p]).op = op
    /\ stmts' = [stmts EXCEPT ![p] = Tail(@)]
    /\ Answer(Head(stmts[p]), how)
    /\ UNCHANGED <<pc, step, holder, waiters>>

Fault(op) == op \in FaultPoints /\ Spend("fault")

\* BEGIN IMMEDIATE takes SQLite's write lock, which no connection holds.
ExecuteBegin(p) ==
    /\ Take(p, "begin", "ok")
    /\ \A q \in Procs : txn[q] = NoTask
    /\ txn' = [txn EXCEPT ![p] = Head(stmts[p]).task]
    /\ UNCHANGED <<pending, disk, budget>>

\* Mutant of RefuseNestedBegin: BEGIN only `if not conn.in_transaction`.
JoinOpenTransaction(p) ==
    /\ Take(p, "begin", "ok")
    /\ txn[p] # NoTask
    /\ UNCHANGED <<txn, pending, disk, budget>>

\* "cannot start a transaction within a transaction".
RefuseNestedBegin(p) ==
    /\ Take(p, "begin", "fail")
    /\ txn[p] # NoTask
    /\ UNCHANGED <<txn, pending, disk, budget>>

\* "database is locked": another connection kept the write lock for longer
\* than busy_timeout. (Until then this connection's thread waits.)
BusyTimeout(p) ==
    /\ Take(p, "begin", "fail")
    /\ txn[p] = NoTask
    /\ \E q \in Procs \ {p} : txn[q] # NoTask
    /\ UNCHANGED <<txn, pending, disk, budget>>

\* A statement of the body; outside a transaction it would commit by itself.
ExecuteWrite(p) ==
    LET w == <<Head(stmts[p]).task, Head(stmts[p]).n>> IN
    /\ Take(p, "write", "ok")
    /\ IF txn[p] = NoTask
       THEN disk' = disk \cup {w} /\ UNCHANGED pending
       ELSE pending' = [pending EXCEPT ![p] = @ \cup {w}] /\ UNCHANGED disk
    /\ UNCHANGED <<txn, budget>>

\* A failing statement: most errors undo the statement alone, a few (disk full,
\* I/O error) make SQLite roll the whole transaction back.
RefuseWrite(p) ==
    /\ Take(p, "write", "fail")
    /\ Fault("write")
    /\ \/ UNCHANGED <<txn, pending>>
       \/ CloseTransaction(p)
    /\ UNCHANGED disk

ExecuteCommit(p) ==
    /\ Take(p, "commit", "ok")
    /\ disk' = disk \cup pending[p]
    /\ CloseTransaction(p)
    /\ UNCHANGED budget

\* COMMIT fails. Depending on the error SQLite leaves the transaction open or
\* has rolled it back already.
RefuseCommit(p) ==
    /\ Take(p, "commit", "fail")
    /\ Fault("commit")
    /\ \/ UNCHANGED <<txn, pending>>
       \/ CloseTransaction(p)
    /\ UNCHANGED disk

\* ROLLBACK raises when SQLite has rolled the transaction back already.
ExecuteRollback(p) ==
    /\ Take(p, "rollback", IF txn[p] = NoTask THEN "fail" ELSE "ok")
    /\ CloseTransaction(p)
    /\ UNCHANGED <<disk, budget>>

\* The process dies and is started again: its tasks, its lock, the statements
\* not yet executed and its open transaction are gone; the disk is not.
Crash(p) ==
    LET alive(t) == ProcOf[t] = p /\ pc[t] \notin Final \cup {"idle"} IN
    /\ Spend("crash")
    /\ pc' = [t \in Tasks |-> IF alive(t) THEN "error" ELSE pc[t]]
    /\ reply' = [t \in Tasks |-> IF alive(t) THEN "none" ELSE reply[t]]
    /\ holder' = [holder EXCEPT ![p] = NoTask]
    /\ waiters' = [waiters EXCEPT ![p] = <<>>]
    /\ stmts' = [stmts EXCEPT ![p] = <<>>]
    /\ CloseTransaction(p)
    /\ UNCHANGED <<step, disk>>

-----------------------------------------------------------------------------
TaskStep(t) ==
    \/ AcquireLock(t)
    \/ BeginRaised(t)
    \/ NextWrite(t)
    \/ BodyEnds(t)
    \/ BodyRaised(t)
    \/ CommitReturned(t)
    \/ RollbackReturned(t)

Cancel(t) == CancelWaiting(t) \/ CancelBody(t) \/ CancelOutside(t)

ThreadStep(p) ==
    \/ ExecuteBegin(p)
    \/ RefuseNestedBegin(p)
    \/ BusyTimeout(p)
    \/ ExecuteWrite(p)
    \/ RefuseWrite(p)
    \/ ExecuteCommit(p)
    \/ RefuseCommit(p)
    \/ ExecuteRollback(p)

\* Nothing is left to do: every task has its answer and every thread is idle.
Quiescent ==
    /\ \A t \in Tasks : pc[t] \in Final
    /\ \A p \in Procs : stmts[p] = <<>>
    /\ UNCHANGED vars

Next ==
    \/ \E t \in Tasks : Enter(t) \/ TaskStep(t) \/ Cancel(t)
    \/ \E p \in Procs : ThreadStep(p) \/ Crash(p)
    \/ Quiescent

Spec == Init /\ [][Next]_vars

\* The event loop resumes every task whose answer is in, and a worker thread
\* executes what it was given. (asyncio and the operating system's scheduler.)
Fairness ==
    /\ \A t \in Tasks : WF_vars(TaskStep(t))
    /\ \A p \in Procs : WF_vars(ThreadStep(p))

FairSpec == Spec /\ Fairness

-----------------------------------------------------------------------------
(* The abstract store: a transaction whose COMMIT is still to be executed  *)
(* is not decided, even if its caller has gone.                            *)

CommitQueued(t) == \E i \in DOMAIN stmts[ProcOf[t]] :
    stmts[ProcOf[t]][i].task = t /\ stmts[ProcOf[t]][i].op = "commit"

Store == INSTANCE AtomicStore WITH
    store <- {t \in Tasks : WritesOf(t) \subseteq disk},
    outcome <- [t \in Tasks |->
        IF pc[t] \in Final /\ ~CommitQueued(t) THEN pc[t] ELSE "open"]

\* write_transaction implements the atomic store: whatever the interleaving of
\* tasks, threads, cancellations, faults and crashes, every transaction takes
\* effect in one step or never, and as its caller was told.
ImplementsAtomicStore == Store!StoreSpec

-----------------------------------------------------------------------------
TypeOK ==
    /\ pc \in [Tasks -> Awaits \cup Final \cup {"idle"}]
    /\ step \in [Tasks -> 0..NumWrites]
    /\ reply \in [Tasks -> {"none", "ok", "fail"}]
    /\ holder \in [Procs -> Tasks \cup {NoTask}]
    /\ waiters \in [Procs -> Seq(Tasks)]
    /\ stmts \in [Procs -> Seq(Statements)]
    /\ txn \in [Procs -> Tasks \cup {NoTask}]
    /\ pending \in [Procs -> SUBSET Write]
    /\ disk \subseteq Write
    /\ budget \in [Mishaps -> Nat]

\* All or nothing: whatever is cancelled, refused or crashes, and however late
\* a cancelled statement is executed, the disk never holds a part of a
\* transaction (write_transaction's COMMIT, ROLLBACK and lock together).
AllOrNothing ==
    \A t \in Tasks : WritesOf(t) \subseteq disk \/ WritesOf(t) \cap disk = {}

\* The body of one task never writes inside the transaction another task
\* opened on the shared connection, nor in autocommit mode: what is pending on
\* a connection belongs to the task whose BEGIN opened its transaction.
TransactionsDoNotMix ==
    \A p \in Procs : pending[p] \subseteq WritesOf(txn[p])

\* A task that was told its transaction succeeded finds it on disk, for ever
\* after; one that has not yet asked for COMMIT, or is rolling back, has
\* written nothing.
AnswersAreTrue ==
    \A t \in Tasks :
        /\ pc[t] = "ok" => WritesOf(t) \subseteq disk
        /\ pc[t] \in {"idle", "lock", "begin", "write", "rollback"}
              => WritesOf(t) \cap disk = {}

\* Rollback on any exception: when nobody holds the lock of a process and its
\* thread has nothing to execute, its connection has no open transaction (one
\* left open makes every later BEGIN IMMEDIATE of the process fail).
NoOrphanTransaction ==
    \A p \in Procs :
        holder[p] = NoTask /\ stmts[p] = <<>> => txn[p] = NoTask

\* Every task that asks for the lock gets an answer: no cancellation, refusal
\* or crash leaves a waiter behind a lock that is never released.
EveryTransactionEnds ==
    \A t \in Tasks : pc[t] = "lock" ~> pc[t] \in Final
=============================================================================
