----------------------- MODULE WriteTransaction_proofs -----------------------
(***************************************************************************)
(* Proofs about WriteTransaction for any number of tasks, processes and    *)
(* statements, and any cancellations, faults and crashes.                  *)
(***************************************************************************)
EXTENDS WriteTransaction, TLAPS

\* Task t is inside `async with self._write_lock`.
Inside(t) == pc[t] \in {"begin", "write", "commit", "rollback"}

\* asyncio.Lock: a task is inside iff it is the one that holds the lock.
LockInv == \A t \in Tasks : Inside(t) <=> holder[ProcOf[t]] = t

\* Where a statement can stand in the queue of a worker thread (this is the
\* i-th of process p), and what the connection looks like until it is executed.
StatementInv(p, i) ==
    LET s == stmts[p][i] IN
    /\ ProcOf[s.task] = p
    /\ pc[s.task] \notin {"idle", "lock"}
    /\ WritesOf(s.task) \cap disk = {}
    /\ s.op \in {"write", "commit"} =>
          /\ i = 1
          /\ txn[p] = s.task
    /\ s.op = "write" => pending[p] = {s.task} \X (1..(s.n - 1))
    /\ s.op = "commit" =>
          /\ pending[p] = WritesOf(s.task)
          /\ pc[s.task] \in {"commit", "error"}
    /\ s.op = "rollback" =>
          /\ txn[p] \in {s.task, NoTask}
          /\ pc[s.task] \in {"rollback", "error"}
          /\ \/ i = 1
             \/ i = 2 /\ stmts[p][1].op = "write" /\ stmts[p][1].task = s.task
    /\ s.op = "begin" => \A j \in 1..(i - 1) : stmts[p][j].task # s.task

QueueInv ==
    \A p \in Procs : \A i \in 1..Len(stmts[p]) : StatementInv(p, i)

\* The statement a task awaits is the last one in the queue; once it has the
\* answer the queue is empty and the connection is as the body left it.
Awaiting(t) ==
    /\ Inside(t) /\ reply[t] = "none" =>
          /\ stmts[ProcOf[t]] # <<>>
          /\ stmts[ProcOf[t]][Len(stmts[ProcOf[t]])]
                = [task |-> t, op |-> pc[t], n |-> step[t]]
    /\ Inside(t) /\ reply[t] # "none" => stmts[ProcOf[t]] = <<>>
    /\ pc[t] \in {"begin", "write"} /\ reply[t] = "ok" =>
          /\ txn[ProcOf[t]] = t
          /\ pending[ProcOf[t]] = {t} \X (1..step[t])
    /\ pc[t] = "begin" => step[t] = 0
    /\ pc[t] = "write" => step[t] # 0 /\ txn[ProcOf[t]] \in {t, NoTask}

AwaitInv == \A t \in Tasks : Awaiting(t)

\* An open transaction holds writes of the task that opened it, none of them
\* on disk.
TxnInv ==
    \A p \in Procs :
        /\ pending[p] \subseteq WritesOf(txn[p])
        /\ txn[p] # NoTask => ProcOf[txn[p]] = p /\ WritesOf(txn[p]) \cap disk = {}

\* What is on disk, as the task sees it.
Effect(t) ==
    /\ WritesOf(t) \subseteq disk \/ WritesOf(t) \cap disk = {}
    /\ pc[t] \in {"idle", "lock", "begin", "write", "rollback"} =>
          WritesOf(t) \cap disk = {}
    /\ pc[t] = "ok" \/ (pc[t] = "commit" /\ reply[t] = "ok") =>
          WritesOf(t) \subseteq disk

EffectInv == \A t \in Tasks : Effect(t)

IInv == TypeOK /\ LockInv /\ QueueInv /\ AwaitInv /\ TxnInv /\ EffectInv
-----------------------------------------------------------------------------
(* Type correctness.                                                       *)

LEMMA SubmitType ==
    ASSUME TypeOK, NEW t \in Tasks, NEW op \in Ops, NEW n \in 0..NumWrites,
           op = "write" => n # 0, Submit(t, op, n)
    PROVE  /\ stmts' \in [Procs -> Seq(Statements)]
           /\ pc' \in [Tasks -> Awaits \cup Final \cup {"idle"}]
           /\ step' \in [Tasks -> 0..NumWrites]
           /\ reply' \in [Tasks -> {"none", "ok", "fail"}]
<1>1. [task |-> t, op |-> op, n |-> n] \in Statements
  BY DEF Statements
<1>2. ProcOf[t] \in Procs
  BY WTAssumption
<1>3. stmts' \in [Procs -> Seq(Statements)]
  BY <1>1, <1>2 DEF TypeOK, Submit
<1>. QED
  BY <1>3 DEF TypeOK, Submit, Ops, Awaits

LEMMA SpendType ==
    ASSUME TypeOK, NEW mishap \in Mishaps, Spend(mishap)
    PROVE  budget' \in [Mishaps -> Nat]
<1>1. budget[mishap] \in Nat /\ budget[mishap] > 0
  BY DEF TypeOK, Spend
<1>2. budget[mishap] - 1 \in Nat
  BY <1>1
<1>. QED
  BY <1>2 DEF TypeOK, Spend

LEMMA TakeType ==
    ASSUME TypeOK, NEW p \in Procs, NEW op, NEW how \in {"ok", "fail"},
           Take(p, op, how)
    PROVE  /\ stmts' \in [Procs -> Seq(Statements)]
           /\ reply' \in [Tasks -> {"none", "ok", "fail"}]
           /\ Head(stmts[p]) \in Statements
           /\ UNCHANGED <<pc, step, holder, waiters>>
<1>1. stmts[p] \in Seq(Statements) /\ stmts[p] # <<>>
  BY DEF TypeOK, Take
<1>2. Head(stmts[p]) \in Statements /\ Tail(stmts[p]) \in Seq(Statements)
  BY <1>1
<1>3. Head(stmts[p]).task \in Tasks
  BY <1>2 DEF Statements
<1>. QED
  BY <1>2, <1>3 DEF TypeOK, Take, Answer

LEMMA NextTypeOK == TypeOK /\ [Next]_vars => TypeOK'
<1>. SUFFICES ASSUME TypeOK, [Next]_vars PROVE TypeOK'
  OBVIOUS
<1>. USE WTAssumption
<1>1. ASSUME NEW t \in Tasks, Enter(t) PROVE TypeOK'
  <2>1. waiters' \in [Procs -> Seq(Tasks)]
    <3>1. Append(waiters[ProcOf[t]], t) \in Seq(Tasks)
      BY DEF TypeOK
    <3>. QED
      BY <1>1, <3>1 DEF Enter, TypeOK
  <2>. QED
    BY <1>1, <2>1 DEF Enter, TypeOK, Awaits
<1>2. ASSUME NEW t \in Tasks, AcquireLock(t) PROVE TypeOK'
  <2>1. ProcOf[t] \in Procs
    OBVIOUS
  <2>2. waiters' \in [Procs -> Seq(Tasks)]
    BY <1>2, <2>1 DEF AcquireLock, TypeOK
  <2>3. holder' \in [Procs -> Tasks \cup {NoTask}]
    BY <1>2, <2>1 DEF AcquireLock, TypeOK
  <2>4. Submit(t, "begin", 0) /\ UNCHANGED <<txn, pending, disk, budget>>
    BY <1>2 DEF AcquireLock
  <2>5. /\ stmts' \in [Procs -> Seq(Statements)]
        /\ pc' \in [Tasks -> Awaits \cup Final \cup {"idle"}]
        /\ step' \in [Tasks -> 0..NumWrites]
        /\ reply' \in [Tasks -> {"none", "ok", "fail"}]
    BY <2>4, SubmitType DEF Ops
  <2>. QED
    BY <2>2, <2>3, <2>4, <2>5 DEF TypeOK
<1>3. ASSUME NEW t \in Tasks, BeginRaised(t) \/ CommitReturned(t) \/ RollbackReturned(t)
      PROVE TypeOK'
  BY <1>3 DEF BeginRaised, CommitReturned, RollbackReturned, Leave, TypeOK, Final
<1>4. ASSUME NEW t \in Tasks, NextWrite(t) PROVE TypeOK'
  <2>1. step[t] + 1 \in 0..NumWrites /\ step[t] + 1 # 0
    BY <1>4 DEF NextWrite, TypeOK
  <2>. QED
    BY <1>4, <2>1, SubmitType DEF NextWrite, TypeOK, Ops
<1>5. ASSUME NEW t \in Tasks, BodyEnds(t) \/ BodyRaised(t) PROVE TypeOK'
  <2>1. /\ Submit(t, "commit", 0) \/ Submit(t, "rollback", 0)
        /\ UNCHANGED <<holder, waiters, txn, pending, disk, budget>>
    BY <1>5 DEF BodyEnds, BodyRaised
  <2>2. /\ stmts' \in [Procs -> Seq(Statements)]
        /\ pc' \in [Tasks -> Awaits \cup Final \cup {"idle"}]
        /\ step' \in [Tasks -> 0..NumWrites]
        /\ reply' \in [Tasks -> {"none", "ok", "fail"}]
    BY <2>1, SubmitType DEF Ops
  <2>. QED
    BY <2>1, <2>2 DEF TypeOK
<1>6. ASSUME NEW t \in Tasks, Cancel(t) PROVE TypeOK'
  <2>1. ASSUME NEW point, MayCancel(t, point)
        PROVE budget' \in [Mishaps -> Nat]
    BY <2>1, SpendType DEF MayCancel, Mishaps
  <2>2. CASE CancelWaiting(t)
    <3>1. waiters' \in [Procs -> Seq(Tasks)]
      <4>1. PICK i \in DOMAIN waiters[ProcOf[t]] :
              waiters' = [waiters EXCEPT ![ProcOf[t]] =
                            SubSeq(@, 1, i - 1) \o SubSeq(@, i + 1, Len(@))]
        BY <2>2 DEF CancelWaiting
      <4>2. waiters[ProcOf[t]] \in Seq(Tasks)
        BY DEF TypeOK
      <4>3. SubSeq(waiters[ProcOf[t]], 1, i - 1) \in Seq(Tasks)
        BY <4>2
      <4>4. SubSeq(waiters[ProcOf[t]], i + 1, Len(waiters[ProcOf[t]])) \in Seq(Tasks)
        BY <4>2
      <4>5. SubSeq(waiters[ProcOf[t]], 1, i - 1)
              \o SubSeq(waiters[ProcOf[t]], i + 1, Len(waiters[ProcOf[t]])) \in Seq(Tasks)
        BY <4>3, <4>4
      <4>. QED
        BY <4>1, <4>5 DEF TypeOK
    <3>. QED
      BY <2>1, <2>2, <3>1 DEF CancelWaiting, TypeOK, Final
  <2>3. CASE CancelBody(t)
    BY <2>1, <2>3, SubmitType DEF CancelBody, TypeOK, Ops
  <2>4. CASE CancelOutside(t)
    BY <2>1, <2>4 DEF CancelOutside, Leave, TypeOK, Final
  <2>. QED
    BY <1>6, <2>2, <2>3, <2>4 DEF Cancel
<1>7. ASSUME NEW p \in Procs, ThreadStep(p) PROVE TypeOK'
  <2>1. ASSUME NEW op, Fault(op)
        PROVE budget' \in [Mishaps -> Nat]
    BY <2>1, SpendType DEF Fault, Mishaps
  <2>2. CASE ExecuteBegin(p)
    BY <2>2, TakeType DEF ExecuteBegin, TypeOK, Statements
  <2>3. CASE RefuseNestedBegin(p) \/ BusyTimeout(p)
    BY <2>3, TakeType DEF RefuseNestedBegin, BusyTimeout, TypeOK
  <2>4. CASE ExecuteWrite(p)
    <3>1. Take(p, "write", "ok")
      BY <2>4 DEF ExecuteWrite
    <3>2. Head(stmts[p]) \in Statements /\ stmts[p] # <<>>
      BY <3>1, TakeType DEF Take
    <3>3. Head(stmts[p]).n \in 1..NumWrites
      BY <3>1, <3>2 DEF Take, Statements
    <3>4. <<Head(stmts[p]).task, Head(stmts[p]).n>> \in Write
      BY <3>2, <3>3 DEF Statements, Write
    <3>5. UNCHANGED <<txn, budget>>
      BY <2>4 DEF ExecuteWrite
    <3>6. CASE txn[p] = NoTask
      <4>1. disk' = disk \cup {<<Head(stmts[p]).task, Head(stmts[p]).n>>} /\ pending' = pending
        BY <2>4, <3>6 DEF ExecuteWrite
      <4>. QED
        BY <3>1, <3>4, <3>5, <4>1, TakeType DEF TypeOK
    <3>7. CASE txn[p] # NoTask
      <4>. DEFINE w == <<Head(stmts[p]).task, Head(stmts[p]).n>>
      <4>1. pending' = [pending EXCEPT ![p] = @ \cup {w}] /\ disk' = disk
        BY <2>4, <3>7 DEF ExecuteWrite
      <4>2. pending[p] \cup {w} \in SUBSET Write
        BY <3>4 DEF TypeOK
      <4>3. pending' \in [Procs -> SUBSET Write]
        BY <4>1, <4>2 DEF TypeOK
      <4>. QED
        BY <3>1, <3>5, <4>1, <4>3, TakeType DEF TypeOK
    <3>. QED
      BY <3>6, <3>7
  <2>5. CASE RefuseWrite(p)
    BY <2>1, <2>5, TakeType DEF RefuseWrite, CloseTransaction, TypeOK
  <2>6. CASE ExecuteCommit(p)
    BY <2>6, TakeType DEF ExecuteCommit, CloseTransaction, TypeOK
  <2>7. CASE RefuseCommit(p)
    BY <2>1, <2>7, TakeType DEF RefuseCommit, CloseTransaction, TypeOK
  <2>8. CASE ExecuteRollback(p)
    BY <2>8, TakeType DEF ExecuteRollback, CloseTransaction, TypeOK
  <2>. QED
    BY <1>7, <2>2, <2>3, <2>4, <2>5, <2>6, <2>7, <2>8 DEF ThreadStep
<1>8. ASSUME NEW p \in Procs, Crash(p) PROVE TypeOK'
  <2>1. budget' \in [Mishaps -> Nat]
    BY <1>8, SpendType DEF Crash, Mishaps
  <2>2. /\ waiters' \in [Procs -> Seq(Tasks)]
        /\ stmts' \in [Procs -> Seq(Statements)]
    BY <1>8 DEF Crash, TypeOK
  <2>3. /\ pc' \in [Tasks -> Awaits \cup Final \cup {"idle"}]
        /\ reply' \in [Tasks -> {"none", "ok", "fail"}]
    BY <1>8 DEF Crash, TypeOK, Final
  <2>. QED
    BY <1>8, <2>1, <2>2, <2>3 DEF Crash, CloseTransaction, TypeOK
<1>9. CASE UNCHANGED vars
  BY <1>9 DEF vars, TypeOK
<1>. QED
  BY <1>1, <1>2, <1>3, <1>4, <1>5, <1>6, <1>7, <1>8, <1>9
     DEF Next, TaskStep, Quiescent

\* Every variable keeps its type.
THEOREM TypeCorrect == Spec => []TypeOK
<1>1. Init => TypeOK
  BY WTAssumption DEF Init, TypeOK, Awaits, Final
<1>. QED
  BY <1>1, NextTypeOK, PTL DEF Spec
-----------------------------------------------------------------------------
(* The inductive invariant.                                                *)

\* Appending to a queue of statements leaves its elements where they are.
LEMMA SubmitQueue ==
    ASSUME TypeOK, NEW t \in Tasks, NEW op \in Ops, NEW n \in 0..NumWrites,
           Submit(t, op, n)
    PROVE  LET p == ProcOf[t] IN
           /\ p \in Procs
           /\ Len(stmts[p]) \in Nat
           /\ Len(stmts'[p]) = Len(stmts[p]) + 1
           /\ \A i \in 1..Len(stmts[p]) : stmts'[p][i] = stmts[p][i]
           /\ stmts'[p][Len(stmts[p]) + 1] = [task |-> t, op |-> op, n |-> n]
           /\ \A q \in Procs \ {p} : stmts'[q] = stmts[q]
<1>. DEFINE p == ProcOf[t]
<1>1. p \in Procs
  BY WTAssumption
<1>2. stmts[p] \in Seq(Statements)
  BY <1>1 DEF TypeOK
<1>3. stmts'[p] = Append(stmts[p], [task |-> t, op |-> op, n |-> n])
  BY <1>1 DEF Submit, TypeOK
<1>4. \A q \in Procs \ {p} : stmts'[q] = stmts[q]
  BY <1>1 DEF Submit, TypeOK
<1>. QED
  BY <1>1, <1>2, <1>3, <1>4

\* Taking the first statement moves the others up by one.
LEMMA TakeQueue ==
    ASSUME TypeOK, NEW p \in Procs, NEW op, NEW how, Take(p, op, how)
    PROVE  /\ Len(stmts[p]) \in Nat \ {0}
           /\ stmts[p][1] = Head(stmts[p])
           /\ stmts[p][1].op = op
           /\ stmts[p][1].task \in Tasks
           /\ Len(stmts'[p]) = Len(stmts[p]) - 1
           /\ \A i \in 1..Len(stmts'[p]) :
                 i + 1 \in 1..Len(stmts[p]) /\ stmts'[p][i] = stmts[p][i + 1]
           /\ \A q \in Procs \ {p} : stmts'[q] = stmts[q]
<1>1. stmts[p] \in Seq(Statements) /\ stmts[p] # <<>>
  BY DEF TypeOK, Take
<1>2. stmts'[p] = Tail(stmts[p]) /\ \A q \in Procs \ {p} : stmts'[q] = stmts[q]
  BY DEF Take, TypeOK
<1>3. Head(stmts[p]).op = op
  BY DEF Take
<1>4. stmts[p][1] \in Statements
  BY <1>1
<1>5. stmts[p][1].task \in Tasks
  BY <1>4 DEF Statements
<1>. QED
  BY <1>1, <1>2, <1>3, <1>5

LEMMA QueueType ==
    ASSUME TypeOK, NEW p \in Procs
    PROVE  /\ Len(stmts[p]) \in Nat
           /\ \A i \in 1..Len(stmts[p]) :
                 /\ stmts[p][i] \in Statements
                 /\ stmts[p][i].task \in Tasks
                 /\ stmts[p][i].op \in Ops
                 /\ stmts[p][i].n \in 0..NumWrites
<1>1. stmts[p] \in Seq(Statements)
  BY DEF TypeOK
<1>2. \A i \in 1..Len(stmts[p]) : stmts[p][i] \in Statements
  BY <1>1
<1>. QED
  BY <1>1, <1>2 DEF Statements

\* A step that leaves the connection and the first i statements of q alone, and
\* does not move the task of the i-th, keeps what is known of that statement.
LEMMA StatementKept ==
    ASSUME TypeOK, NEW q \in Procs, NEW i \in 1..Len(stmts[q]), StatementInv(q, i),
           \A j \in 1..i : stmts'[q][j] = stmts[q][j],
           pc'[stmts[q][i].task] = pc[stmts[q][i].task],
           disk' = disk, txn'[q] = txn[q], pending'[q] = pending[q]
    PROVE  StatementInv(q, i)'
<1>1. i \in Nat \ {0} /\ 1 \in 1..i /\ i \in 1..i
  BY QueueType
<1>2. stmts'[q][i] = stmts[q][i] /\ stmts'[q][1] = stmts[q][1]
  BY <1>1
<1>3. \A j \in 1..(i - 1) : stmts'[q][j] = stmts[q][j]
  BY <1>1
<1>. QED
  BY <1>2, <1>3 DEF StatementInv, WritesOf

LEMMA InitIInv == Init => IInv
<1>. SUFFICES ASSUME Init PROVE IInv
  OBVIOUS
<1>. USE WTAssumption DEF Init
<1>1. TypeOK
  BY DEF TypeOK, Awaits, Final
<1>2. LockInv
  BY DEF LockInv, Inside
<1>3. QueueInv
  BY DEF QueueInv
<1>4. AwaitInv
  BY DEF AwaitInv, Awaiting, Inside
<1>5. TxnInv
  BY DEF TxnInv
<1>6. EffectInv
  BY DEF EffectInv, Effect
<1>. QED
  BY <1>1, <1>2, <1>3, <1>4, <1>5, <1>6 DEF IInv

\* A task that only waits for the lock.
\* A task that has not taken the lock yet has no statement in any queue.
LEMMA OutsideNotQueued ==
    ASSUME IInv, NEW t \in Tasks, pc[t] \in {"idle", "lock"}
    PROVE  \A p \in Procs : \A i \in 1..Len(stmts[p]) : stmts[p][i].task # t
<1>. SUFFICES ASSUME NEW p \in Procs, NEW i \in 1..Len(stmts[p])
              PROVE  stmts[p][i].task # t
  OBVIOUS
<1>1. StatementInv(p, i)
  BY DEF IInv, QueueInv
<1>. QED
  BY <1>1 DEF StatementInv

\* A statement that stands in the queue of p belongs to a task of p.
LEMMA QueuedHere ==
    ASSUME IInv, NEW p \in Procs, NEW i \in 1..Len(stmts[p])
    PROVE  ProcOf[stmts[p][i].task] = p /\ StatementInv(p, i)
<1>1. StatementInv(p, i)
  BY DEF IInv, QueueInv
<1>. QED
  BY <1>1 DEF StatementInv

\* A step of task t alone: what is known of the other tasks and of the
\* connections survives, and the rest is shown by whoever cites this.
LEMMA TaskStepFrame ==
    ASSUME IInv, NEW t \in Tasks,
           UNCHANGED <<txn, pending, disk>>,
           \A u \in Tasks \ {t} : pc'[u] = pc[u] /\ step'[u] = step[u] /\ reply'[u] = reply[u],
           \A q \in Procs \ {ProcOf[t]} : stmts'[q] = stmts[q],
           holder'[ProcOf[t]] \in {t, NoTask} \/ stmts' = stmts,
           TypeOK', LockInv', QueueInv', Awaiting(t)', Effect(t)'
    PROVE  IInv'
<1>1. ASSUME NEW u \in Tasks \ {t} PROVE Awaiting(u)'
  <2>0. ProcOf[u] \in Procs
    BY WTAssumption
  <2>1. Awaiting(u)
    BY DEF IInv, AwaitInv
  <2>2. CASE stmts'[ProcOf[u]] = stmts[ProcOf[u]]
    BY <2>1, <2>2 DEF Awaiting, Inside
  <2>3. CASE stmts'[ProcOf[u]] # stmts[ProcOf[u]]
    <3>1. ProcOf[u] = ProcOf[t] /\ holder'[ProcOf[t]] \in {t, NoTask}
      BY <2>0, <2>3
    <3>2. holder'[ProcOf[u]] # u
      BY <3>1, WTAssumption
    <3>3. ~Inside(u)'
      BY <3>2 DEF LockInv
    <3>. QED
      BY <3>3 DEF Awaiting, Inside
  <2>. QED
    BY <2>2, <2>3
<1>2. ASSUME NEW u \in Tasks \ {t} PROVE Effect(u)'
  <2>1. Effect(u)
    BY DEF IInv, EffectInv
  <2>. QED
    BY <2>1 DEF Effect, WritesOf
<1>3. TxnInv'
  BY DEF IInv, TxnInv, WritesOf
<1>. QED
  BY <1>1, <1>2, <1>3 DEF IInv, AwaitInv, EffectInv

\* Submitting a statement keeps QueueInv if the new statement satisfies it and
\* the statements of the same task do.
LEMMA SubmitQueueInv ==
    ASSUME IInv, NEW t \in Tasks, NEW op \in Ops, NEW n \in 0..NumWrites,
           Submit(t, op, n), UNCHANGED <<txn, pending, disk>>,
           NEW k \in Nat, k = Len(stmts[ProcOf[t]]) + 1, StatementInv(ProcOf[t], k)',
           \A i \in 1..Len(stmts[ProcOf[t]]) :
              stmts[ProcOf[t]][i].task = t => StatementInv(ProcOf[t], i)'
    PROVE  QueueInv'
<1>. DEFINE p == ProcOf[t]
<1>0. TypeOK
  BY DEF IInv
<1>1. /\ p \in Procs
      /\ Len(stmts[p]) \in Nat
      /\ Len(stmts'[p]) = Len(stmts[p]) + 1
      /\ \A i \in 1..Len(stmts[p]) : stmts'[p][i] = stmts[p][i]
      /\ \A q \in Procs \ {p} : stmts'[q] = stmts[q]
  BY <1>0, SubmitQueue
<1>. SUFFICES ASSUME NEW q \in Procs, NEW i \in 1..Len(stmts'[q])
              PROVE  StatementInv(q, i)'
  BY DEF QueueInv
<1>2. CASE q = p /\ i = k
  BY <1>2
<1>3. CASE q = p /\ i # k
  <2>1. i \in 1..Len(stmts[p]) /\ \A j \in 1..i : stmts'[p][j] = stmts[p][j]
    BY <1>1, <1>3
  <2>2. CASE stmts[p][i].task = t
    BY <1>3, <2>1, <2>2
  <2>3. CASE stmts[p][i].task # t
    <3>1. pc'[stmts[p][i].task] = pc[stmts[p][i].task]
      BY <1>0, <1>1, <2>1, <2>3, QueueType DEF Submit, TypeOK
    <3>. QED
      BY <1>0, <1>1, <1>3, <2>1, <3>1, QueuedHere, StatementKept
  <2>. QED
    BY <2>2, <2>3
<1>4. CASE q # p
  <2>1. stmts'[q] = stmts[q] /\ i \in 1..Len(stmts[q])
    BY <1>1, <1>4
  <2>2. stmts[q][i].task # t
    BY <1>4, <2>1, QueuedHere
  <2>3. pc'[stmts[q][i].task] = pc[stmts[q][i].task]
    BY <1>0, <2>1, <2>2, QueueType DEF Submit, TypeOK
  <2>. QED
    BY <1>0, <2>1, <2>3, QueuedHere, StatementKept
<1>. QED
  BY <1>2, <1>3, <1>4

\* The task steps and cancellations, one by one.
LEMMA EnterIInv ==
    ASSUME IInv, TypeOK', NEW t \in Tasks, Enter(t) PROVE IInv'
<1>0. TypeOK /\ pc[t] = "idle" /\ pc' = [pc EXCEPT ![t] = "lock"]
  BY DEF IInv, Enter
<1>1. UNCHANGED <<step, reply, holder, stmts, txn, pending, disk>>
  BY DEF Enter
<1>2. LockInv'
  BY <1>0, <1>1 DEF IInv, LockInv, Inside, TypeOK
<1>3. QueueInv'
  <2>. SUFFICES ASSUME NEW q \in Procs, NEW i \in 1..Len(stmts[q])
                PROVE  StatementInv(q, i)'
    BY <1>1 DEF QueueInv
  <2>1. pc'[stmts[q][i].task] = pc[stmts[q][i].task]
    BY <1>0, OutsideNotQueued, QueueType DEF TypeOK
  <2>. QED
    BY <1>0, <1>1, <2>1, QueuedHere, StatementKept
<1>4. Awaiting(t)'
  BY <1>0 DEF Awaiting, Inside, TypeOK
<1>5. Effect(t)'
  BY <1>0, <1>1 DEF IInv, EffectInv, Effect, TypeOK, WritesOf
<1>. QED
  BY <1>0, <1>1, <1>2, <1>3, <1>4, <1>5, TaskStepFrame DEF TypeOK

LEMMA AcquireLockIInv ==
    ASSUME IInv, TypeOK', NEW t \in Tasks, AcquireLock(t) PROVE IInv'
<1>. DEFINE p == ProcOf[t]
<1>0. /\ TypeOK
      /\ pc[t] = "lock" /\ holder[p] = NoTask
      /\ holder' = [holder EXCEPT ![p] = t]
      /\ Submit(t, "begin", 0)
      /\ UNCHANGED <<txn, pending, disk>>
  BY DEF IInv, AcquireLock
<1>1. /\ p \in Procs
      /\ Len(stmts[p]) \in Nat
      /\ Len(stmts'[p]) = Len(stmts[p]) + 1
      /\ \A i \in 1..Len(stmts[p]) : stmts'[p][i] = stmts[p][i]
      /\ stmts'[p][Len(stmts[p]) + 1] = [task |-> t, op |-> "begin", n |-> 0]
      /\ \A q \in Procs \ {p} : stmts'[q] = stmts[q]
  BY <1>0, SubmitQueue, WTAssumption DEF Ops
<1>2. /\ pc' = [pc EXCEPT ![t] = "begin"]
      /\ step' = [step EXCEPT ![t] = 0]
      /\ reply' = [reply EXCEPT ![t] = "none"]
  BY <1>0 DEF Submit
<1>3. LockInv'
  <2>. SUFFICES ASSUME NEW u \in Tasks
                PROVE  Inside(u)' <=> holder'[ProcOf[u]] = u
    BY DEF LockInv
  <2>1. ProcOf[u] \in Procs /\ u # NoTask
    BY WTAssumption
  <2>2. Inside(u) <=> holder[ProcOf[u]] = u
    BY DEF IInv, LockInv
  <2>3. CASE u = t
    BY <1>0, <1>1, <1>2, <2>3 DEF Inside, TypeOK
  <2>4. CASE u # t
    <3>1. Inside(u)' <=> Inside(u)
      BY <1>0, <1>2, <2>4 DEF Inside, TypeOK
    <3>2. ProcOf[u] = p => holder[p] # u /\ holder'[p] # u
      BY <1>0, <1>1, <2>1, <2>4 DEF TypeOK
    <3>3. ProcOf[u] # p => holder'[ProcOf[u]] = holder[ProcOf[u]]
      BY <1>0, <2>1 DEF TypeOK
    <3>. QED
      BY <2>2, <3>1, <3>2, <3>3
  <2>. QED
    BY <2>3, <2>4
<1>4. \A i \in 1..Len(stmts[p]) : stmts[p][i].task # t
  BY <1>0, <1>1, OutsideNotQueued
<1>5. Effect(t)'
  BY <1>0, <1>2 DEF IInv, EffectInv, Effect, TypeOK, WritesOf
<1>6. QueueInv'
  <2>. DEFINE k == Len(stmts[p]) + 1
  <2>1. ASSUME NEW j \in Nat, j = k PROVE StatementInv(p, j)'
    <3>1. WritesOf(t) \cap disk' = {}
      BY <1>0 DEF IInv, EffectInv, Effect, WritesOf
    <3>2. \A i \in 1..Len(stmts[p]) : stmts'[p][i].task # t
      BY <1>1, <1>4
    <3>3. pc'[t] = "begin"
      BY <1>0, <1>2 DEF TypeOK
    <3>4. stmts'[p][j] = [task |-> t, op |-> "begin", n |-> 0]
      BY <1>1, <2>1
    <3>5. \A m \in 1..(j - 1) : stmts'[p][m].task # t
      BY <1>1, <2>1, <3>2
    <3>. QED
      BY <3>1, <3>3, <3>4, <3>5 DEF StatementInv, WritesOf
  <2>2. PICK j \in Nat : j = k
    BY <1>1
  <2>. QED
    BY <1>0, <1>4, <2>1, <2>2, SubmitQueueInv, WTAssumption DEF Ops
<1>7. Awaiting(t)'
  BY <1>0, <1>1, <1>2 DEF Awaiting, Inside, TypeOK
<1>. QED
  BY <1>0, <1>1, <1>2, <1>3, <1>5, <1>6, <1>7, TaskStepFrame DEF TypeOK

\* A task that waits for nothing inside the lock submits its next statement:
\* the queue of its process is empty, so it becomes the first one.
LEMMA SubmitToEmptyQueue ==
    ASSUME IInv, TypeOK', NEW t \in Tasks, NEW op \in Ops, NEW n \in 0..NumWrites,
           Inside(t), op # "begin", stmts[ProcOf[t]] = <<>>,
           Submit(t, op, n), UNCHANGED <<holder, txn, pending, disk>>,
           txn[ProcOf[t]] = t \/ (op = "rollback" /\ txn[ProcOf[t]] = NoTask),
           op = "write" => n # 0 /\ pending[ProcOf[t]] = {t} \X (1..(n - 1)),
           op = "commit" => pending[ProcOf[t]] = WritesOf(t),
           WritesOf(t) \cap disk = {}
    PROVE  IInv'
<1>. DEFINE p == ProcOf[t]
<1>0. TypeOK
  BY DEF IInv
<1>1. /\ p \in Procs
      /\ Len(stmts[p]) = 0
      /\ Len(stmts'[p]) = 1
      /\ stmts'[p][1] = [task |-> t, op |-> op, n |-> n]
      /\ \A q \in Procs \ {p} : stmts'[q] = stmts[q]
  <2>1. Len(stmts[p]) = 0
    OBVIOUS
  <2>2. /\ p \in Procs
        /\ Len(stmts'[p]) = Len(stmts[p]) + 1
        /\ stmts'[p][Len(stmts[p]) + 1] = [task |-> t, op |-> op, n |-> n]
        /\ \A q \in Procs \ {p} : stmts'[q] = stmts[q]
    BY <1>0, SubmitQueue
  <2>3. Len(stmts[p]) + 1 = 1
    BY <2>1
  <2>. QED
    BY <2>1, <2>2, <2>3
<1>2. /\ pc' = [pc EXCEPT ![t] = op]
      /\ step' = [step EXCEPT ![t] = n]
      /\ reply' = [reply EXCEPT ![t] = "none"]
  BY DEF Submit
<1>3. pc'[t] = op /\ step'[t] = n /\ reply'[t] = "none"
  BY <1>0, <1>2 DEF TypeOK
<1>4. LockInv'
  BY <1>0, <1>2 DEF IInv, LockInv, Inside, TypeOK, Ops
<1>5. QueueInv'
  <2>1. StatementInv(p, 1)'
    BY <1>1, <1>3 DEF StatementInv, WritesOf, Ops
  <2>. QED
    BY <1>1, <2>1, SubmitQueueInv
<1>6. Awaiting(t)'
  BY <1>1, <1>3 DEF Awaiting, Inside
<1>7. Effect(t)'
  BY <1>3 DEF Effect, WritesOf, Ops
<1>8. holder[p] = t
  BY DEF IInv, LockInv
<1>. QED
  BY <1>0, <1>1, <1>2, <1>4, <1>5, <1>6, <1>7, <1>8, TaskStepFrame DEF TypeOK

LEMMA NextWriteIInv ==
    ASSUME IInv, TypeOK', NEW t \in Tasks, NextWrite(t) PROVE IInv'
<1>1. /\ pc[t] \in {"begin", "write"} /\ reply[t] = "ok"
      /\ step[t] < NumWrites /\ step[t] \in 0..NumWrites
      /\ Submit(t, "write", step[t] + 1)
      /\ UNCHANGED <<holder, txn, pending, disk>>
  BY DEF NextWrite, IInv, TypeOK
<1>2. Inside(t) /\ Awaiting(t) /\ Effect(t)
  BY <1>1 DEF Inside, IInv, AwaitInv, EffectInv
<1>3. /\ stmts[ProcOf[t]] = <<>>
      /\ txn[ProcOf[t]] = t
      /\ pending[ProcOf[t]] = {t} \X (1..step[t])
      /\ WritesOf(t) \cap disk = {}
  BY <1>1, <1>2 DEF Awaiting, Effect
<1>4. step[t] + 1 \in 0..NumWrites /\ step[t] + 1 # 0 /\ (step[t] + 1) - 1 = step[t]
  BY <1>1, WTAssumption
<1>. QED
  BY <1>1, <1>2, <1>3, <1>4, SubmitToEmptyQueue DEF Ops

LEMMA BodyEndsIInv ==
    ASSUME IInv, TypeOK', NEW t \in Tasks, BodyEnds(t) \/ BodyRaised(t) PROVE IInv'
<1>0. 0 \in 0..NumWrites
  BY WTAssumption
<1>1. /\ pc[t] = "write" /\ reply[t] # "none"
      /\ UNCHANGED <<holder, txn, pending, disk>>
  BY DEF BodyEnds, BodyRaised
<1>2. Inside(t) /\ Awaiting(t) /\ Effect(t)
  BY <1>1 DEF Inside, IInv, AwaitInv, EffectInv
<1>3. /\ stmts[ProcOf[t]] = <<>>
      /\ txn[ProcOf[t]] \in {t, NoTask}
      /\ WritesOf(t) \cap disk = {}
  BY <1>1, <1>2 DEF Awaiting, Effect
<1>4. CASE BodyEnds(t)
  <2>1. /\ reply[t] = "ok" /\ step[t] = NumWrites /\ Submit(t, "commit", 0)
    BY <1>4 DEF BodyEnds
  <2>2. txn[ProcOf[t]] = t /\ pending[ProcOf[t]] = WritesOf(t)
    BY <1>1, <1>2, <2>1 DEF Awaiting, WritesOf
  <2>. QED
    BY <1>0, <1>1, <1>2, <1>3, <2>1, <2>2, SubmitToEmptyQueue DEF Ops
<1>5. CASE BodyRaised(t)
  <2>1. Submit(t, "rollback", 0)
    BY <1>5 DEF BodyRaised
  <2>. QED
    BY <1>0, <1>1, <1>2, <1>3, <2>1, SubmitToEmptyQueue DEF Ops
<1>. QED
  BY <1>4, <1>5

\* Leaving the lock: the statements that are still queued keep what is known of
\* them, because the task has become "error" or the queue is empty.
LEMMA LeaveIInv ==
    ASSUME IInv, TypeOK', NEW t \in Tasks, NEW how \in Final, Inside(t), Leave(t, how),
           UNCHANGED <<txn, pending, disk>>,
           how = "ok" => /\ stmts[ProcOf[t]] = <<>>
                         /\ WritesOf(t) \subseteq disk
    PROVE  IInv'
<1>. DEFINE p == ProcOf[t]
<1>0. TypeOK /\ p \in Procs
  BY WTAssumption DEF IInv
<1>1. /\ holder' = [holder EXCEPT ![p] = NoTask]
      /\ pc' = [pc EXCEPT ![t] = how]
      /\ reply' = [reply EXCEPT ![t] = "none"]
      /\ UNCHANGED <<step, stmts>>
  BY DEF Leave
<1>2. pc'[t] = how
  BY <1>0, <1>1 DEF TypeOK
<1>3. LockInv'
  <2>. SUFFICES ASSUME NEW u \in Tasks
                PROVE  Inside(u)' <=> holder'[ProcOf[u]] = u
    BY DEF LockInv
  <2>1. ProcOf[u] \in Procs /\ u # NoTask
    BY WTAssumption
  <2>2. /\ Inside(u) <=> holder[ProcOf[u]] = u
        /\ holder[p] = t
    BY DEF IInv, LockInv
  <2>3. CASE u = t
    BY <1>0, <1>1, <1>2, <2>1, <2>3 DEF Inside, TypeOK, Final
  <2>4. CASE u # t
    <3>1. Inside(u)' <=> Inside(u)
      BY <1>0, <1>1, <2>4 DEF Inside, TypeOK
    <3>2. ProcOf[u] = p => holder[p] # u /\ holder'[p] # u
      BY <1>0, <1>1, <2>1, <2>2, <2>4 DEF TypeOK
    <3>3. ProcOf[u] # p => holder'[ProcOf[u]] = holder[ProcOf[u]]
      BY <1>0, <1>1, <2>1 DEF TypeOK
    <3>. QED
      BY <2>2, <3>1, <3>2, <3>3
  <2>. QED
    BY <2>3, <2>4
<1>4. QueueInv'
  <2>. SUFFICES ASSUME NEW q \in Procs, NEW i \in 1..Len(stmts[q])
                PROVE  StatementInv(q, i)'
    BY <1>1 DEF QueueInv
  <2>1. StatementInv(q, i) /\ ProcOf[stmts[q][i].task] = q
    BY QueuedHere
  <2>2. CASE stmts[q][i].task = t
    <3>1. q = p
      BY <2>1, <2>2
    <3>2. stmts[p] # <<>>
      BY <1>0, <3>1, QueueType
    <3>3. how = "error"
      BY <3>2 DEF Final
    <3>. QED
      BY <1>1, <1>2, <2>1, <2>2, <3>3 DEF StatementInv, WritesOf
  <2>3. CASE stmts[q][i].task # t
    <3>1. pc'[stmts[q][i].task] = pc[stmts[q][i].task]
      BY <1>0, <1>1, <2>3, QueueType DEF TypeOK
    <3>. QED
      BY <1>0, <1>1, <2>1, <3>1, StatementKept
  <2>. QED
    BY <2>2, <2>3
<1>5. Awaiting(t)'
  BY <1>2 DEF Awaiting, Inside, Final
<1>6. Effect(t)'
  <2>1. Effect(t)
    BY DEF IInv, EffectInv
  <2>. QED
    BY <1>2, <2>1 DEF Effect, Final, WritesOf
<1>. QED
  BY <1>0, <1>1, <1>3, <1>4, <1>5, <1>6, TaskStepFrame DEF TypeOK

LEMMA AnsweredIInv ==
    ASSUME IInv, TypeOK', NEW t \in Tasks,
           BeginRaised(t) \/ CommitReturned(t) \/ RollbackReturned(t)
    PROVE  IInv'
<1>1. Awaiting(t) /\ Effect(t)
  BY DEF IInv, AwaitInv, EffectInv
<1>2. CASE BeginRaised(t) \/ RollbackReturned(t)
  BY <1>2, LeaveIInv DEF BeginRaised, RollbackReturned, Inside, Final
<1>3. CASE CommitReturned(t)
  <2>1. /\ pc[t] = "commit" /\ reply[t] # "none"
        /\ UNCHANGED <<txn, pending, disk>>
    BY <1>3 DEF CommitReturned
  <2>2. Inside(t) /\ stmts[ProcOf[t]] = <<>>
    BY <1>1, <2>1 DEF Inside, Awaiting
  <2>3. CASE reply[t] = "ok"
    <3>1. Leave(t, "ok") /\ WritesOf(t) \subseteq disk
      BY <1>1, <1>3, <2>1, <2>3 DEF CommitReturned, Effect
    <3>. QED
      BY <2>1, <2>2, <3>1, LeaveIInv DEF Final
  <2>4. CASE reply[t] # "ok"
    <3>1. Leave(t, "error")
      BY <1>3, <2>4 DEF CommitReturned
    <3>. QED
      BY <2>1, <2>2, <3>1, LeaveIInv DEF Final
  <2>. QED
    BY <2>3, <2>4
<1>. QED
  BY <1>2, <1>3

LEMMA CancelWaitingIInv ==
    ASSUME IInv, TypeOK', NEW t \in Tasks, CancelWaiting(t) PROVE IInv'
<1>0. TypeOK /\ pc[t] = "lock" /\ pc' = [pc EXCEPT ![t] = "error"]
  BY DEF IInv, CancelWaiting, MayCancel
<1>1. UNCHANGED <<step, reply, holder, stmts, txn, pending, disk>>
  BY DEF CancelWaiting
<1>2. LockInv'
  BY <1>0, <1>1 DEF IInv, LockInv, Inside, TypeOK
<1>3. QueueInv'
  <2>. SUFFICES ASSUME NEW q \in Procs, NEW i \in 1..Len(stmts[q])
                PROVE  StatementInv(q, i)'
    BY <1>1 DEF QueueInv
  <2>1. pc'[stmts[q][i].task] = pc[stmts[q][i].task]
    BY <1>0, OutsideNotQueued, QueueType DEF TypeOK
  <2>. QED
    BY <1>0, <1>1, <2>1, QueuedHere, StatementKept
<1>4. Awaiting(t)'
  BY <1>0 DEF Awaiting, Inside, TypeOK
<1>5. Effect(t)'
  BY <1>0, <1>1 DEF IInv, EffectInv, Effect, TypeOK, WritesOf
<1>. QED
  BY <1>0, <1>1, <1>2, <1>3, <1>4, <1>5, TaskStepFrame DEF TypeOK

LEMMA CancelOutsideIInv ==
    ASSUME IInv, TypeOK', NEW t \in Tasks, CancelOutside(t) PROVE IInv'
<1>1. /\ pc[t] \in {"begin", "commit", "rollback"}
      /\ Leave(t, "error") /\ UNCHANGED <<txn, pending, disk>>
  BY DEF CancelOutside, MayCancel
<1>. QED
  BY <1>1, LeaveIInv DEF Inside, Final

\* ROLLBACK follows the cancelled statement of the body, if that is still to be
\* executed, or comes first.
LEMMA CancelBodyIInv ==
    ASSUME IInv, TypeOK', NEW t \in Tasks, CancelBody(t) PROVE IInv'
<1>. DEFINE p == ProcOf[t]
<1>0. /\ TypeOK /\ p \in Procs
      /\ pc[t] = "write"
      /\ Submit(t, "rollback", 0)
      /\ UNCHANGED <<holder, txn, pending, disk>>
      /\ 0 \in 0..NumWrites
  BY WTAssumption DEF IInv, CancelBody, MayCancel
<1>1. Inside(t) /\ Awaiting(t) /\ Effect(t)
  BY <1>0 DEF Inside, IInv, AwaitInv, EffectInv
<1>2. txn[p] \in {t, NoTask} /\ WritesOf(t) \cap disk = {}
  BY <1>0, <1>1 DEF Awaiting, Effect
<1>3. CASE reply[t] # "none"
  BY <1>0, <1>1, <1>2, <1>3, SubmitToEmptyQueue DEF Awaiting, Ops
<1>4. CASE reply[t] = "none"
  <2>1. /\ stmts[p] # <<>>
        /\ stmts[p][Len(stmts[p])] = [task |-> t, op |-> "write", n |-> step[t]]
    BY <1>0, <1>1, <1>4 DEF Awaiting
  <2>2. Len(stmts[p]) \in Nat \ {0}
    <3>1. stmts[p] \in Seq(Statements)
      BY <1>0 DEF TypeOK
    <3>. QED
      BY <2>1, <3>1
  <2>3. StatementInv(p, Len(stmts[p]))
    BY <1>0, <2>2, QueuedHere
  <2>4. Len(stmts[p]) = 1 /\ txn[p] = t /\ pending[p] = {t} \X (1..(step[t] - 1))
    BY <2>1, <2>3 DEF StatementInv
  <2>5. stmts[p][1] = [task |-> t, op |-> "write", n |-> step[t]]
    BY <2>1, <2>4
  <2>6. /\ Len(stmts'[p]) = 2
        /\ stmts'[p][1] = stmts[p][1]
        /\ stmts'[p][2] = [task |-> t, op |-> "rollback", n |-> 0]
        /\ \A q \in Procs \ {p} : stmts'[q] = stmts[q]
    <3>1. /\ Len(stmts'[p]) = Len(stmts[p]) + 1
          /\ \A i \in 1..Len(stmts[p]) : stmts'[p][i] = stmts[p][i]
          /\ stmts'[p][Len(stmts[p]) + 1] = [task |-> t, op |-> "rollback", n |-> 0]
          /\ \A q \in Procs \ {p} : stmts'[q] = stmts[q]
      BY <1>0, SubmitQueue DEF Ops
    <3>2. Len(stmts[p]) + 1 = 2 /\ 1 \in 1..Len(stmts[p])
      BY <2>4
    <3>. QED
      BY <3>1, <3>2
  <2>7. /\ pc' = [pc EXCEPT ![t] = "rollback"]
        /\ step' = [step EXCEPT ![t] = 0]
        /\ reply' = [reply EXCEPT ![t] = "none"]
        /\ pc'[t] = "rollback" /\ step'[t] = 0 /\ reply'[t] = "none"
    BY <1>0 DEF Submit, TypeOK
  <2>8. LockInv'
    BY <1>0, <2>7 DEF IInv, LockInv, Inside, TypeOK
  <2>9. StatementInv(p, 1)'
    BY <1>0, <1>1, <1>2, <2>4, <2>5, <2>6, <2>7, WTAssumption DEF StatementInv, WritesOf
  <2>10. StatementInv(p, 2)'
    BY <1>0, <1>1, <1>2, <2>5, <2>6, <2>7, WTAssumption DEF StatementInv, WritesOf
  <2>11. QueueInv'
    <3>1. 2 \in Nat /\ 2 = Len(stmts[p]) + 1
      BY <2>4
    <3>2. \A i \in 1..Len(stmts[p]) : StatementInv(p, i)'
      BY <2>4, <2>9
    <3>. QED
      BY <1>0, <2>10, <3>1, <3>2, SubmitQueueInv DEF Ops
  <2>12. Awaiting(t)'
    BY <2>6, <2>7 DEF Awaiting, Inside
  <2>13. Effect(t)'
    BY <1>0, <1>2, <2>7 DEF Effect, WritesOf
  <2>14. holder[p] = t
    BY <1>1 DEF IInv, LockInv
  <2>. QED
    BY <1>0, <2>6, <2>7, <2>8, <2>11, <2>12, <2>13, <2>14, TaskStepFrame DEF TypeOK
<1>. QED
  BY <1>3, <1>4

-----------------------------------------------------------------------------
(* The steps of the worker thread.                                         *)

LEMMA DisjointWrites ==
    ASSUME NEW t, NEW u, t # u
    PROVE  WritesOf(t) \cap WritesOf(u) = {}
BY DEF WritesOf

\* A queue of more than one statement has a first before its last.
LEMMA FirstBeforeLast == \A m \in Nat \ {0} : m = 1 \/ 1 \in 1..(m - 1)
OBVIOUS

\* The statement whose answer a task receives is the only one in the queue.
LEMMA AnsweredAlone ==
    ASSUME IInv, NEW p \in Procs, NEW op \in Ops, NEW how, Take(p, op, how),
           pc[stmts[p][1].task] = op
    PROVE  /\ stmts'[p] = <<>>
           /\ reply[stmts[p][1].task] = "none"
           /\ stmts[p][1].n = step[stmts[p][1].task]
<1>. DEFINE t == stmts[p][1].task
<1>0. TypeOK
  BY DEF IInv
<1>1. /\ Len(stmts[p]) \in Nat \ {0}
      /\ stmts[p][1].op = op
      /\ t \in Tasks
      /\ Len(stmts'[p]) = Len(stmts[p]) - 1
  BY <1>0, TakeQueue
<1>2. ProcOf[t] = p
  BY <1>1, QueuedHere
<1>3. Inside(t) /\ Awaiting(t)
  BY <1>1 DEF Inside, Ops, IInv, AwaitInv
<1>4. stmts[p] # <<>>
  BY DEF Take
<1>5. reply[t] = "none" /\ stmts[p][Len(stmts[p])] = [task |-> t, op |-> op, n |-> step[t]]
  BY <1>2, <1>3, <1>4 DEF Awaiting
<1>6. StatementInv(p, Len(stmts[p]))
  BY <1>1, QueuedHere
<1>7. Len(stmts[p]) = 1
  <2>1. CASE op \in {"write", "commit"}
    BY <1>5, <1>6, <2>1 DEF StatementInv
  <2>2. CASE op = "rollback"
    BY <1>1, <1>5, <1>6, <2>2 DEF StatementInv
  <2>3. CASE op = "begin"
    <3>1. \A j \in 1..(Len(stmts[p]) - 1) : stmts[p][j].task # t
      BY <1>5, <1>6, <2>3 DEF StatementInv
    <3>2. 1 \notin 1..(Len(stmts[p]) - 1)
      BY <3>1
    <3>. QED
      BY <1>1, <3>2, FirstBeforeLast, Zenon
  <2>. QED
    BY <2>1, <2>2, <2>3 DEF Ops
<1>8. stmts'[p] = <<>>
  <2>1. stmts[p] \in Seq(Statements)
    BY <1>0 DEF TypeOK
  <2>2. stmts'[p] = Tail(stmts[p])
    BY <1>0 DEF Take, TypeOK
  <2>3. Tail(stmts[p]) \in Seq(Statements) /\ Len(Tail(stmts[p])) = 0
    BY <1>4, <1>7, <2>1
  <2>4. \A s \in Seq(Statements) : Len(s) = 0 => s = <<>>
    OBVIOUS
  <2>. QED
    BY <2>2, <2>3, <2>4
<1>. QED
  BY <1>5, <1>7, <1>8

\* A step of the thread of p: what is known of the other tasks, of the other
\* connections and of the statements further back in the queue survives.
LEMMA ThreadStepFrame ==
    ASSUME IInv, NEW p \in Procs, NEW op \in Ops, NEW how \in {"ok", "fail"}, Take(p, op, how),
           NEW t \in Tasks, t = stmts[p][1].task,
           \A q \in Procs \ {p} : txn'[q] = txn[q] /\ pending'[q] = pending[q],
           txn'[p] \in {txn[p], NoTask} \/ op = "begin",
           disk' = disk \/ (op = "commit" /\ disk' = disk \cup WritesOf(t)),
           TypeOK', TxnInv', Awaiting(t)', Effect(t)'
    PROVE  IInv'
<1>0. TypeOK
  BY DEF IInv
<1>1. /\ Len(stmts[p]) \in Nat \ {0}
      /\ stmts[p][1].op = op
      /\ Len(stmts'[p]) = Len(stmts[p]) - 1
      /\ \A i \in 1..Len(stmts'[p]) :
            i + 1 \in 1..Len(stmts[p]) /\ stmts'[p][i] = stmts[p][i + 1]
      /\ \A q \in Procs \ {p} : stmts'[q] = stmts[q]
  BY <1>0, TakeQueue
<1>2. UNCHANGED <<pc, step, holder>>
  BY DEF Take
<1>3. \A u \in Tasks \ {t} : reply'[u] = reply[u]
  <2>1. Head(stmts[p]) = stmts[p][1]
    BY <1>0, TakeQueue
  <2>. QED
    BY <1>0, <2>1 DEF Take, Answer, TypeOK
<1>4. \A u : u # t => /\ WritesOf(u) \cap disk = {} => WritesOf(u) \cap disk' = {}
                      /\ WritesOf(u) \subseteq disk => WritesOf(u) \subseteq disk'
  BY DisjointWrites
<1>5. ProcOf[t] = p
  BY <1>1, QueuedHere
<1>6. LockInv'
  BY <1>2 DEF IInv, LockInv, Inside
<1>7. QueueInv'
  <2>. SUFFICES ASSUME NEW q \in Procs, NEW i \in 1..Len(stmts'[q])
                PROVE  StatementInv(q, i)'
    BY DEF QueueInv
  <2>1. CASE q # p
    <3>1. stmts'[q] = stmts[q] /\ txn'[q] = txn[q] /\ pending'[q] = pending[q]
      BY <1>1, <2>1
    <3>2. StatementInv(q, i) /\ ProcOf[stmts[q][i].task] = q
      BY <3>1, QueuedHere
    <3>3. WritesOf(stmts[q][i].task) \cap disk' = {}
      BY <1>4, <1>5, <2>1, <3>2 DEF StatementInv
    <3>. QED
      BY <1>2, <3>1, <3>2, <3>3 DEF StatementInv, WritesOf
  <2>2. CASE q = p
    <3>1. i + 1 \in 1..Len(stmts[p]) /\ stmts'[p][i] = stmts[p][i + 1] /\ i \in Nat \ {0}
      BY <1>1, <2>2
    <3>2. StatementInv(p, i + 1)
      BY <3>1, QueuedHere
    <3>3. stmts[p][i + 1].op \in {"begin", "rollback"}
      BY <1>0, <3>1, <3>2, QueueType DEF StatementInv, Ops
    <3>4. WritesOf(stmts[p][i + 1].task) \cap disk' = {}
      <4>1. CASE disk' = disk
        BY <3>2, <4>1 DEF StatementInv
      <4>2. CASE op = "commit"
        <5>1. stmts[p][i + 1].op = "begin"
          BY <1>1, <3>1, <3>2, <3>3, <4>2 DEF StatementInv
        <5>2. 1 \in 1..((i + 1) - 1)
          BY <3>1
        <5>3. stmts[p][i + 1].task # t
          BY <3>2, <5>1, <5>2 DEF StatementInv
        <5>. QED
          BY <1>4, <3>2, <5>3 DEF StatementInv
      <4>. QED
        BY <4>1, <4>2
    <3>5. CASE stmts[p][i + 1].op = "rollback"
      <4>1. i = 1 /\ op = "write"
        BY <1>1, <3>1, <3>2, <3>5 DEF StatementInv
      <4>2. txn'[p] \in {stmts[p][i + 1].task, NoTask}
        BY <3>2, <3>5, <4>1 DEF StatementInv
      <4>. QED
        BY <1>2, <2>2, <3>1, <3>2, <3>4, <3>5, <4>1, <4>2 DEF StatementInv, WritesOf
    <3>6. CASE stmts[p][i + 1].op = "begin"
      <4>1. \A j \in 1..(i - 1) : stmts'[p][j].task # stmts[p][i + 1].task
        <5>. SUFFICES ASSUME NEW j \in 1..(i - 1)
                      PROVE  stmts'[p][j].task # stmts[p][i + 1].task
          OBVIOUS
        <5>1. j \in 1..Len(stmts'[p]) /\ j + 1 \in 1..((i + 1) - 1)
          BY <1>1, <3>1
        <5>2. stmts'[p][j] = stmts[p][j + 1]
          BY <1>1, <5>1
        <5>. QED
          BY <3>2, <3>6, <5>1, <5>2 DEF StatementInv
      <4>. QED
        BY <1>2, <2>2, <3>1, <3>2, <3>4, <3>6, <4>1 DEF StatementInv, WritesOf
    <3>. QED
      BY <3>3, <3>5, <3>6
  <2>. QED
    BY <2>1, <2>2
<1>8. ASSUME NEW u \in Tasks \ {t} PROVE Awaiting(u)'
  <2>0. ProcOf[u] \in Procs /\ Awaiting(u)
    BY WTAssumption DEF IInv, AwaitInv
  <2>1. CASE ProcOf[u] # p
    BY <1>1, <1>2, <1>3, <2>0, <2>1 DEF Awaiting, Inside
  <2>2. CASE ProcOf[u] = p /\ ~Inside(u)
    BY <1>2, <2>2 DEF Awaiting, Inside
  <2>3. CASE ProcOf[u] = p /\ Inside(u)
    <3>1. reply[u] = "none" /\ reply'[u] = "none"
      <4>1. stmts[p] # <<>>
        BY DEF Take
      <4>. QED
        BY <1>3, <2>0, <2>3, <4>1 DEF Awaiting
    <3>2. stmts[p][Len(stmts[p])] = [task |-> u, op |-> pc[u], n |-> step[u]]
      BY <2>0, <2>3, <3>1 DEF Awaiting
    <3>3. Len(stmts[p]) # 1
      BY <3>2
    <3>4. Len(stmts'[p]) \in 1..Len(stmts'[p]) /\ Len(stmts'[p]) + 1 = Len(stmts[p])
      <4>1. PICK m \in Nat : m = Len(stmts'[p])
        BY <1>1
      <4>2. m + 1 = Len(stmts[p]) /\ m # 0
        BY <1>1, <3>3, <4>1
      <4>. QED
        BY <4>1, <4>2
    <3>5. stmts'[p][Len(stmts'[p])] = [task |-> u, op |-> pc[u], n |-> step[u]]
      BY <1>1, <3>2, <3>4
    <3>6. stmts'[p] # <<>>
      BY <3>4
    <3>7. pc[u] # "write"
      <4>1. StatementInv(p, Len(stmts[p]))
        BY <1>1, QueuedHere
      <4>. QED
        BY <3>2, <3>3, <4>1 DEF StatementInv
    <3>. QED
      BY <1>2, <2>0, <2>3, <3>1, <3>5, <3>6, <3>7 DEF Awaiting, Inside
  <2>. QED
    BY <2>1, <2>2, <2>3
<1>9. ASSUME NEW u \in Tasks \ {t} PROVE Effect(u)'
  <2>1. Effect(u) /\ u # t
    BY DEF IInv, EffectInv
  <2>2. WritesOf(u)' = WritesOf(u)
    BY DEF WritesOf
  <2>. QED
    BY <1>2, <1>3, <1>4, <2>1, <2>2 DEF Effect
<1>. QED
  BY <1>6, <1>7, <1>8, <1>9 DEF IInv, AwaitInv, EffectInv

\* What a step of the thread knows of the statement it executes.
LEMMA TakenStatement ==
    ASSUME IInv, NEW p \in Procs, NEW op \in Ops, NEW how, Take(p, op, how)
    PROVE  LET t == stmts[p][1].task IN
           /\ t \in Tasks /\ ProcOf[t] = p
           /\ t = Head(stmts[p]).task /\ stmts[p][1].n = Head(stmts[p]).n
           /\ stmts[p][1].op = op /\ stmts[p] # <<>>
           /\ StatementInv(p, 1) /\ Awaiting(t) /\ Effect(t)
           /\ pc[t] = op => /\ stmts'[p] = <<>>
                            /\ reply'[t] = how
                            /\ stmts[p][1].n = step[t]
           /\ pc[t] # op => reply'[t] = reply[t]
<1>. DEFINE t == stmts[p][1].task
<1>0. TypeOK
  BY DEF IInv
<1>1. /\ Len(stmts[p]) \in Nat \ {0}
      /\ stmts[p][1] = Head(stmts[p])
      /\ stmts[p][1].op = op
      /\ t \in Tasks
  BY <1>0, TakeQueue
<1>2. StatementInv(p, 1) /\ ProcOf[t] = p
  BY <1>1, QueuedHere
<1>3. Awaiting(t) /\ Effect(t)
  BY <1>1 DEF IInv, AwaitInv, EffectInv
<1>4. reply' = IF pc[t] = op THEN [reply EXCEPT ![t] = how] ELSE reply
  BY <1>1 DEF Take, Answer
<1>5. pc[t] = op => reply'[t] = how
  BY <1>0, <1>1, <1>4 DEF TypeOK
<1>6. pc[t] # op => reply'[t] = reply[t]
  BY <1>4
<1>7. stmts[p] # <<>>
  BY DEF Take
<1>. QED
  BY <1>1, <1>2, <1>3, <1>5, <1>6, <1>7, AnsweredAlone

\* A cancelled statement is executed: its task awaits another one, further back
\* in the queue, or has left.
LEMMA UnansweredAwaiting ==
    ASSUME IInv, NEW p \in Procs, NEW op \in Ops, NEW how, Take(p, op, how),
           NEW t \in Tasks, t = stmts[p][1].task, pc[t] # op
    PROVE  Awaiting(t)'
<1>0. TypeOK /\ UNCHANGED <<pc, step>>
  BY DEF IInv, Take
<1>1. /\ ProcOf[t] = p /\ stmts[p][1].op = op /\ stmts[p] # <<>>
      /\ StatementInv(p, 1) /\ Awaiting(t) /\ reply'[t] = reply[t]
  BY TakenStatement
<1>2. CASE ~Inside(t)
  BY <1>0, <1>2 DEF Awaiting, Inside
<1>3. CASE Inside(t)
  <2>1. reply[t] = "none" /\ stmts[p][Len(stmts[p])] = [task |-> t, op |-> pc[t], n |-> step[t]]
    BY <1>1, <1>3 DEF Awaiting
  <2>2. Len(stmts[p]) # 1
    BY <1>1, <2>1
  <2>3. /\ Len(stmts[p]) \in Nat \ {0}
        /\ Len(stmts'[p]) = Len(stmts[p]) - 1
        /\ \A i \in 1..Len(stmts'[p]) : stmts'[p][i] = stmts[p][i + 1]
    BY <1>0, TakeQueue
  <2>4. StatementInv(p, Len(stmts[p]))
    BY <2>3, QueuedHere
  <2>5. pc[t] = "rollback"
    <3>1. pc[t] \notin {"write", "commit"}
      BY <2>1, <2>2, <2>4 DEF StatementInv
    <3>2. pc[t] # "begin"
      <4>1. 1 \in 1..(Len(stmts[p]) - 1)
        BY <2>2, <2>3, FirstBeforeLast, Zenon
      <4>2. pc[t] = "begin" => \A j \in 1..(Len(stmts[p]) - 1) : stmts[p][j].task # t
        BY <2>1, <2>4 DEF StatementInv
      <4>. QED
        BY <4>1, <4>2
    <3>. QED
      BY <1>3, <3>1, <3>2 DEF Inside
  <2>6. stmts'[p] # <<>> /\ stmts'[p][Len(stmts'[p])] = stmts[p][Len(stmts[p])]
    <3>1. ASSUME NEW m \in Nat \ {0}, m # 1
          PROVE  m - 1 \in 1..(m - 1) /\ (m - 1) + 1 = m /\ m - 1 # 0
      BY <3>1
    <3>2. /\ Len(stmts[p]) - 1 \in 1..(Len(stmts[p]) - 1)
          /\ (Len(stmts[p]) - 1) + 1 = Len(stmts[p])
          /\ Len(stmts[p]) - 1 # 0
      BY <2>2, <2>3, <3>1, Zenon
    <3>3. stmts'[p][Len(stmts'[p])] = stmts[p][Len(stmts[p])]
      BY <2>3, <3>2, Zenon
    <3>4. Len(<<>>) = 0
      OBVIOUS
    <3>5. stmts'[p] # <<>>
      BY <2>3, <3>2, <3>4, Zenon
    <3>. QED
      BY <3>3, <3>5
  <2>. QED
    BY <1>0, <1>1, <2>1, <2>5, <2>6 DEF Awaiting, Inside
<1>. QED
  BY <1>2, <1>3

\* A statement that has no effect on the disk, and is refused or rolls back.
LEMMA WithoutEffectIInv ==
    ASSUME IInv, TypeOK', NEW p \in Procs, NEW op \in Ops, NEW how \in {"ok", "fail"},
           Take(p, op, how), how = "fail" \/ op = "rollback", disk' = disk,
           UNCHANGED <<txn, pending>> \/ CloseTransaction(p)
    PROVE  IInv'
<1>0. TypeOK /\ UNCHANGED <<pc, step>>
  BY DEF IInv, Take
<1>1. PICK t \in Tasks : t = stmts[p][1].task
  BY TakenStatement
<1>2. /\ ProcOf[t] = p /\ stmts[p][1].op = op
      /\ StatementInv(p, 1) /\ Awaiting(t) /\ Effect(t)
      /\ pc[t] = op => /\ stmts'[p] = <<>>
                       /\ reply'[t] = how
                       /\ stmts[p][1].n = step[t]
      /\ pc[t] # op => reply'[t] = reply[t]
  BY <1>1, TakenStatement
<1>3. /\ \A q \in Procs \ {p} : txn'[q] = txn[q] /\ pending'[q] = pending[q]
      /\ \/ txn'[p] = txn[p] /\ pending'[p] = pending[p]
         \/ txn'[p] = NoTask /\ pending'[p] = {}
  BY <1>0 DEF CloseTransaction, TypeOK
<1>4. TxnInv'
  BY <1>3 DEF IInv, TxnInv, WritesOf
<1>5. Awaiting(t)'
  <2>1. CASE pc[t] # op
    BY <1>1, <2>1, UnansweredAwaiting
  <2>2. CASE pc[t] = op
    <3>1. op = "write" => txn'[p] \in {t, NoTask}
      BY <1>1, <1>2, <1>3 DEF StatementInv
    <3>2. op \in {"begin", "write"} => reply'[t] = "fail"
      BY <1>2, <2>2
    <3>. QED
      BY <1>0, <1>2, <2>2, <3>1, <3>2 DEF Awaiting, Inside
  <2>. QED
    BY <2>1, <2>2
<1>6. Effect(t)'
  <2>1. pc[t] = "commit" /\ reply'[t] = "ok" => reply[t] = "ok"
    BY <1>2
  <2>. QED
    BY <1>0, <1>2, <2>1 DEF Effect, WritesOf
<1>. QED
  BY <1>1, <1>3, <1>4, <1>5, <1>6, ThreadStepFrame

\* A connection in autocommit mode has nothing pending.
LEMMA NothingPending ==
    ASSUME IInv, NEW p \in Procs, txn[p] = NoTask
    PROVE  pending[p] = {}
<1>1. pending[p] \subseteq WritesOf(NoTask) /\ pending[p] \subseteq Write
  BY DEF IInv, TxnInv, TypeOK
<1>2. WritesOf(NoTask) \cap Write = {}
  BY WTAssumption DEF WritesOf, Write
<1>. QED
  BY <1>1, <1>2

LEMMA ExecuteBeginIInv ==
    ASSUME IInv, TypeOK', NEW p \in Procs, ExecuteBegin(p) PROVE IInv'
<1>0. /\ TypeOK /\ Take(p, "begin", "ok") /\ UNCHANGED <<pc, step, pending, disk>>
      /\ txn[p] = NoTask
      /\ txn' = [txn EXCEPT ![p] = Head(stmts[p]).task]
  BY DEF IInv, Take, ExecuteBegin
<1>1. PICK t \in Tasks : t = stmts[p][1].task
  BY <1>0, TakenStatement DEF Ops
<1>2. /\ ProcOf[t] = p /\ stmts[p][1].op = "begin" /\ t = Head(stmts[p]).task
      /\ StatementInv(p, 1) /\ Awaiting(t) /\ Effect(t)
      /\ pc[t] = "begin" => stmts'[p] = <<>> /\ reply'[t] = "ok"
      /\ pc[t] # "begin" => reply'[t] = reply[t]
  BY <1>0, <1>1, TakenStatement DEF Ops
<1>3. txn'[p] = t /\ \A q \in Procs \ {p} : txn'[q] = txn[q] /\ pending'[q] = pending[q]
  BY <1>0, <1>2 DEF TypeOK
<1>4. pending[p] = {}
  BY <1>0, NothingPending
<1>5. TxnInv'
  <2>. SUFFICES ASSUME NEW q \in Procs
                PROVE  /\ pending'[q] \subseteq WritesOf(txn'[q])
                       /\ txn'[q] # NoTask =>
                             ProcOf[txn'[q]] = q /\ WritesOf(txn'[q]) \cap disk = {}
    BY <1>0 DEF TxnInv, WritesOf
  <2>1. CASE q = p
    BY <1>0, <1>1, <1>2, <1>3, <1>4, <2>1 DEF StatementInv
  <2>2. CASE q # p
    BY <1>3, <2>2 DEF IInv, TxnInv
  <2>. QED
    BY <2>1, <2>2
<1>6. Awaiting(t)'
  <2>1. CASE pc[t] # "begin"
    BY <1>0, <1>1, <2>1, UnansweredAwaiting DEF Ops
  <2>2. CASE pc[t] = "begin"
    <3>1. step[t] = 0
      BY <1>2, <2>2 DEF Awaiting
    <3>2. {t} \X (1..0) = {}
      OBVIOUS
    <3>. QED
      BY <1>0, <1>2, <1>3, <1>4, <2>2, <3>1, <3>2 DEF Awaiting, Inside
  <2>. QED
    BY <2>1, <2>2
<1>7. Effect(t)'
  BY <1>0, <1>2 DEF Effect, WritesOf
<1>. QED
  BY <1>0, <1>1, <1>3, <1>5, <1>6, <1>7, ThreadStepFrame DEF Ops

LEMMA ExecuteWriteIInv ==
    ASSUME IInv, TypeOK', NEW p \in Procs, ExecuteWrite(p) PROVE IInv'
<1>0. TypeOK /\ Take(p, "write", "ok") /\ UNCHANGED <<pc, step, txn>>
  BY DEF IInv, Take, ExecuteWrite
<1>1. PICK t \in Tasks : t = stmts[p][1].task
  BY <1>0, TakenStatement DEF Ops
<1>2. /\ ProcOf[t] = p /\ stmts[p][1].op = "write"
      /\ t = Head(stmts[p]).task /\ stmts[p][1].n = Head(stmts[p]).n
      /\ StatementInv(p, 1) /\ Awaiting(t) /\ Effect(t) /\ stmts[p] # <<>>
      /\ pc[t] = "write" => /\ stmts'[p] = <<>>
                            /\ reply'[t] = "ok"
                            /\ stmts[p][1].n = step[t]
      /\ pc[t] # "write" => reply'[t] = reply[t]
  BY <1>0, <1>1, TakenStatement DEF Ops
<1>3. PICK n \in 1..NumWrites : n = stmts[p][1].n
  <2>1. stmts[p][1] \in Statements
    BY <1>0, <1>2 DEF TypeOK
  <2>. QED
    BY <1>2, <2>1, WTAssumption DEF Statements
<1>4. txn[p] = t /\ pending[p] = {t} \X (1..(n - 1)) /\ WritesOf(t) \cap disk = {}
  BY <1>1, <1>2, <1>3 DEF StatementInv
<1>5. t # NoTask
  BY WTAssumption
<1>6. disk' = disk /\ pending' = [pending EXCEPT ![p] = @ \cup {<<t, n>>}]
  BY <1>2, <1>3, <1>4, <1>5 DEF ExecuteWrite
<1>7. pending'[p] = {t} \X (1..n)
  <2>1. {t} \X (1..n) = ({t} \X (1..(n - 1))) \cup {<<t, n>>}
    BY <1>3, WTAssumption
  <2>. QED
    BY <1>0, <1>4, <1>6, <2>1 DEF TypeOK
<1>8. \A q \in Procs \ {p} : txn'[q] = txn[q] /\ pending'[q] = pending[q]
  BY <1>0, <1>6 DEF TypeOK
<1>9. TxnInv'
  <2>. SUFFICES ASSUME NEW q \in Procs
                PROVE  /\ pending'[q] \subseteq WritesOf(txn[q])
                       /\ txn[q] # NoTask =>
                             ProcOf[txn[q]] = q /\ WritesOf(txn[q]) \cap disk = {}
    BY <1>0, <1>6 DEF TxnInv, WritesOf
  <2>1. CASE q = p
    <3>1. {t} \X (1..n) \subseteq WritesOf(t)
      BY <1>3, WTAssumption DEF WritesOf
    <3>. QED
      BY <1>2, <1>4, <1>7, <2>1, <3>1
  <2>2. CASE q # p
    BY <1>8, <2>2 DEF IInv, TxnInv
  <2>. QED
    BY <2>1, <2>2
<1>10. Awaiting(t)'
  <2>1. CASE pc[t] # "write"
    BY <1>0, <1>1, <2>1, UnansweredAwaiting DEF Ops
  <2>2. CASE pc[t] = "write"
    <3>1. step[t] # 0 /\ step[t] = n
      BY <1>2, <1>3, <2>2 DEF Awaiting
    <3>. QED
      BY <1>0, <1>2, <1>4, <1>7, <2>2, <3>1 DEF Awaiting, Inside
  <2>. QED
    BY <2>1, <2>2
<1>11. Effect(t)'
  BY <1>0, <1>2, <1>6 DEF Effect, WritesOf
<1>. QED
  BY <1>0, <1>1, <1>6, <1>8, <1>9, <1>10, <1>11, ThreadStepFrame DEF Ops

LEMMA ExecuteCommitIInv ==
    ASSUME IInv, TypeOK', NEW p \in Procs, ExecuteCommit(p) PROVE IInv'
<1>0. /\ TypeOK /\ Take(p, "commit", "ok") /\ UNCHANGED <<pc, step>>
      /\ disk' = disk \cup pending[p] /\ CloseTransaction(p)
  BY DEF IInv, Take, ExecuteCommit
<1>1. PICK t \in Tasks : t = stmts[p][1].task
  BY <1>0, TakenStatement DEF Ops
<1>2. /\ ProcOf[t] = p /\ stmts[p][1].op = "commit"
      /\ StatementInv(p, 1) /\ Awaiting(t) /\ Effect(t)
      /\ pc[t] = "commit" => stmts'[p] = <<>> /\ reply'[t] = "ok"
      /\ pc[t] # "commit" => reply'[t] = reply[t]
  BY <1>0, <1>1, TakenStatement DEF Ops
<1>3. txn[p] = t /\ pending[p] = WritesOf(t) /\ pc[t] \in {"commit", "error"}
  BY <1>1, <1>2 DEF StatementInv
<1>4. /\ txn'[p] = NoTask /\ pending'[p] = {}
      /\ \A q \in Procs \ {p} : txn'[q] = txn[q] /\ pending'[q] = pending[q]
  BY <1>0 DEF CloseTransaction, TypeOK
<1>5. TxnInv'
  <2>. SUFFICES ASSUME NEW q \in Procs
                PROVE  /\ pending'[q] \subseteq WritesOf(txn'[q])
                       /\ txn'[q] # NoTask =>
                             ProcOf[txn'[q]] = q /\ WritesOf(txn'[q]) \cap disk' = {}
    BY DEF TxnInv, WritesOf
  <2>1. CASE q = p
    BY <1>4, <2>1
  <2>2. CASE q # p
    <3>1. /\ pending[q] \subseteq WritesOf(txn[q])
          /\ txn[q] # NoTask => ProcOf[txn[q]] = q /\ WritesOf(txn[q]) \cap disk = {}
      BY DEF IInv, TxnInv
    <3>2. txn[q] # NoTask => WritesOf(txn[q]) \cap WritesOf(t) = {}
      BY <1>2, <2>2, <3>1, DisjointWrites
    <3>. QED
      BY <1>0, <1>3, <1>4, <2>2, <3>1, <3>2
  <2>. QED
    BY <2>1, <2>2
<1>6. Awaiting(t)'
  <2>1. CASE pc[t] # "commit"
    BY <1>0, <1>1, <2>1, UnansweredAwaiting DEF Ops
  <2>2. CASE pc[t] = "commit"
    BY <1>0, <1>2, <2>2 DEF Awaiting, Inside
  <2>. QED
    BY <2>1, <2>2
<1>7. Effect(t)'
  <2>1. WritesOf(t) \subseteq disk'
    BY <1>0, <1>3
  <2>. QED
    BY <1>0, <1>3, <2>1 DEF Effect, WritesOf
<1>. QED
  BY <1>0, <1>1, <1>3, <1>4, <1>5, <1>6, <1>7, ThreadStepFrame DEF Ops

\* A crash clears the process and leaves everybody else where he is.
LEMMA CrashIInv ==
    ASSUME IInv, TypeOK', NEW p \in Procs, Crash(p) PROVE IInv'
<1>0. TypeOK /\ UNCHANGED <<step, disk>>
  BY DEF IInv, Crash
<1>1. /\ holder'[p] = NoTask /\ stmts'[p] = <<>> /\ txn'[p] = NoTask /\ pending'[p] = {}
      /\ \A q \in Procs \ {p} : /\ holder'[q] = holder[q] /\ stmts'[q] = stmts[q]
                                /\ txn'[q] = txn[q] /\ pending'[q] = pending[q]
  BY <1>0 DEF Crash, CloseTransaction, TypeOK
<1>2. \A t \in Tasks :
        IF ProcOf[t] = p /\ pc[t] \notin {"ok", "error", "idle"}
        THEN pc'[t] = "error" /\ reply'[t] = "none"
        ELSE pc'[t] = pc[t] /\ reply'[t] = reply[t]
  BY DEF Crash, Final
<1>3. \A t \in Tasks : ProcOf[t] \in Procs /\ t # NoTask
  BY WTAssumption
<1>4. LockInv'
  <2>. SUFFICES ASSUME NEW t \in Tasks
                PROVE  pc'[t] \in {"begin", "write", "commit", "rollback"}
                          <=> holder'[ProcOf[t]] = t
    BY DEF LockInv, Inside
  <2>1. pc[t] \in {"begin", "write", "commit", "rollback"} <=> holder[ProcOf[t]] = t
    BY DEF IInv, LockInv, Inside
  <2>. QED
    BY <1>1, <1>2, <1>3, <2>1
<1>5. QueueInv'
  <2>. SUFFICES ASSUME NEW q \in Procs, NEW i \in 1..Len(stmts'[q])
                PROVE  StatementInv(q, i)'
    BY DEF QueueInv
  <2>1. q # p
    <3>1. Len(<<>>) = 0 /\ 1..0 = {}
      OBVIOUS
    <3>. QED
      BY <1>1, <3>1
  <2>2. stmts'[q] = stmts[q] /\ txn'[q] = txn[q] /\ pending'[q] = pending[q]
    BY <1>1, <2>1
  <2>3. StatementInv(q, i) /\ ProcOf[stmts[q][i].task] = q /\ stmts[q][i].task \in Tasks
    BY <1>0, <2>2, QueuedHere, QueueType
  <2>4. pc'[stmts[q][i].task] = pc[stmts[q][i].task]
    BY <1>2, <2>1, <2>3
  <2>. QED
    BY <1>0, <2>2, <2>3, <2>4 DEF StatementInv, WritesOf
<1>6. AwaitInv'
  <2>. SUFFICES ASSUME NEW t \in Tasks PROVE Awaiting(t)'
    BY DEF AwaitInv
  <2>1. CASE ProcOf[t] = p
    BY <1>2, <2>1 DEF Awaiting, Inside
  <2>2. CASE ProcOf[t] # p
    <3>1. Awaiting(t)
      BY DEF IInv, AwaitInv
    <3>. QED
      BY <1>0, <1>1, <1>2, <1>3, <2>2, <3>1 DEF Awaiting, Inside
  <2>. QED
    BY <2>1, <2>2
<1>7. TxnInv'
  BY <1>0, <1>1 DEF IInv, TxnInv, WritesOf
<1>8. EffectInv'
  BY <1>0, <1>2 DEF IInv, EffectInv, Effect, WritesOf
<1>. QED
  BY <1>4, <1>5, <1>6, <1>7, <1>8 DEF IInv

LEMMA UnchangedIInv == ASSUME IInv, UNCHANGED vars PROVE IInv'
<1>1. TypeOK' /\ LockInv'
  BY DEF IInv, vars, TypeOK, LockInv, Inside
<1>2. QueueInv'
  BY DEF IInv, vars, QueueInv, StatementInv, WritesOf
<1>3. AwaitInv'
  BY DEF IInv, vars, AwaitInv, Awaiting, Inside
<1>4. TxnInv' /\ EffectInv'
  BY DEF IInv, vars, TxnInv, EffectInv, Effect, WritesOf
<1>. QED
  BY <1>1, <1>2, <1>3, <1>4 DEF IInv

LEMMA NextIInv == IInv /\ [Next]_vars => IInv'
<1>. SUFFICES ASSUME IInv, [Next]_vars PROVE IInv'
  OBVIOUS
<1>0. TypeOK'
  BY NextTypeOK DEF IInv
<1>1. ASSUME NEW t \in Tasks, Enter(t) PROVE IInv'
  BY <1>0, <1>1, EnterIInv
<1>2. ASSUME NEW t \in Tasks, TaskStep(t) PROVE IInv'
  BY <1>0, <1>2, AcquireLockIInv, NextWriteIInv, BodyEndsIInv, AnsweredIInv DEF TaskStep
<1>3. ASSUME NEW t \in Tasks, Cancel(t) PROVE IInv'
  BY <1>0, <1>3, CancelWaitingIInv, CancelBodyIInv, CancelOutsideIInv DEF Cancel
<1>4. ASSUME NEW p \in Procs, ThreadStep(p) PROVE IInv'
  <2>1. CASE ExecuteBegin(p)
    BY <1>0, <2>1, ExecuteBeginIInv
  <2>2. CASE RefuseNestedBegin(p) \/ BusyTimeout(p)
    BY <1>0, <2>2, WithoutEffectIInv DEF RefuseNestedBegin, BusyTimeout, Ops
  <2>3. CASE ExecuteWrite(p)
    BY <1>0, <2>3, ExecuteWriteIInv
  <2>4. CASE RefuseWrite(p) \/ RefuseCommit(p)
    BY <1>0, <2>4, WithoutEffectIInv DEF RefuseWrite, RefuseCommit, Ops
  <2>5. CASE ExecuteCommit(p)
    BY <1>0, <2>5, ExecuteCommitIInv
  <2>6. CASE ExecuteRollback(p)
    BY <1>0, <2>6, WithoutEffectIInv DEF ExecuteRollback, Ops
  <2>. QED
    BY <1>4, <2>1, <2>2, <2>3, <2>4, <2>5, <2>6 DEF ThreadStep
<1>5. ASSUME NEW p \in Procs, Crash(p) PROVE IInv'
  BY <1>0, <1>5, CrashIInv
<1>6. CASE UNCHANGED vars
  BY <1>6, UnchangedIInv
<1>. QED
  BY <1>1, <1>2, <1>3, <1>4, <1>5, <1>6 DEF Next, Quiescent

\* The inductive invariant holds in every behaviour.
THEOREM Inductive == Spec => []IInv
BY InitIInv, NextIInv, PTL DEF Spec

\* The disk never holds a part of a transaction, whatever is cancelled, refused
\* or crashes.
THEOREM AllOrNothingAlways == Spec => []AllOrNothing
<1>1. IInv => AllOrNothing
  BY DEF IInv, EffectInv, Effect, AllOrNothing
<1>. QED
  BY <1>1, Inductive, PTL

\* Nothing is ever pending on a connection but writes of the task whose BEGIN
\* opened the transaction.
THEOREM TransactionsNeverMix == Spec => []TransactionsDoNotMix
<1>1. IInv => TransactionsDoNotMix
  BY DEF IInv, TxnInv, TransactionsDoNotMix
<1>. QED
  BY <1>1, Inductive, PTL

\* A task that returned normally finds its writes on disk; one that has not yet
\* submitted COMMIT, or rolls back, has left nothing there.
THEOREM AnswersAlwaysTrue == Spec => []AnswersAreTrue
<1>1. IInv => AnswersAreTrue
  BY DEF IInv, EffectInv, Effect, AnswersAreTrue
<1>. QED
  BY <1>1, Inductive, PTL
-----------------------------------------------------------------------------
(* The atomic store. Every step but two only gives up transactions: the    *)
(* COMMIT the worker thread executes applies one, and the task that is     *)
(* told so succeeds.                                                       *)

\* The refinement mapping.
Committing == {t \in Tasks : CommitQueued(t)}
Outcome == [t \in Tasks |-> IF pc[t] \in Final /\ ~CommitQueued(t) THEN pc[t] ELSE "open"]
Stored == {t \in Tasks : WritesOf(t) \subseteq disk}

LEMMA CommitQueuedType ==
    ASSUME TypeOK, NEW t \in Tasks
    PROVE  CommitQueued(t) <=> \E i \in 1..Len(stmts[ProcOf[t]]) :
               stmts[ProcOf[t]][i].task = t /\ stmts[ProcOf[t]][i].op = "commit"
<1>1. stmts[ProcOf[t]] \in Seq(Statements)
  BY WTAssumption DEF TypeOK
<1>2. DOMAIN stmts[ProcOf[t]] = 1..Len(stmts[ProcOf[t]])
  BY <1>1
<1>. QED
  BY <1>2 DEF CommitQueued

\* The task of a COMMIT still to be executed waits for it or was cancelled, and
\* has nothing on disk yet.
LEMMA CommitQueuedFirst ==
    ASSUME IInv, NEW t \in Tasks, CommitQueued(t)
    PROVE  /\ pc[t] \in {"commit", "error"}
           /\ WritesOf(t) \cap disk = {}
           /\ stmts[ProcOf[t]][1].task = t /\ stmts[ProcOf[t]][1].op = "commit"
<1>1. TypeOK /\ ProcOf[t] \in Procs
  BY WTAssumption DEF IInv
<1>2. PICK i \in 1..Len(stmts[ProcOf[t]]) :
        stmts[ProcOf[t]][i].task = t /\ stmts[ProcOf[t]][i].op = "commit"
  BY <1>1, CommitQueuedType
<1>3. StatementInv(ProcOf[t], i)
  BY <1>1, QueuedHere
<1>. QED
  BY <1>2, <1>3 DEF StatementInv

\* A step that decides no transaction favourably is one of the store, or none.
LEMMA GivesUp ==
    ASSUME IInv, disk' = disk,
           \A t \in Tasks : /\ pc[t] \in Final => /\ pc'[t] = pc[t]
                                                  /\ t \in Committing' => t \in Committing
                            /\ pc[t] \notin Final => pc'[t] # "ok"
    PROVE  [Store!StoreNext]_(Store!storeVars)
<1>0. PICK G \in SUBSET Tasks : \A t \in Tasks : t \in G <=> Outcome[t] # Outcome'[t]
  <2>1. {t \in Tasks : Outcome[t] # Outcome'[t]} \in SUBSET Tasks
    OBVIOUS
  <2>. QED
    BY <2>1
<1>1. ASSUME NEW t \in Tasks
      PROVE  Outcome'[t] = Outcome[t] \/ (Outcome[t] = "open" /\ Outcome'[t] = "error")
  <2>1. pc[t] = "ok" => ~CommitQueued(t)
    BY CommitQueuedFirst
  <2>2. CommitQueued(t) <=> t \in Committing
    BY DEF Committing
  <2>3. (CommitQueued(t) <=> t \in Committing)'
    BY DEF Committing
  <2>4. Outcome[t] = IF pc[t] \in Final /\ t \notin Committing THEN pc[t] ELSE "open"
    BY <2>2 DEF Outcome
  <2>5. Outcome'[t] = IF pc'[t] \in Final /\ t \notin Committing' THEN pc'[t] ELSE "open"
    BY <2>3 DEF Outcome
  <2>6. /\ pc[t] \in Final => pc'[t] = pc[t] /\ (t \in Committing' => t \in Committing)
        /\ pc[t] \notin Final => pc'[t] # "ok"
    OBVIOUS
  <2>. QED
    BY <2>1, <2>2, <2>4, <2>5, <2>6, SMT DEF Final
<1>2. Stored' = Stored
  BY DEF Stored, WritesOf
<1>3. Outcome' = [t \in Tasks |-> IF t \in G THEN "error" ELSE Outcome[t]]
  <2>1. \A t \in Tasks : Outcome'[t] = IF t \in G THEN "error" ELSE Outcome[t]
    BY <1>0, <1>1
  <2>2. Outcome' = [t \in Tasks |-> Outcome'[t]]
    BY DEF Outcome
  <2>. QED
    BY <2>1, <2>2
<1>4. \A t \in G : Outcome[t] = "open"
  BY <1>0, <1>1
<1>5. Store!GiveUp(G)
  BY <1>2, <1>3, <1>4 DEF Store!GiveUp, Stored, Outcome
<1>. QED
  BY <1>5 DEF Store!StoreNext

\* A task that has not left adds nothing to what is queued for the others.
LEMMA TaskStepGivesUp ==
    ASSUME IInv, TypeOK', NEW t \in Tasks, pc[t] \notin Final, disk' = disk,
           pc'[t] # "ok", \A u \in Tasks \ {t} : pc'[u] = pc[u],
           stmts' = stmts \/ \E op \in Ops, n \in 0..NumWrites : Submit(t, op, n)
    PROVE  [Store!StoreNext]_(Store!storeVars)
<1>0. TypeOK
  BY DEF IInv
<1>1. ASSUME NEW u \in Tasks \ {t}, u \in Committing'
      PROVE  u \in Committing
  <2>1. ProcOf[u] \in Procs
    BY WTAssumption
  <2>2. CommitQueued(u)'
    BY <1>1 DEF Committing
  <2>3. PICK i \in 1..Len(stmts'[ProcOf[u]]) :
          stmts'[ProcOf[u]][i].task = u /\ stmts'[ProcOf[u]][i].op = "commit"
    <3>1. stmts'[ProcOf[u]] \in Seq(Statements)
      BY <2>1 DEF TypeOK
    <3>. QED
      BY <2>2, <3>1 DEF CommitQueued
  <2>4. CASE stmts' = stmts
    BY <1>0, <2>3, <2>4, CommitQueuedType DEF Committing
  <2>5. ASSUME NEW op \in Ops, NEW n \in 0..NumWrites, Submit(t, op, n)
        PROVE  CommitQueued(u)
    <3>. DEFINE m == Len(stmts[ProcOf[u]])
    <3>1. /\ m \in Nat
          /\ \/ stmts'[ProcOf[u]] = stmts[ProcOf[u]]
             \/ /\ Len(stmts'[ProcOf[u]]) = m + 1
                /\ \A j \in 1..m : stmts'[ProcOf[u]][j] = stmts[ProcOf[u]][j]
                /\ stmts'[ProcOf[u]][m + 1].task = t
      <4>1. m \in Nat
        BY <1>0, <2>1, QueueType
      <4>2. CASE ProcOf[u] = ProcOf[t]
        <5>1. /\ Len(stmts'[ProcOf[t]]) = Len(stmts[ProcOf[t]]) + 1
              /\ \A j \in 1..Len(stmts[ProcOf[t]]) : stmts'[ProcOf[t]][j] = stmts[ProcOf[t]][j]
              /\ stmts'[ProcOf[t]][Len(stmts[ProcOf[t]]) + 1]
                    = [task |-> t, op |-> op, n |-> n]
          BY <1>0, <2>5, SubmitQueue
        <5>. QED
          BY <4>1, <4>2, <5>1
      <4>3. CASE ProcOf[u] # ProcOf[t]
        <5>1. stmts'[ProcOf[u]] = stmts[ProcOf[u]]
          BY <1>0, <2>1, <2>5, <4>3, SubmitQueue
        <5>. QED
          BY <4>1, <5>1
      <4>. QED
        BY <4>2, <4>3
    <3>2. i \in 1..m /\ stmts'[ProcOf[u]][i] = stmts[ProcOf[u]][i]
      BY <2>3, <3>1
    <3>. QED
      BY <1>0, <2>3, <3>2, CommitQueuedType
  <2>. QED
    BY <2>4, <2>5 DEF Committing
<1>2. \A u \in Tasks :
        /\ pc[u] \in Final => pc'[u] = pc[u] /\ (u \in Committing' => u \in Committing)
        /\ pc[u] \notin Final => pc'[u] # "ok"
  <2>1. ASSUME NEW u \in Tasks, u # t
        PROVE  /\ pc'[u] = pc[u]
               /\ u \in Committing' => u \in Committing
    BY <1>1, <2>1
  <2>. QED
    BY <2>1 DEF Final
<1>. QED
  BY <1>2, GivesUp

\* Taking a statement adds nothing to what is queued.
LEMMA TakeCommitting ==
    ASSUME IInv, TypeOK', NEW p \in Procs, NEW op \in Ops, NEW how, Take(p, op, how)
    PROVE  Committing' \subseteq Committing
<1>0. TypeOK
  BY DEF IInv
<1>. SUFFICES ASSUME NEW u \in Tasks, u \in Committing'
              PROVE  u \in Committing
  BY DEF Committing
<1>1. ProcOf[u] \in Procs
  BY WTAssumption
<1>2. CommitQueued(u)'
  BY DEF Committing
<1>3. PICK i \in 1..Len(stmts'[ProcOf[u]]) :
        stmts'[ProcOf[u]][i].task = u /\ stmts'[ProcOf[u]][i].op = "commit"
  <2>1. stmts'[ProcOf[u]] \in Seq(Statements)
    BY <1>1 DEF TypeOK
  <2>. QED
    BY <1>2, <2>1 DEF CommitQueued
<1>4. PICK j \in 1..Len(stmts[ProcOf[u]]) : stmts'[ProcOf[u]][i] = stmts[ProcOf[u]][j]
  <2>1. /\ \A k \in 1..Len(stmts'[p]) :
              k + 1 \in 1..Len(stmts[p]) /\ stmts'[p][k] = stmts[p][k + 1]
        /\ \A q \in Procs \ {p} : stmts'[q] = stmts[q]
    BY <1>0, TakeQueue
  <2>2. CASE ProcOf[u] = p
    <3>1. i + 1 \in 1..Len(stmts[p]) /\ stmts'[p][i] = stmts[p][i + 1]
      BY <1>3, <2>1, <2>2
    <3>. QED
      BY <2>2, <3>1
  <2>3. CASE ProcOf[u] # p
    <3>1. stmts'[ProcOf[u]] = stmts[ProcOf[u]]
      BY <1>1, <2>1, <2>3
    <3>. QED
      BY <1>3, <3>1
  <2>. QED
    BY <2>2, <2>3
<1>5. CommitQueued(u)
  BY <1>0, <1>3, <1>4, CommitQueuedType
<1>. QED
  BY <1>5 DEF Committing

LEMMA ThreadStepGivesUp ==
    ASSUME IInv, TypeOK', NEW p \in Procs, NEW op \in Ops, NEW how, Take(p, op, how),
           disk' = disk
    PROVE  [Store!StoreNext]_(Store!storeVars)
<1>1. pc' = pc
  BY DEF Take
<1>2. Committing' \subseteq Committing
  BY TakeCommitting
<1>. QED
  BY <1>1, <1>2, GivesUp DEF Final

\* The task whose COMMIT was executed succeeds.
LEMMA CommitReturnedStore ==
    ASSUME IInv, TypeOK', NEW t \in Tasks, CommitReturned(t)
    PROVE  [Store!StoreNext]_(Store!storeVars)
<1>0. /\ TypeOK /\ pc[t] = "commit" /\ reply[t] # "none" /\ disk' = disk /\ stmts' = stmts
      /\ pc' = [pc EXCEPT ![t] = IF reply[t] = "ok" THEN "ok" ELSE "error"]
  BY DEF IInv, CommitReturned, Leave
<1>1. CASE reply[t] # "ok"
  BY <1>0, <1>1, TaskStepGivesUp DEF Final, TypeOK
<1>2. CASE reply[t] = "ok"
  <2>1. Effect(t) /\ Awaiting(t)
    BY DEF IInv, EffectInv, AwaitInv
  <2>2. WritesOf(t) \subseteq disk /\ stmts[ProcOf[t]] = <<>>
    BY <1>0, <1>2, <2>1 DEF Effect, Awaiting, Inside
  <2>3. ~CommitQueued(t)
    BY <2>2 DEF CommitQueued
  <2>4. Committing' = Committing
    BY <1>0 DEF Committing, CommitQueued
  <2>5. Outcome[t] = "open"
    BY <1>0 DEF Outcome, Final
  <2>6. Outcome' = [Outcome EXCEPT ![t] = "ok"]
    <3>1. \A u \in Tasks : pc'[u] = IF u = t THEN "ok" ELSE pc[u]
      BY <1>0, <1>2 DEF TypeOK
    <3>2. \A u \in Tasks : Outcome'[u] =
            IF pc'[u] \in Final /\ u \notin Committing THEN pc'[u] ELSE "open"
      BY <2>4 DEF Outcome, Committing
    <3>3. \A u \in Tasks : Outcome[u] =
            IF pc[u] \in Final /\ u \notin Committing THEN pc[u] ELSE "open"
      BY DEF Outcome, Committing
    <3>4. t \notin Committing
      BY <2>3 DEF Committing
    <3>5. \A u \in Tasks : Outcome'[u] = IF u = t THEN "ok" ELSE Outcome[u]
      BY <3>1, <3>2, <3>3, <3>4 DEF Final
    <3>6. Outcome' = [u \in Tasks |-> Outcome'[u]]
      BY DEF Outcome
    <3>7. Outcome = [u \in Tasks |-> Outcome[u]]
      BY DEF Outcome
    <3>. QED
      BY <3>5, <3>6, <3>7
  <2>7. Stored' = Stored /\ t \in Stored
    BY <1>0, <2>2 DEF Stored, WritesOf
  <2>8. Store!Succeed(t)
    BY <2>5, <2>6, <2>7 DEF Store!Succeed, Outcome, Stored
  <2>. QED
    BY <2>8 DEF Store!StoreNext
<1>. QED
  BY <1>1, <1>2

\* The worker thread executes the COMMIT of t: the transaction takes effect.
LEMMA ExecuteCommitStore ==
    ASSUME IInv, TypeOK', NEW p \in Procs, ExecuteCommit(p)
    PROVE  [Store!StoreNext]_(Store!storeVars)
<1>0. /\ TypeOK /\ Take(p, "commit", "ok") /\ pc' = pc
      /\ disk' = disk \cup pending[p]
  BY DEF IInv, Take, ExecuteCommit
<1>1. PICK t \in Tasks : t = stmts[p][1].task
  BY <1>0, TakenStatement DEF Ops
<1>2. ProcOf[t] = p /\ stmts[p][1].op = "commit" /\ StatementInv(p, 1)
  BY <1>0, <1>1, TakenStatement DEF Ops
<1>3. /\ pending[p] = WritesOf(t) /\ WritesOf(t) \cap disk = {}
      /\ pc[t] \in {"commit", "error"}
  BY <1>1, <1>2 DEF StatementInv
<1>4. /\ Len(stmts[p]) \in Nat \ {0}
      /\ \A i \in 1..Len(stmts'[p]) :
            i + 1 \in 1..Len(stmts[p]) /\ stmts'[p][i] = stmts[p][i + 1]
      /\ \A q \in Procs \ {p} : stmts'[q] = stmts[q]
  BY <1>0, TakeQueue
<1>5. t \in Committing
  <2>1. 1 \in 1..Len(stmts[p])
    BY <1>4
  <2>2. CommitQueued(t)
    BY <1>0, <1>1, <1>2, <2>1, CommitQueuedType
  <2>. QED
    BY <2>2 DEF Committing
<1>6. t \notin Committing'
  <2>. SUFFICES ASSUME CommitQueued(t)' PROVE FALSE
    BY DEF Committing
  <2>1. stmts'[p] \in Seq(Statements)
    BY DEF TypeOK
  <2>2. PICK i \in 1..Len(stmts'[p]) : stmts'[p][i].op = "commit"
    BY <1>2, <2>1 DEF CommitQueued
  <2>3. PICK k \in 1..Len(stmts[p]) : k # 1 /\ stmts[p][k].op = "commit"
    BY <1>4, <2>1, <2>2
  <2>4. StatementInv(p, k)
    BY QueuedHere
  <2>. QED
    BY <2>3, <2>4 DEF StatementInv
<1>7. ASSUME NEW u \in Tasks, u # t
      PROVE  u \in Committing' <=> u \in Committing
  <2>1. ASSUME u \in Committing PROVE u \in Committing'
    <3>1. ProcOf[u] # p
      BY <1>1, <1>7, <2>1, CommitQueuedFirst DEF Committing
    <3>2. stmts'[ProcOf[u]] = stmts[ProcOf[u]]
      BY <1>4, <3>1, WTAssumption
    <3>3. CommitQueued(u)'
      BY <2>1, <3>2 DEF Committing, CommitQueued
    <3>. QED
      BY <3>3 DEF Committing
  <2>. QED
    BY <1>0, <2>1, TakeCommitting DEF Ops
<1>8. Stored' = Stored \cup {t} /\ t \notin Stored
  <2>1. WritesOf(t) # {}
    <3>1. <<t, 1>> \in WritesOf(t)
      BY WTAssumption DEF WritesOf
    <3>. QED
      BY <3>1
  <2>2. \A u \in Tasks : u # t => (WritesOf(u) \subseteq disk' <=> WritesOf(u) \subseteq disk)
    BY <1>0, <1>3, DisjointWrites
  <2>3. Stored' = {u \in Tasks : WritesOf(u) \subseteq disk'}
    BY DEF Stored, WritesOf
  <2>. QED
    BY <1>0, <1>3, <2>1, <2>2, <2>3 DEF Stored
<1>9. /\ \A u \in Tasks : Outcome[u] =
            IF pc[u] \in Final /\ u \notin Committing THEN pc[u] ELSE "open"
      /\ \A u \in Tasks : Outcome'[u] =
            IF pc[u] \in Final /\ u \notin Committing' THEN pc[u] ELSE "open"
      /\ Outcome = [u \in Tasks |-> Outcome[u]]
      /\ Outcome' = [u \in Tasks |-> Outcome'[u]]
  BY <1>0 DEF Outcome, Committing
<1>10. Outcome[t] = "open"
  BY <1>5, <1>9
<1>11. \A u \in Tasks : u # t => Outcome'[u] = Outcome[u]
  BY <1>7, <1>9
<1>12. CASE pc[t] = "commit"
  <2>1. Outcome'[t] = "open"
    BY <1>9, <1>12 DEF Final
  <2>2. Outcome' = Outcome
    BY <1>9, <1>10, <1>11, <2>1
  <2>3. Store!Apply(t)
    BY <1>8, <1>10, <2>2 DEF Store!Apply, Outcome, Stored
  <2>. QED
    BY <2>3 DEF Store!StoreNext
<1>13. CASE pc[t] = "error"
  <2>1. Outcome'[t] = "error"
    BY <1>6, <1>9, <1>13 DEF Final
  <2>2. Outcome' = [Outcome EXCEPT ![t] = "error"]
    BY <1>9, <1>11, <2>1
  <2>3. Store!ApplyUnseen(t)
    BY <1>8, <1>10, <2>2 DEF Store!ApplyUnseen, Outcome, Stored
  <2>. QED
    BY <2>3 DEF Store!StoreNext
<1>. QED
  BY <1>3, <1>12, <1>13

\* A crash gives up what the process had open.
LEMMA CrashStore ==
    ASSUME IInv, NEW p \in Procs, Crash(p)
    PROVE  [Store!StoreNext]_(Store!storeVars)
<1>0. TypeOK /\ disk' = disk
  BY DEF IInv, Crash
<1>1. \A t \in Tasks : /\ pc[t] \in Final => pc'[t] = pc[t]
                       /\ pc[t] \notin Final => pc'[t] # "ok"
  BY DEF Crash, Final
<1>2. ASSUME NEW t \in Tasks, t \in Committing'
      PROVE  t \in Committing
  <2>1. CommitQueued(t)' /\ ProcOf[t] \in Procs
    BY <1>2, WTAssumption DEF Committing
  <2>2. stmts'[ProcOf[t]] = IF ProcOf[t] = p THEN <<>> ELSE stmts[ProcOf[t]]
    BY <1>0, <2>1 DEF Crash, TypeOK
  <2>3. CommitQueued(t)
    BY <2>1, <2>2 DEF CommitQueued
  <2>. QED
    BY <2>3 DEF Committing
<1>. QED
  BY <1>0, <1>1, <1>2, GivesUp

LEMMA StutterStore ==
    ASSUME UNCHANGED vars PROVE [Store!StoreNext]_(Store!storeVars)
BY DEF vars, Store!storeVars, CommitQueued, WritesOf

LEMMA NextStore ==
    ASSUME IInv, [Next]_vars PROVE [Store!StoreNext]_(Store!storeVars)
<1>0. TypeOK /\ TypeOK'
  BY NextTypeOK DEF IInv
<1>1. ASSUME NEW t \in Tasks, Enter(t) \/ AcquireLock(t)
      PROVE  [Store!StoreNext]_(Store!storeVars)
  <2>1. /\ pc[t] \notin Final /\ disk' = disk /\ pc'[t] \in {"lock", "begin"}
        /\ \A u \in Tasks \ {t} : pc'[u] = pc[u]
        /\ stmts' = stmts \/ Submit(t, "begin", 0)
    BY <1>0, <1>1 DEF Enter, AcquireLock, Submit, Final, TypeOK
  <2>. QED
    BY <1>0, <2>1, TaskStepGivesUp, WTAssumption DEF Ops
<1>2. ASSUME NEW t \in Tasks, NextWrite(t)
      PROVE  [Store!StoreNext]_(Store!storeVars)
  <2>1. step[t] + 1 \in 0..NumWrites /\ Submit(t, "write", step[t] + 1)
    BY <1>0, <1>2, WTAssumption DEF NextWrite, TypeOK
  <2>2. /\ pc[t] \notin Final /\ disk' = disk /\ pc'[t] = "write"
        /\ \A u \in Tasks \ {t} : pc'[u] = pc[u]
    BY <1>0, <1>2 DEF NextWrite, Submit, Final, TypeOK
  <2>. QED
    BY <1>0, <2>1, <2>2, TaskStepGivesUp DEF Ops
<1>3. ASSUME NEW t \in Tasks, BodyEnds(t) \/ BodyRaised(t) \/ CancelBody(t)
      PROVE  [Store!StoreNext]_(Store!storeVars)
  <2>1. /\ pc[t] \notin Final /\ disk' = disk /\ pc'[t] \in {"commit", "rollback"}
        /\ \A u \in Tasks \ {t} : pc'[u] = pc[u]
        /\ Submit(t, "commit", 0) \/ Submit(t, "rollback", 0)
    BY <1>0, <1>3 DEF BodyEnds, BodyRaised, CancelBody, MayCancel, Submit, Final, TypeOK
  <2>. QED
    BY <1>0, <2>1, TaskStepGivesUp, WTAssumption DEF Ops
<1>4. ASSUME NEW t \in Tasks,
             BeginRaised(t) \/ RollbackReturned(t) \/ CancelWaiting(t) \/ CancelOutside(t)
      PROVE  [Store!StoreNext]_(Store!storeVars)
  <2>1. /\ pc[t] \notin Final /\ disk' = disk /\ pc'[t] = "error" /\ stmts' = stmts
        /\ \A u \in Tasks \ {t} : pc'[u] = pc[u]
    BY <1>0, <1>4 DEF BeginRaised, RollbackReturned, CancelWaiting, CancelOutside,
                      MayCancel, Leave, Final, TypeOK
  <2>. QED
    BY <1>0, <2>1, TaskStepGivesUp
<1>5. ASSUME NEW t \in Tasks, CommitReturned(t)
      PROVE  [Store!StoreNext]_(Store!storeVars)
  BY <1>0, <1>5, CommitReturnedStore
<1>6. ASSUME NEW p \in Procs, ThreadStep(p)
      PROVE  [Store!StoreNext]_(Store!storeVars)
  <2>1. CASE ExecuteCommit(p)
    BY <1>0, <2>1, ExecuteCommitStore
  <2>2. CASE ExecuteWrite(p)
    <3>1. Take(p, "write", "ok") /\ txn' = txn
      BY <2>2 DEF ExecuteWrite
    <3>2. txn[p] # NoTask
      <4>1. StatementInv(p, 1) /\ stmts[p][1].op = "write" /\ stmts[p][1].task \in Tasks
        BY <3>1, TakenStatement DEF Ops
      <4>. QED
        BY <4>1, WTAssumption DEF StatementInv
    <3>. QED
      BY <1>0, <2>2, <3>1, <3>2, ThreadStepGivesUp DEF ExecuteWrite, Ops
  <2>3. CASE ~ExecuteCommit(p) /\ ~ExecuteWrite(p)
    <3>1. \E op \in Ops, how \in {"ok", "fail"} : Take(p, op, how) /\ disk' = disk
      BY <1>6, <2>3 DEF ThreadStep, ExecuteBegin, RefuseNestedBegin, BusyTimeout,
                        RefuseWrite, RefuseCommit, ExecuteRollback, Ops
    <3>. QED
      BY <1>0, <3>1, ThreadStepGivesUp
  <2>. QED
    BY <2>1, <2>2, <2>3
<1>7. ASSUME NEW p \in Procs, Crash(p)
      PROVE  [Store!StoreNext]_(Store!storeVars)
  BY <1>7, CrashStore
<1>8. CASE UNCHANGED vars
  BY <1>8, StutterStore
<1>. QED
  BY <1>1, <1>2, <1>3, <1>4, <1>5, <1>6, <1>7, <1>8 DEF Next, TaskStep, Cancel, Quiescent

\* write_transaction implements the atomic store.
THEOREM Refinement == Spec => ImplementsAtomicStore
<1>1. Init => Store!StoreInit
  <2>1. \A t \in Tasks : WritesOf(t) # {}
    <3>1. \A t \in Tasks : <<t, 1>> \in WritesOf(t)
      BY WTAssumption DEF WritesOf
    <3>. QED
      BY <3>1
  <2>. QED
    BY <2>1 DEF Init, Store!StoreInit, Final
<1>2. IInv /\ [Next]_vars => [Store!StoreNext]_(Store!storeVars)
  BY NextStore
<1>. QED
  BY <1>1, <1>2, Inductive, PTL DEF Spec, ImplementsAtomicStore, Store!StoreSpec
=============================================================================
