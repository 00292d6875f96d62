------------------------- MODULE RateLimiter_proofs -------------------------
(***************************************************************************)
(* Proofs about RateLimiter for any requests, keys, limit, window and      *)
(* clock resolution. What depends on the order of clock readings is proved *)
(* for one process, which is how the gateway is deployed.                  *)
(***************************************************************************)
EXTENDS RateLimiter, SequenceTheorems, FiniteSetTheorems, WellFoundedInduction, TLAPS

LEMMA RemoveAtFacts ==
    ASSUME NEW S, NEW s \in Seq(S), NEW i \in 1..Len(s)
    PROVE  /\ RemoveAt(s, i) \in Seq(S)
           /\ Len(RemoveAt(s, i)) = Len(s) - 1
           /\ \A k \in 1..Len(RemoveAt(s, i)) :
                 RemoveAt(s, i)[k] = IF k < i THEN s[k] ELSE s[k + 1]
<1>. DEFINE v == SubSeq(s, 1, i - 1)
           w == SubSeq(s, i + 1, Len(s))
<1>1. PICK m \in Nat : m = Len(s)
  OBVIOUS
<1>2. i \in Nat /\ i >= 1 /\ i <= m /\ \A j \in 1..m : s[j] \in S
  BY <1>1
<1>3. v \in Seq(S) /\ Len(v) = i - 1 /\ \A k \in 1..(i - 1) : v[k] = s[k]
  BY <1>1, <1>2
<1>4. w \in Seq(S) /\ Len(w) = m - i /\ \A k \in 1..(m - i) : w[k] = s[i + k]
  BY <1>1, <1>2
<1>. HIDE DEF v, w
<1>5. v \in Seq(S) /\ w \in Seq(S)
  BY <1>3, <1>4
<1>6. /\ v \o w \in Seq(S)
      /\ Len(v \o w) = Len(v) + Len(w)
      /\ \A k \in 1..(Len(v) + Len(w)) :
            (v \o w)[k] = IF k <= Len(v) THEN v[k] ELSE w[k - Len(v)]
  BY <1>5, ConcatProperties
<1>7. Len(v \o w) = m - 1
  BY <1>2, <1>3, <1>4, <1>6
<1>8. ASSUME NEW k \in 1..(m - 1)
      PROVE  (v \o w)[k] = IF k < i THEN s[k] ELSE s[k + 1]
  <2>1. (v \o w)[k] = IF k <= i - 1 THEN v[k] ELSE w[k - (i - 1)]
    BY <1>2, <1>3, <1>4, <1>6
  <2>2. CASE k < i
    BY <1>2, <1>3, <2>1, <2>2
  <2>3. CASE ~(k < i)
    <3>1. k - (i - 1) \in 1..(m - i) /\ i + (k - (i - 1)) = k + 1
      BY <1>2, <2>3
    <3>2. w[k - (i - 1)] = s[i + (k - (i - 1))]
      BY <1>4, <3>1
    <3>. QED
      BY <1>2, <2>1, <2>3, <3>1, <3>2
  <2>. QED
    BY <2>2, <2>3
<1>9. RemoveAt(s, i) = v \o w
  BY DEF RemoveAt, v, w
<1>. QED
  BY <1>1, <1>6, <1>7, <1>8, <1>9

LEMMA WithoutFirst ==
    ASSUME NEW S, NEW s \in Seq(S), s # <<>>
    PROVE  /\ Len(s) \in Nat \ {0} /\ Head(s) = s[1] /\ Head(s) \in S
           /\ Tail(s) \in Seq(S) /\ Len(Tail(s)) = Len(s) - 1
           /\ \A k \in 1..Len(Tail(s)) : Tail(s)[k] = s[k + 1]
OBVIOUS

-----------------------------------------------------------------------------
(* Type correctness.                                                       *)

LEMMA NextTypeOK == TypeOK /\ [Next]_vars => TypeOK'
<1>. SUFFICES ASSUME TypeOK, [Next]_vars PROVE TypeOK'
  OBVIOUS
<1>1. ASSUME NEW r \in Requests, NEW p \in Procs, CheckAndConsume(r, p) PROVE TypeOK'
  <2>1. PICK n \in Sizes :
          Enqueue(p, [req |-> r, kind |-> "admission", at |-> clock, tokens |-> n])
    BY <1>1 DEF CheckAndConsume
  <2>2. [req |-> r, kind |-> "admission", at |-> clock, tokens |-> n] \in Row
    BY DEF TypeOK, Row
  <2>. QED
    BY <1>1, <2>1, <2>2 DEF CheckAndConsume, Enqueue, TypeOK
<1>2. ASSUME NEW r \in Requests, NEW p \in Procs, Reconcile(r, p) PROVE TypeOK'
  <2>1. PICK d \in Corrections :
          Enqueue(p, [req |-> r, kind |-> "reconciliation", at |-> clock, tokens |-> d])
    BY <1>2 DEF Reconcile
  <2>2. [req |-> r, kind |-> "reconciliation", at |-> clock, tokens |-> d] \in Row
    BY DEF TypeOK, Row
  <2>. QED
    BY <1>2, <2>1, <2>2 DEF Reconcile, Enqueue, TypeOK
<1>3. ASSUME NEW p \in Procs, NEW op \in Row, Serve(p, op)
      PROVE  queue' \in [Procs -> Seq(Row)] /\ op.req \in Requests
  BY <1>3 DEF Serve, TypeOK, Row
<1>4. ASSUME NEW p \in Procs, Admit(p) \/ Reject(p) PROVE TypeOK'
  <2>1. PICK op \in Row : /\ Serve(p, op)
                          /\ table' \subseteq table \cup {op}
                          /\ log' \subseteq log \cup {op}
                          /\ \E how \in {"admitted", "rejected"} : \E d : Decide(op, how, d)
                          /\ UNCHANGED clock
    BY <1>4 DEF Admit, Reject, Retained
  <2>2. PICK how \in {"admitted", "rejected"} : \E d : Decide(op, how, d)
    BY <2>1
  <2>3. PICK s \in {"admitted", "rejected", "error"} :
          status' = [status EXCEPT ![op.req] = s]
    BY <2>2 DEF Decide
  <2>4. status' \in [Requests -> {"idle", "checking", "admitted", "rejected",
                                  "error", "correcting", "settled"}]
    BY <2>3 DEF TypeOK
  <2>5. DOMAIN answer' = Requests
    <3>1. DOMAIN answer = Requests
      BY DEF TypeOK
    <3>. QED
      BY <2>2, <3>1 DEF Decide
  <2>. QED
    BY <1>3, <2>1, <2>4, <2>5 DEF TypeOK
<1>5. ASSUME NEW p \in Procs, Correct(p) PROVE TypeOK'
  BY <1>3, <1>5 DEF Correct, TypeOK
<1>6. ASSUME NEW p \in Procs, GiveUp(p) PROVE TypeOK'
  <2>1. PICK i \in DOMAIN queue[p] :
          /\ queue' = [queue EXCEPT ![p] = RemoveAt(@, i)]
          /\ status' = [status EXCEPT ![queue[p][i].req] =
                          IF queue[p][i].kind = "admission" THEN "error" ELSE "settled"]
          /\ UNCHANGED <<clock, table, log, answer>>
    BY <1>6 DEF GiveUp
  <2>2. queue[p] \in Seq(Row)
    BY DEF TypeOK
  <2>3. RemoveAt(queue[p], i) \in Seq(Row)
    BY <2>2, RemoveAtFacts
  <2>. QED
    BY <2>1, <2>3 DEF TypeOK
<1>7. CASE Tick
  BY <1>7, RLAssumption DEF Tick, TypeOK, Times
<1>8. CASE UNCHANGED vars
  BY <1>8 DEF vars, TypeOK
<1>. QED
  BY <1>1, <1>2, <1>4, <1>5, <1>6, <1>7, <1>8 DEF Next, Finished

\* Every variable keeps its type.
THEOREM TypeCorrect == Spec => []TypeOK
<1>1. Init => TypeOK
  BY RLAssumption DEF Init, TypeOK, Times
<1>. QED
  BY <1>1, NextTypeOK, PTL DEF Spec
-----------------------------------------------------------------------------
(* One process: the inductive invariant.                                   *)

\* The lock is FIFO, so operations wait in the order in which they read the
\* clock; an operation belongs to a request that waits for it, and to no other.
QueueInv ==
    \A p \in Procs : \A i \in 1..Len(queue[p]) :
        /\ queue[p][i].at <= clock
        /\ status[queue[p][i].req] =
              IF queue[p][i].kind = "admission" THEN "checking" ELSE "correcting"
        /\ \A j \in 1..(i - 1) : /\ queue[p][j].at <= queue[p][i].at
                                 /\ queue[p][j].req # queue[p][i].req

LogInv == table \subseteq log /\ \A row \in log : row.at <= clock

IInv == TypeOK /\ QueueInv /\ LogInv /\ EvictionSafe

LEMMA QueueTyped ==
    ASSUME TypeOK, NEW p \in Procs
    PROVE  /\ Len(queue[p]) \in Nat
           /\ \A i \in 1..Len(queue[p]) :
                 /\ queue[p][i] \in Row /\ queue[p][i].req \in Requests
                 /\ queue[p][i].at \in Times
<1>1. queue[p] \in Seq(Row)
  BY DEF TypeOK
<1>2. \A i \in 1..Len(queue[p]) : queue[p][i] \in Row
  BY <1>1
<1>. QED
  BY <1>1, <1>2 DEF Row

LEMMA InitIInv == Init => IInv
<1>. SUFFICES ASSUME Init PROVE IInv
  OBVIOUS
<1>1. TypeOK
  BY RLAssumption DEF Init, TypeOK, Times
<1>2. \A p \in Procs : queue[p] = <<>>
  BY DEF Init
<1>3. QueueInv
  BY <1>2 DEF QueueInv
<1>. QED
  BY <1>1, <1>3 DEF Init, IInv, LogInv, EvictionSafe

\* An operation joins the queue: it is the youngest, and its request has no
\* other one waiting.
LEMMA EnqueueIInv ==
    ASSUME IInv, TypeOK', NEW p \in Procs, NEW r \in Requests, NEW row \in Row,
           row.at = clock, row.req = r, Enqueue(p, row), UNCHANGED <<clock, table, log>>,
           status[r] \notin {"checking", "correcting"},
           status' = [status EXCEPT ![r] =
                         IF row.kind = "admission" THEN "checking" ELSE "correcting"]
    PROVE  IInv'
<1>0. TypeOK /\ queue[p] \in Seq(Row) /\ clock \in Nat
  BY DEF IInv, TypeOK, Times
<1>1. PICK m \in Nat : m = Len(queue[p])
  BY <1>0
<1>2. /\ Len(queue'[p]) = m + 1
      /\ queue'[p][m + 1] = row
      /\ \A i \in 1..m : queue'[p][i] = queue[p][i]
      /\ \A q \in Procs \ {p} : queue'[q] = queue[q]
  BY <1>0, <1>1 DEF Enqueue, TypeOK
<1>3. \A u \in Requests \ {r} : status'[u] = status[u]
  BY <1>0 DEF TypeOK
<1>4. \A q \in Procs : \A i \in 1..Len(queue[q]) : queue[q][i].req # r
  BY DEF IInv, QueueInv
<1>5. status'[r] = IF row.kind = "admission" THEN "checking" ELSE "correcting"
  BY <1>0 DEF TypeOK
<1>6. QueueInv'
  <2>. SUFFICES ASSUME NEW q \in Procs, NEW i \in 1..Len(queue'[q])
                PROVE  /\ queue'[q][i].at <= clock
                       /\ status'[queue'[q][i].req] =
                             IF queue'[q][i].kind = "admission"
                             THEN "checking" ELSE "correcting"
                       /\ \A j \in 1..(i - 1) : /\ queue'[q][j].at <= queue'[q][i].at
                                                /\ queue'[q][j].req # queue'[q][i].req
    BY DEF QueueInv
  <2>1. CASE q = p /\ i = m + 1
    <3>1. i - 1 = m
      BY <1>1, <2>1
    <3>2. \A j \in 1..m : queue[p][j].at <= clock /\ queue[p][j].req # r
      BY <1>1, <1>4 DEF IInv, QueueInv
    <3>3. \A j \in 1..(i - 1) : /\ queue'[p][j].at <= clock
                                /\ queue'[p][j].req # r
      BY <1>2, <3>1, <3>2
    <3>. QED
      BY <1>0, <1>2, <1>5, <2>1, <3>3
  <2>2. CASE ~(q = p /\ i = m + 1)
    <3>1. i \in 1..Len(queue[q]) /\ queue'[q][i] = queue[q][i]
      BY <1>1, <1>2, <2>2
    <3>2. \A j \in 1..(i - 1) : queue'[q][j] = queue[q][j]
      <4>1. CASE q = p
        <5>1. \A j \in 1..(i - 1) : j \in 1..m
          BY <1>1, <3>1, <4>1
        <5>. QED
          BY <1>2, <4>1, <5>1
      <4>2. CASE q # p
        BY <1>2, <4>2
      <4>. QED
        BY <4>1, <4>2
    <3>3. queue[q][i].req \in Requests \ {r}
      BY <1>0, <1>4, <3>1, QueueTyped
    <3>. QED
      BY <1>3, <3>1, <3>2, <3>3 DEF IInv, QueueInv
  <2>. QED
    BY <2>1, <2>2
<1>7. EvictionSafe'
  <2>. SUFFICES ASSUME NEW old \in log \ table, NEW q \in Procs, NEW i \in 1..Len(queue'[q])
                PROVE  old.at < queue'[q][i].at - Window
    BY DEF IInv, EvictionSafe
  <2>1. old.at < clock - Window
        /\ \A k \in 1..Len(queue[q]) : old.at < queue[q][k].at - Window
    BY DEF IInv, EvictionSafe
  <2>2. CASE q = p /\ i = m + 1
    BY <1>2, <2>1, <2>2
  <2>3. CASE ~(q = p /\ i = m + 1)
    <3>1. i \in 1..Len(queue[q]) /\ queue'[q][i] = queue[q][i]
      BY <1>1, <1>2, <2>3
    <3>. QED
      BY <2>1, <3>1
  <2>. QED
    BY <2>2, <2>3
<1>. QED
  BY <1>6, <1>7 DEF IInv, LogInv

\* One operation has left the queue, the i-th, and only its request has moved.
Left(p, i) ==
    /\ Len(queue'[p]) = Len(queue[p]) - 1
    /\ \A k \in 1..Len(queue'[p]) : queue'[p][k] = queue[p][IF k < i THEN k ELSE k + 1]
    /\ \A r \in Requests \ {queue[p][i].req} : status'[r] = status[r]
    /\ UNCHANGED clock

\* Every operation that stays was somewhere in the queue before.
LEMMA LeftFrom ==
    ASSUME TypeOK, NEW p \in Procs, Procs = {p}, NEW i \in 1..Len(queue[p]), Left(p, i),
           NEW q \in Procs, NEW k \in 1..Len(queue'[q])
    PROVE  \E h \in 1..Len(queue[p]) \ {i} :
              h = (IF k < i THEN k ELSE k + 1) /\ queue'[q][k] = queue[p][h]
<1>1. Len(queue[p]) \in Nat
  BY QueueTyped
<1>. QED
  BY <1>1 DEF Left

LEMMA LeftQueueInv ==
    ASSUME IInv, NEW p \in Procs, Procs = {p}, NEW i \in 1..Len(queue[p]), Left(p, i)
    PROVE  QueueInv'
<1>0. TypeOK /\ QueueInv
  BY DEF IInv
<1>1. \A g, h \in 1..Len(queue[p]) : g # h => queue[p][g].req # queue[p][h].req
  <2>. SUFFICES ASSUME NEW g \in 1..Len(queue[p]), NEW h \in 1..Len(queue[p]), g < h
                PROVE  queue[p][g].req # queue[p][h].req
    BY <1>0, QueueTyped
  <2>1. g \in 1..(h - 1)
    BY <1>0, QueueTyped
  <2>. QED
    BY <1>0, <2>1 DEF QueueInv
<1>. SUFFICES ASSUME NEW q \in Procs, NEW k \in 1..Len(queue'[q])
              PROVE  /\ queue'[q][k].at <= clock'
                     /\ status'[queue'[q][k].req] =
                           IF queue'[q][k].kind = "admission"
                           THEN "checking" ELSE "correcting"
                     /\ \A j \in 1..(k - 1) : /\ queue'[q][j].at <= queue'[q][k].at
                                              /\ queue'[q][j].req # queue'[q][k].req
  BY DEF QueueInv
<1>2. PICK h \in 1..Len(queue[p]) \ {i} :
        h = (IF k < i THEN k ELSE k + 1) /\ queue'[q][k] = queue[p][h]
  BY <1>0, LeftFrom
<1>3. /\ queue[p][h].at <= clock
      /\ status[queue[p][h].req] =
            IF queue[p][h].kind = "admission" THEN "checking" ELSE "correcting"
      /\ \A j \in 1..(h - 1) : /\ queue[p][j].at <= queue[p][h].at
                               /\ queue[p][j].req # queue[p][h].req
  BY <1>0, <1>2 DEF QueueInv
<1>4. status'[queue[p][h].req] = status[queue[p][h].req]
  BY <1>0, <1>1, <1>2, QueueTyped DEF Left
<1>5. ASSUME NEW j \in 1..(k - 1)
      PROVE  queue'[q][j].at <= queue[p][h].at /\ queue'[q][j].req # queue[p][h].req
  <2>1. Len(queue[p]) \in Nat /\ Len(queue'[q]) = Len(queue[p]) - 1
    BY <1>0, QueueTyped DEF Left
  <2>2. j \in 1..Len(queue'[q])
    BY <2>1
  <2>3. PICK g \in 1..Len(queue[p]) \ {i} :
          g = (IF j < i THEN j ELSE j + 1) /\ queue'[q][j] = queue[p][g]
    BY <1>0, <2>2, LeftFrom
  <2>4. g \in 1..(h - 1)
    BY <1>2, <2>1, <2>3
  <2>. QED
    BY <1>3, <2>3, <2>4
<1>. QED
  BY <1>2, <1>3, <1>4, <1>5 DEF Left

LEMMA ServeLeft ==
    ASSUME TypeOK, NEW p \in Procs, NEW op \in Row, Serve(p, op), UNCHANGED clock,
           \A r \in Requests \ {op.req} : status'[r] = status[r]
    PROVE  1 \in 1..Len(queue[p]) /\ op = queue[p][1] /\ Left(p, 1)
<1>1. /\ queue[p] \in Seq(Row) /\ queue[p] # <<>> /\ op = Head(queue[p])
      /\ queue'[p] = Tail(queue[p])
  BY DEF Serve, TypeOK
<1>2. /\ Len(queue[p]) \in Nat \ {0} /\ op = queue[p][1]
      /\ Len(queue'[p]) = Len(queue[p]) - 1
      /\ \A k \in 1..Len(queue'[p]) : queue'[p][k] = queue[p][k + 1]
  BY <1>1, WithoutFirst
<1>3. \A k \in 1..Len(queue'[p]) : queue'[p][k] = queue[p][IF k < 1 THEN k ELSE k + 1]
  BY <1>2
<1>. QED
  BY <1>2, <1>3 DEF Left

\* The step of an operation that has left the queue keeps the rows that count:
\* what it evicts, if anything, is too old for itself and so for those behind it.
LEMMA LeftEvictionSafe ==
    ASSUME IInv, NEW p \in Procs, Procs = {p}, NEW i \in 1..Len(queue[p]), Left(p, i),
           \A row \in log' \ table' :
              \/ row \in log \ table
              \/ i = 1 /\ row.at \in Times /\ row.at < queue[p][1].at - Window
    PROVE  EvictionSafe'
<1>0. TypeOK /\ QueueInv /\ EvictionSafe /\ Window \in Nat /\ clock' = clock /\ clock \in Nat
  BY RLAssumption DEF IInv, Window, Left, TypeOK, Times
<1>. SUFFICES ASSUME NEW row \in log' \ table'
              PROVE  /\ row.at < clock - Window
                     /\ \A q \in Procs : \A k \in 1..Len(queue'[q]) :
                           row.at < queue'[q][k].at - Window
  BY <1>0 DEF EvictionSafe
<1>1. \A q \in Procs : \A k \in 1..Len(queue'[q]) :
        \E h \in 1..Len(queue[p]) \ {i} : queue'[q][k] = queue[p][h]
  BY <1>0, LeftFrom
<1>2. CASE row \in log \ table
  BY <1>0, <1>1, <1>2 DEF EvictionSafe
<1>3. CASE i = 1 /\ row.at \in Times /\ row.at < queue[p][1].at - Window
  <2>1. \A h \in 1..Len(queue[p]) \ {1} : queue[p][1].at <= queue[p][h].at
    <3>1. \A h \in 1..Len(queue[p]) \ {1} : 1 \in 1..(h - 1)
      BY <1>0, QueueTyped
    <3>. QED
      BY <1>0, <3>1 DEF QueueInv
  <2>2. \A h \in 1..Len(queue[p]) : queue[p][h].at \in Nat /\ queue[p][h].at <= clock
    BY <1>0, QueueTyped DEF QueueInv, Times
  <2>3. row.at \in Nat /\ queue[p][1].at \in Nat /\ queue[p][1].at <= clock
    BY <1>3, <2>2 DEF Times
  <2>4. row.at < clock - Window
    BY <1>0, <1>3, <2>3
  <2>5. \A h \in 1..Len(queue[p]) \ {1} : row.at < queue[p][h].at - Window
    BY <1>0, <1>3, <2>1, <2>2, <2>3
  <2>. QED
    BY <1>1, <1>3, <2>4, <2>5
<1>. QED
  BY <1>2, <1>3

LEMMA CheckIInv ==
    ASSUME IInv, TypeOK', NEW p \in Procs, Procs = {p}, Admit(p) \/ Reject(p)
    PROVE  IInv'
<1>0. TypeOK /\ LogInv
  BY DEF IInv
<1>1. PICK op \in Row : /\ Serve(p, op) /\ UNCHANGED clock
                        /\ \E how, d : Decide(op, how, d)
                        /\ \/ table' = Retained(op) \cup {op} /\ log' = log \cup {op}
                           \/ table' = Retained(op) /\ log' = log
  BY DEF Admit, Reject
<1>2. \A r \in Requests \ {op.req} : status'[r] = status[r]
  BY <1>0, <1>1 DEF Decide, TypeOK
<1>3. 1 \in 1..Len(queue[p]) /\ op = queue[p][1] /\ Left(p, 1)
  BY <1>0, <1>1, <1>2, ServeLeft
<1>4. QueueInv'
  BY <1>3, LeftQueueInv
<1>5. LogInv'
  <2>1. op.at <= clock
    BY <1>3 DEF IInv, QueueInv
  <2>. QED
    BY <1>0, <1>1, <2>1 DEF LogInv, Retained
<1>6. EvictionSafe'
  <2>1. ASSUME NEW row \in log' \ table'
        PROVE  row \in log \ table \/ (row.at \in Times /\ row.at < queue[p][1].at - Window)
    <3>1. row \in log
      BY <1>1, <2>1
    <3>2. CASE row \in table
      <4>1. ~(row.at >= op.at - Window)
        BY <1>1, <2>1, <3>2 DEF Retained
      <4>2. row.at \in Times /\ row.at \in Int /\ op.at \in Int /\ Window \in Int
        <5>1. row \in Row
          BY <1>0, <3>1 DEF TypeOK
        <5>. QED
          BY <5>1, RLAssumption DEF Row, Times, Window
      <4>3. row.at < op.at - Window
        BY <4>1, <4>2
      <4>. QED
        BY <1>3, <4>2, <4>3
    <3>. QED
      BY <3>1, <3>2
  <2>. QED
    BY <1>3, <2>1, LeftEvictionSafe
<1>. QED
  BY <1>4, <1>5, <1>6 DEF IInv

LEMMA CorrectIInv ==
    ASSUME IInv, TypeOK', NEW p \in Procs, Procs = {p}, Correct(p)
    PROVE  IInv'
<1>0. TypeOK /\ LogInv
  BY DEF IInv
<1>1. PICK op \in Row : /\ Serve(p, op) /\ UNCHANGED clock
                        /\ status' = [status EXCEPT ![op.req] = "settled"]
                        /\ table' = table \cup {op} /\ log' = log \cup {op}
  BY DEF Correct
<1>2. 1 \in 1..Len(queue[p]) /\ op = queue[p][1] /\ Left(p, 1)
  BY <1>0, <1>1, ServeLeft DEF TypeOK
<1>3. LogInv'
  <2>1. op.at <= clock
    BY <1>2 DEF IInv, QueueInv
  <2>. QED
    BY <1>0, <1>1, <2>1 DEF LogInv
<1>4. EvictionSafe'
  BY <1>1, <1>2, LeftEvictionSafe
<1>. QED
  BY <1>2, <1>3, <1>4, LeftQueueInv DEF IInv

LEMMA GiveUpIInv ==
    ASSUME IInv, TypeOK', NEW p \in Procs, Procs = {p}, GiveUp(p)
    PROVE  IInv'
<1>0. TypeOK /\ queue[p] \in Seq(Row)
  BY DEF IInv, TypeOK
<1>1. PICK i \in DOMAIN queue[p] :
        /\ queue' = [queue EXCEPT ![p] = RemoveAt(@, i)]
        /\ status' = [status EXCEPT ![queue[p][i].req] =
                        IF queue[p][i].kind = "admission" THEN "error" ELSE "settled"]
        /\ UNCHANGED <<clock, table, log, answer>>
  BY DEF GiveUp
<1>2. i \in 1..Len(queue[p]) /\ queue'[p] = RemoveAt(queue[p], i)
  BY <1>0, <1>1 DEF TypeOK
<1>3. /\ Len(queue'[p]) = Len(queue[p]) - 1
      /\ \A k \in 1..Len(queue'[p]) :
            queue'[p][k] = IF k < i THEN queue[p][k] ELSE queue[p][k + 1]
  BY <1>0, <1>2, RemoveAtFacts
<1>4. Left(p, i)
  BY <1>0, <1>1, <1>3 DEF Left, TypeOK
<1>5. LogInv'
  BY <1>1 DEF IInv, LogInv
<1>6. EvictionSafe'
  BY <1>1, <1>2, <1>4, LeftEvictionSafe
<1>. QED
  BY <1>2, <1>4, <1>5, <1>6, LeftQueueInv DEF IInv

LEMMA TickIInv ==
    ASSUME IInv, TypeOK', Tick
    PROVE  IInv'
<1>0. /\ TypeOK /\ QueueInv /\ LogInv /\ EvictionSafe /\ clock \in Nat /\ Window \in Nat
      /\ clock' = clock + 1 /\ UNCHANGED <<table, log, queue, status, answer>>
  BY RLAssumption DEF IInv, TypeOK, Times, Window, Tick
<1>1. \A row \in log : row.at \in Nat
  BY <1>0 DEF TypeOK, Row, Times
<1>2. LogInv'
  BY <1>0, <1>1 DEF LogInv
<1>3. QueueInv'
  <2>1. \A p \in Procs : \A i \in 1..Len(queue[p]) : queue[p][i].at \in Nat
    BY <1>0, QueueTyped DEF Times
  <2>. QED
    BY <1>0, <2>1 DEF QueueInv
<1>4. EvictionSafe'
  BY <1>0, <1>1 DEF EvictionSafe, Window
<1>. QED
  BY <1>2, <1>3, <1>4 DEF IInv

LEMMA NextIInv ==
    ASSUME NEW p \in Procs, Procs = {p}, IInv, [Next]_vars
    PROVE  IInv'
<1>0. TypeOK'
  BY NextTypeOK DEF IInv
<1>1. ASSUME NEW r \in Requests, CheckAndConsume(r, p) PROVE IInv'
  <2>1. PICK n \in Sizes :
          Enqueue(p, [req |-> r, kind |-> "admission", at |-> clock, tokens |-> n])
    BY <1>1 DEF CheckAndConsume
  <2>2. PICK row \in Row :
          row = [req |-> r, kind |-> "admission", at |-> clock, tokens |-> n]
    BY DEF IInv, TypeOK, Row
  <2>. QED
    BY <1>0, <1>1, <2>1, <2>2, EnqueueIInv DEF CheckAndConsume
<1>2. ASSUME NEW r \in Requests, Reconcile(r, p) PROVE IInv'
  <2>1. PICK d \in Corrections :
          Enqueue(p, [req |-> r, kind |-> "reconciliation", at |-> clock, tokens |-> d])
    BY <1>2 DEF Reconcile
  <2>2. PICK row \in Row :
          row = [req |-> r, kind |-> "reconciliation", at |-> clock, tokens |-> d]
    BY DEF IInv, TypeOK, Row
  <2>. QED
    BY <1>0, <1>2, <2>1, <2>2, EnqueueIInv DEF Reconcile
<1>3. CASE UNCHANGED vars
  BY <1>3 DEF vars, IInv, TypeOK, QueueInv, LogInv, EvictionSafe
<1>. QED
  BY <1>0, <1>1, <1>2, <1>3, CheckIInv, CorrectIInv, GiveUpIInv, TickIInv DEF Next, Finished

\* The inductive invariant holds in every behaviour of one process.
THEOREM Inductive == ASSUME NEW p \in Procs, Procs = {p} PROVE Spec => []IInv
<1>1. IInv /\ [Next]_vars => IInv'
  BY NextIInv
<1>. QED
  BY <1>1, InitIInv, PTL DEF Spec

\* Whatever waits for the lock, and however long, eviction deletes no row that
\* a check still has to count.
THEOREM EvictionAlwaysSafe == ASSUME NEW p \in Procs, Procs = {p} PROVE Spec => []EvictionSafe
<1>1. IInv => EvictionSafe
  BY DEF IInv
<1>. QED
  BY <1>1, Inductive, PTL
-----------------------------------------------------------------------------
(* The limiter that never evicts.                                          *)

\* What a check sums over the table is what the whole log holds of its window.
LEMMA SameWindow ==
    ASSUME IInv, NEW p \in Procs, NEW op \in Row, Serve(p, op)
    PROVE  InWindow(Retained(op), op) = Unbounded!InWindow(op.req, op.at)
<1>0. TypeOK /\ LogInv /\ EvictionSafe
  BY DEF IInv
<1>1. 1 \in 1..Len(queue[p]) /\ op = queue[p][1]
  <2>1. queue[p] \in Seq(Row) /\ queue[p] # <<>> /\ op = Head(queue[p])
    BY <1>0 DEF Serve, TypeOK
  <2>. QED
    BY <2>1
<1>2. \A row \in log : row.at \in Int
  BY <1>0 DEF TypeOK, Row, Times
<1>3. op.at \in Int /\ Window \in Int
  BY RLAssumption DEF Row, Times, Window
<1>4. \A row \in log : row.at >= op.at - Window => row \in table
  BY <1>0, <1>1, <1>2, <1>3 DEF EvictionSafe
<1>. QED
  BY <1>0, <1>4 DEF InWindow, Retained, Unbounded!InWindow, LogInv

\* The status of the operation at the head of the queue.
LEMMA ServedStatus ==
    ASSUME IInv, NEW p \in Procs, NEW op \in Row, Serve(p, op)
    PROVE  /\ op.req \in Requests
           /\ status[op.req] = IF op.kind = "admission" THEN "checking" ELSE "correcting"
<1>0. TypeOK /\ QueueInv
  BY DEF IInv
<1>1. 1 \in 1..Len(queue[p]) /\ op = queue[p][1]
  <2>1. queue[p] \in Seq(Row) /\ queue[p] # <<>> /\ op = Head(queue[p])
    BY <1>0 DEF Serve, TypeOK
  <2>. QED
    BY <2>1
<1>. QED
  BY <1>0, <1>1 DEF QueueInv, Row

LEMMA AdmitUnbounded ==
    ASSUME IInv, NEW p \in Procs, Admit(p)
    PROVE  Unbounded!SWNext
<1>1. PICK op \in Row : /\ Serve(p, op) /\ op.kind = "admission" /\ Fits(op)
                        /\ log' = log \cup {op}
                        /\ Decide(op, "admitted",
                              [at |-> op.at, tokens |-> op.tokens, retryAfter |-> 0,
                               used |-> Charge(InWindow(Retained(op), op)) + op.tokens])
  BY DEF Admit
<1>2. op.req \in Requests /\ status[op.req] = "checking"
  BY <1>1, ServedStatus
<1>3. /\ op = [req |-> op.req, kind |-> "admission", at |-> op.at, tokens |-> op.tokens]
      /\ op.at \in Times /\ op.tokens \in Sizes
  BY <1>1 DEF Row
<1>4. PICK used : used = Charge(InWindow(Retained(op), op))
  OBVIOUS
<1>5. used = Charge(Unbounded!InWindow(op.req, op.at))
  BY <1>1, <1>4, SameWindow
<1>6. Unbounded!Admit(op.req, op.at, op.tokens)
  BY <1>1, <1>2, <1>3, <1>4, <1>5 DEF Unbounded!Admit, Unbounded!Move, Unbounded!Fits, Fits, Decide
<1>. QED
  BY <1>2, <1>3, <1>6 DEF Unbounded!SWNext

LEMMA RejectUnbounded ==
    ASSUME IInv, NEW p \in Procs, Reject(p)
    PROVE  Unbounded!SWNext
<1>1. PICK op \in Row : /\ Serve(p, op) /\ op.kind = "admission" /\ ~Fits(op)
                        /\ log' = log
                        /\ Decide(op, "rejected",
                              [at |-> op.at, tokens |-> op.tokens,
                               used |-> Charge(InWindow(Retained(op), op)),
                               retryAfter |-> RetryAfter(InWindow(Retained(op), op), op.at)])
  BY DEF Reject
<1>2. op.req \in Requests /\ status[op.req] = "checking"
  BY <1>1, ServedStatus
<1>3. op.at \in Times /\ op.tokens \in Sizes
  BY <1>1 DEF Row
<1>4. PICK rows : rows = InWindow(Retained(op), op)
  OBVIOUS
<1>5. rows = Unbounded!InWindow(op.req, op.at)
  BY <1>1, <1>4, SameWindow
<1>6. CASE /\ status' = [status EXCEPT ![op.req] = "rejected"]
           /\ answer' = [answer EXCEPT ![op.req] =
                 [at |-> op.at, tokens |-> op.tokens, used |-> Charge(rows),
                  retryAfter |-> RetryAfter(rows, op.at)]]
  <2>1. Unbounded!Reject(op.req, op.at, op.tokens)
    BY <1>1, <1>2, <1>4, <1>5, <1>6
       DEF Unbounded!Reject, Unbounded!Move, Unbounded!Fits, Fits
  <2>. QED
    BY <1>2, <1>3, <2>1 DEF Unbounded!SWNext
<1>7. CASE status' = [status EXCEPT ![op.req] = "error"] /\ answer' = answer
  <2>1. Unbounded!GiveUp(op.req)
    BY <1>1, <1>2, <1>7 DEF Unbounded!GiveUp, Unbounded!Move
  <2>. QED
    BY <1>2, <2>1 DEF Unbounded!SWNext
<1>. QED
  BY <1>1, <1>4, <1>6, <1>7 DEF Decide

LEMMA CorrectUnbounded ==
    ASSUME IInv, NEW p \in Procs, Correct(p)
    PROVE  Unbounded!SWNext
<1>1. PICK op \in Row : /\ Serve(p, op) /\ op.kind = "reconciliation"
                        /\ log' = log \cup {op}
                        /\ status' = [status EXCEPT ![op.req] = "settled"]
                        /\ answer' = answer
  BY DEF Correct
<1>2. op.req \in Requests /\ status[op.req] = "correcting"
  BY <1>1, ServedStatus
<1>3. /\ op = [req |-> op.req, kind |-> "reconciliation", at |-> op.at, tokens |-> op.tokens]
      /\ op.at \in Times /\ op.tokens \in Corrections
  BY <1>1 DEF Row
<1>4. Unbounded!Correct(op.req, op.at, op.tokens)
  BY <1>1, <1>2, <1>3 DEF Unbounded!Correct, Unbounded!Move
<1>. QED
  BY <1>2, <1>3, <1>4 DEF Unbounded!SWNext

LEMMA GiveUpUnbounded ==
    ASSUME IInv, NEW p \in Procs, GiveUp(p)
    PROVE  Unbounded!SWNext
<1>0. TypeOK /\ QueueInv /\ queue[p] \in Seq(Row)
  BY DEF IInv, TypeOK
<1>1. PICK i \in DOMAIN queue[p] :
        /\ status' = [status EXCEPT ![queue[p][i].req] =
                        IF queue[p][i].kind = "admission" THEN "error" ELSE "settled"]
        /\ UNCHANGED <<log, answer>>
  BY DEF GiveUp
<1>2. i \in 1..Len(queue[p])
  BY <1>0
<1>3. PICK r \in Requests : r = queue[p][i].req
  BY <1>0, <1>2, QueueTyped
<1>4. status[r] = IF queue[p][i].kind = "admission" THEN "checking" ELSE "correcting"
  BY <1>0, <1>2, <1>3 DEF QueueInv
<1>5. Unbounded!GiveUp(r)
  BY <1>1, <1>3, <1>4 DEF Unbounded!GiveUp, Unbounded!Move
<1>. QED
  BY <1>5 DEF Unbounded!SWNext

LEMMA NextUnbounded ==
    ASSUME IInv, [Next]_vars
    PROVE  [Unbounded!SWNext]_(Unbounded!swVars)
<1>1. ASSUME NEW r \in Requests, NEW p \in Procs, CheckAndConsume(r, p) \/ Reconcile(r, p)
      PROVE  Unbounded!SWNext
  <2>1. Unbounded!Ask(r)
    BY <1>1 DEF CheckAndConsume, Reconcile, Unbounded!Ask, Unbounded!Move
  <2>. QED
    BY <2>1 DEF Unbounded!SWNext
<1>2. CASE Tick \/ UNCHANGED vars
  BY <1>2 DEF Tick, vars, Unbounded!swVars
<1>. QED
  BY <1>1, <1>2, AdmitUnbounded, RejectUnbounded, CorrectUnbounded, GiveUpUnbounded
     DEF Next, Finished

\* One process decides as if nothing were ever evicted and nobody ever waited.
THEOREM Refinement ==
    ASSUME NEW p \in Procs, Procs = {p} PROVE Spec => ImplementsSlidingWindow
<1>1. Init => Unbounded!SWInit
  BY DEF Init, Unbounded!SWInit
<1>2. IInv /\ [Next]_vars => [Unbounded!SWNext]_(Unbounded!swVars)
  BY NextUnbounded
<1>. QED
  BY <1>1, <1>2, Inductive, PTL DEF Spec, ImplementsSlidingWindow, Unbounded!SWSpec
-----------------------------------------------------------------------------
(* Retry-After.                                                            *)

LEMMA MinOfNaturals ==
    ASSUME NEW S \in SUBSET Nat, S # {}
    PROVE  Min(S) \in S /\ \A y \in S : Min(S) <= y
<1>. DEFINE Less == {xy \in Nat \X Nat : xy[1] < xy[2]}
<1>1. IsWellFoundedOn(Less, Nat)
  BY NatLessThanWellFounded, Zenon DEF OpToRel
<1>2. \E x \in S : \A y \in S : ~ (<<y, x>> \in Less)
  <2>. HIDE DEF Less
  <2>. QED
    BY <1>1, WFMin
<1>3. PICK x \in S : \A y \in S : ~ (<<y, x>> \in Less)
  BY <1>2
<1>4. ASSUME NEW y \in S PROVE x <= y
  <2>1. x \in Nat /\ y \in Nat /\ <<y, x>> \notin Less
    BY <1>3
  <2>2. <<y, x>> \in Nat \X Nat
    BY <2>1
  <2>3. ~(y < x)
    BY <2>1, <2>2
  <2>. QED
    BY <2>1, <2>3
<1>. QED
  BY <1>4 DEF Min

LEMMA Quotient ==
    ASSUME NEW a \in Nat, NEW b \in Nat \ {0}
    PROVE  /\ a \div b \in Nat
           /\ (a \div b) * b <= a
           /\ a < (a \div b + 1) * b
           /\ (a \div b + 1) * b = (a \div b) * b + b
BY Z3

\* One of the rows is out of the window at the time RetryAfter names, and none
\* is a second before.
LEMMA RetryAfterRight ==
    ASSUME NEW rows, rows # {}, NEW now \in Nat,
           \A row \in rows : row.at \in Nat /\ row.at >= now - Window,
           NEW back, back = now + RetryAfter(rows, now) * TicksPerSecond
    PROVE  /\ \E row \in rows : row.at < back - Window
           /\ \A row \in rows : row.at >= back - TicksPerSecond - Window
<1>0. Window \in Nat /\ TicksPerSecond \in Nat \ {0}
  BY RLAssumption DEF Window
<1>1. PICK oldest \in Nat : /\ oldest = Min({row.at : row \in rows})
                            /\ \E row \in rows : row.at = oldest
                            /\ \A row \in rows : oldest <= row.at
  <2>1. {row.at : row \in rows} \in SUBSET Nat /\ {row.at : row \in rows} # {}
    OBVIOUS
  <2>2. /\ Min({row.at : row \in rows}) \in {row.at : row \in rows}
        /\ \A y \in {row.at : row \in rows} : Min({row.at : row \in rows}) <= y
    BY <2>1, MinOfNaturals
  <2>. QED
    BY <2>1, <2>2
<1>2. PICK left \in Nat : left = oldest + Window - now
  <2>1. oldest >= now - Window
    BY <1>1
  <2>2. oldest + Window - now \in Nat
    BY <1>0, <2>1
  <2>. QED
    BY <2>2
<1>3. PICK q \in Nat : /\ q = left \div TicksPerSecond
                       /\ q * TicksPerSecond <= left
                       /\ left < (q + 1) * TicksPerSecond
                       /\ (q + 1) * TicksPerSecond = q * TicksPerSecond + TicksPerSecond
  BY <1>0, <1>2, Quotient
<1>4. RetryAfter(rows, now) = q + 1
  <2>1. RetryAfter(rows, now) = IF q + 1 > 1 THEN q + 1 ELSE 1
    BY <1>1, <1>2, <1>3 DEF RetryAfter
  <2>. QED
    BY <1>3, <2>1
<1>5. PICK span \in Nat : span = q * TicksPerSecond
  BY <1>0, <1>3
<1>6. back = now + (span + TicksPerSecond)
  BY <1>3, <1>4, <1>5
<1>7. span <= left /\ left < span + TicksPerSecond
  BY <1>3, <1>5
<1>8. oldest < back - Window
  BY <1>0, <1>2, <1>6, <1>7
<1>9. oldest >= back - TicksPerSecond - Window
  BY <1>0, <1>2, <1>6, <1>7
<1>10. back \in Nat
  BY <1>0, <1>6
<1>11. \A row \in rows : row.at >= back - TicksPerSecond - Window
  <2>. SUFFICES ASSUME NEW row \in rows PROVE row.at >= back - TicksPerSecond - Window
    OBVIOUS
  <2>1. PICK at \in Nat : at = row.at /\ oldest <= at
    BY <1>1
  <2>2. at >= back - TicksPerSecond - Window
    BY <1>0, <1>9, <1>10, <2>1
  <2>. QED
    BY <2>1, <2>2
<1>. QED
  BY <1>1, <1>8, <1>11

\* A step that rejects tells the client the right time to come back.
LEMMA RejectRetryAfter ==
    ASSUME IInv, NEW p \in Procs, Reject(p), NEW r \in Requests,
           status[r] = "checking", status'[r] = "rejected",
           NEW a, a = answer'[r],
           NEW rows, rows = {row \in log : KeyOf[row.req] = KeyOf[r] /\ row.at >= a.at - Window},
           NEW back, back = a.at + a.retryAfter * TicksPerSecond,
           rows # {}
    PROVE  /\ \E row \in rows : row.at < back - Window
           /\ \A row \in rows : row.at >= back - TicksPerSecond - Window
<1>0. TypeOK
  BY DEF IInv
<1>1. PICK op \in Row : /\ Serve(p, op) /\ op.kind = "admission"
                        /\ Decide(op, "rejected",
                              [at |-> op.at, tokens |-> op.tokens,
                               used |-> Charge(InWindow(Retained(op), op)),
                               retryAfter |-> RetryAfter(InWindow(Retained(op), op), op.at)])
  BY DEF Reject
<1>2. op.req \in Requests /\ status[op.req] = "checking" /\ op.at \in Nat
  BY <1>1, ServedStatus DEF Row, Times
<1>3. PICK decision : decision = [at |-> op.at, tokens |-> op.tokens,
                                  used |-> Charge(InWindow(Retained(op), op)),
                                  retryAfter |-> RetryAfter(InWindow(Retained(op), op), op.at)]
  OBVIOUS
<1>4. r = op.req /\ a = decision
  <2>1. /\ status' = [status EXCEPT ![op.req] = "rejected"]
        /\ answer' = [answer EXCEPT ![op.req] = decision]
    BY <1>0, <1>1, <1>2, <1>3 DEF Decide, TypeOK
  <2>2. r = op.req
    BY <1>0, <2>1 DEF TypeOK
  <2>. QED
    BY <1>0, <2>1, <2>2 DEF TypeOK
<1>5. a.at = op.at /\ a.retryAfter = RetryAfter(InWindow(Retained(op), op), op.at)
  BY <1>3, <1>4
<1>6. rows = InWindow(Retained(op), op)
  BY <1>1, <1>4, <1>5, SameWindow DEF Unbounded!InWindow
<1>7. \A row \in rows : row.at \in Nat /\ row.at >= op.at - Window
  BY <1>0, <1>5 DEF TypeOK, Row, Times
<1>. QED
  BY <1>2, <1>5, <1>6, <1>7, RetryAfterRight

\* Whoever is told to come back after Retry-After seconds finds that a row that
\* counted against him has gone, and was not told a second too many.
THEOREM RetryAfterAlwaysTight ==
    ASSUME NEW p \in Procs, Procs = {p} PROVE Spec => RetryAfterTight
<1>1. ASSUME IInv, [Next]_vars PROVE [ComesBackInTime]_vars
  <2>1. ASSUME Reject(p) PROVE ComesBackInTime
    BY <1>1, <2>1, RejectRetryAfter DEF ComesBackInTime
  <2>2. ASSUME NEW r \in Requests, status[r] = "checking", status'[r] = "rejected",
               ~UNCHANGED vars
        PROVE  Reject(p)
    <3>1. ASSUME Admit(p) \/ Correct(p) \/ GiveUp(p) PROVE FALSE
      BY <1>1, <2>2, <3>1 DEF Admit, Correct, GiveUp, Decide, IInv, TypeOK
    <3>2. ASSUME NEW u \in Requests, CheckAndConsume(u, p) \/ Reconcile(u, p) PROVE FALSE
      BY <1>1, <2>2, <3>2 DEF CheckAndConsume, Reconcile, IInv, TypeOK
    <3>3. ~Tick /\ ~Finished
      BY <2>2 DEF Tick, Finished
    <3>. QED
      BY <1>1, <2>2, <3>1, <3>2, <3>3 DEF Next
  <2>. QED
    BY <2>1, <2>2 DEF ComesBackInTime
<1>2. IInv /\ [Next]_vars => [ComesBackInTime]_vars
  BY <1>1
<1>. QED
  BY <1>2, Inductive, PTL DEF Spec, RetryAfterTight

-----------------------------------------------------------------------------
(* Sums.  The charge of a set of rows is a fold over the set in some       *)
(* order.  Facts about it are proved by induction over the subsets of a    *)
(* finite set, for which the library's theorem about minimal elements is   *)
(* enough.                                                                 *)

\* The row that the fold takes first, and the recursion that the fold is.
First(rows) == CHOOSE row \in rows : TRUE
Rest(rows) == rows \ {First(rows)}
Sums(S, f) == f = [rows \in SUBSET S |->
                      IF rows = {} THEN 0 ELSE First(rows).tokens + f[Rest(rows)]]

LEMMA ChargeIsFold == ASSUME NEW S PROVE Charge(S) = (CHOOSE f : Sums(S, f))[S]
BY DEF Charge, MapThenSumSet, MapThenFoldSet, First, Rest, Sums

LEMMA Taken ==
    ASSUME NEW rows, rows # {}
    PROVE  First(rows) \in rows /\ Rest(rows) \subseteq rows /\ Rest(rows) # rows
BY DEF First, Rest

\* Induction: of the subsets of a finite set that go wrong one is the smallest.
LEMMA Smallest ==
    ASSUME NEW S, IsFiniteSet(S), NEW Wrong, Wrong \subseteq SUBSET S, Wrong # {}
    PROVE  \E rows \in Wrong : \A fewer \in Wrong : ~(fewer \subseteq rows /\ fewer # rows)
<1>1. IsWellFoundedOn(StrictSubsetOrdering(S), SUBSET S)
  BY FS_StrictSubsetOrderingWellFounded, FS_FiniteSubsetsOfFinite
<1>2. \E rows \in Wrong : \A fewer \in Wrong : ~(<<fewer, rows>> \in StrictSubsetOrdering(S))
  BY <1>1, WFMin
<1>. QED
  BY <1>2 DEF StrictSubsetOrdering

\* The charge of the subsets of S is what the recursion says.
Unfolds(rows) == Charge(rows) = (IF rows = {} THEN 0 ELSE First(rows).tokens + Charge(Rest(rows)))

\* If it is so for every smaller set, it is so for U.
LEMMA UnfoldsNext ==
    ASSUME NEW U, IsFiniteSet(U), \A s \in SUBSET U : s # U => Unfolds(s)
    PROVE  Unfolds(U)
<1>. DEFINE h == [s \in SUBSET U |-> IF s = {} THEN 0 ELSE First(s).tokens + Charge(Rest(s))]
            g == CHOOSE f : Sums(U, f)
<1>1. \A s \in SUBSET U : s # {} => Rest(s) \in SUBSET U /\ Rest(s) # U /\ Rest(s) \subseteq s
  BY Taken
<1>2. \A s \in SUBSET U : s # U => h[s] = Charge(s)
  BY DEF Unfolds
<1>3. \A s \in SUBSET U : s # {} => h[Rest(s)] = Charge(Rest(s))
  BY <1>1, <1>2
<1>4. Sums(U, h)
  <2>1. \A s \in SUBSET U :
          (IF s = {} THEN 0 ELSE First(s).tokens + Charge(Rest(s)))
             = (IF s = {} THEN 0 ELSE First(s).tokens + h[Rest(s)])
    <3>. HIDE DEF h
    <3>. QED
      BY <1>3
  <2>2. h = [s \in SUBSET U |-> IF s = {} THEN 0 ELSE First(s).tokens + Charge(Rest(s))]
    OBVIOUS
  <2>. HIDE DEF h
  <2>. QED
    BY <2>1, <2>2 DEF Sums
<1>5. Sums(U, g) /\ Charge(U) = g[U]
  BY <1>4, ChargeIsFold
<1>. HIDE DEF g, h
<1>6. \A s \in SUBSET U : g[s] = IF s = {} THEN 0 ELSE First(s).tokens + g[Rest(s)]
  BY <1>5 DEF Sums
<1>7. ASSUME NEW v \in SUBSET U, v # U PROVE g[v] = Charge(v)
  <2>. DEFINE Wrong == {s \in SUBSET U : s # U /\ g[s] # Charge(s)}
  <2>1. SUFFICES ASSUME Wrong # {} PROVE FALSE
    BY <1>7
  <2>2. PICK s \in Wrong : \A fewer \in Wrong : ~(fewer \subseteq s /\ fewer # s)
    <3>1. Wrong \subseteq SUBSET U
      OBVIOUS
    <3>. HIDE DEF Wrong
    <3>. QED
      BY <2>1, <3>1, Smallest
  <2>3. CASE s = {}
    BY <1>6, <2>2, <2>3 DEF Unfolds
  <2>4. CASE s # {}
    <3>1. Rest(s) \subseteq s /\ Rest(s) # s /\ Rest(s) \in SUBSET U /\ Rest(s) # U
      BY <2>2, <2>4, Taken
    <3>2. g[Rest(s)] = Charge(Rest(s))
      BY <2>2, <3>1
    <3>. QED
      BY <1>6, <2>2, <2>4, <3>2 DEF Unfolds
  <2>. QED
    BY <2>3, <2>4
<1>8. CASE U = {}
  BY <1>5, <1>6, <1>8 DEF Unfolds
<1>9. CASE U # {}
  BY <1>1, <1>5, <1>6, <1>7, <1>9 DEF Unfolds
<1>. QED
  BY <1>8, <1>9

\* The recursion has one solution, which is the charge.
LEMMA ChargeUnfolds ==
    ASSUME NEW S, IsFiniteSet(S)
    PROVE  Unfolds(S)
<1>. DEFINE Wrong == {s \in SUBSET S : ~Unfolds(s)}
<1>1. SUFFICES ASSUME Wrong # {} PROVE FALSE
  OBVIOUS
<1>2. PICK s \in Wrong : \A fewer \in Wrong : ~(fewer \subseteq s /\ fewer # s)
  <2>1. Wrong \subseteq SUBSET S /\ IsFiniteSet(S)
    OBVIOUS
  <2>. HIDE DEF Wrong
  <2>. QED
    BY <1>1, <2>1, Smallest
<1>3. IsFiniteSet(s)
  BY <1>2, FS_Subset
<1>. QED
  BY <1>2, <1>3, UnfoldsNext

\* Rows that hold a number of tokens.
Tokened(S) == IsFiniteSet(S) /\ \A row \in S : row.tokens \in Int

LEMMA ChargeTyped ==
    ASSUME NEW S, Tokened(S)
    PROVE  Charge(S) \in Int
<1>. DEFINE Wrong == {s \in SUBSET S : Charge(s) \notin Int}
<1>1. SUFFICES ASSUME Wrong # {} PROVE FALSE
  OBVIOUS
<1>2. PICK s \in Wrong : \A fewer \in Wrong : ~(fewer \subseteq s /\ fewer # s)
  <2>1. Wrong \subseteq SUBSET S /\ IsFiniteSet(S)
    BY DEF Tokened
  <2>. HIDE DEF Wrong
  <2>. QED
    BY <1>1, <2>1, Smallest
<1>3. Unfolds(s)
  BY <1>2, FS_Subset, ChargeUnfolds DEF Tokened
<1>4. CASE s = {}
  BY <1>2, <1>3, <1>4 DEF Unfolds
<1>5. CASE s # {}
  <2>1. First(s) \in S /\ Rest(s) \subseteq s /\ Rest(s) # s /\ Rest(s) \in SUBSET S
    BY <1>2, <1>5, Taken
  <2>2. Charge(Rest(s)) \in Int /\ First(s).tokens \in Int
    BY <1>2, <2>1 DEF Tokened
  <2>. QED
    BY <1>2, <1>3, <1>5, <2>2 DEF Unfolds
<1>. QED
  BY <1>4, <1>5

\* A row adds its tokens, in whatever order the fold takes the rows.
LEMMA ChargeAdds ==
    ASSUME NEW S, Tokened(S), NEW row \in S
    PROVE  Charge(S) = row.tokens + Charge(S \ {row})
<1>. DEFINE Good(s) == \A y \in s : Charge(s) = y.tokens + Charge(s \ {y})
            Wrong == {s \in SUBSET S : ~Good(s)}
<1>1. SUFFICES ASSUME Wrong # {} PROVE FALSE
  OBVIOUS
<1>2. PICK s \in Wrong : \A fewer \in Wrong : ~(fewer \subseteq s /\ fewer # s)
  <2>1. Wrong \subseteq SUBSET S /\ IsFiniteSet(S)
    BY DEF Tokened
  <2>. HIDE DEF Wrong
  <2>. QED
    BY <1>1, <2>1, Smallest
<1>3. \A t \in SUBSET S : Unfolds(t) /\ Charge(t) \in Int
  <2>. TAKE t \in SUBSET S
  <2>1. Tokened(t)
    BY FS_Subset DEF Tokened
  <2>. QED
    BY <2>1, ChargeUnfolds, ChargeTyped DEF Tokened
<1>4. PICK y \in s : Charge(s) # y.tokens + Charge(s \ {y})
  BY <1>2
<1>. DEFINE x == First(s)
<1>5. x \in s /\ Charge(s) = x.tokens + Charge(s \ {x}) /\ x # y
  BY <1>2, <1>3, <1>4, Taken DEF Unfolds, Rest
<1>. HIDE DEF x
<1>6. /\ s \ {x} \in SUBSET S /\ s \ {x} \subseteq s /\ s \ {x} # s /\ y \in s \ {x}
      /\ s \ {y} \in SUBSET S /\ s \ {y} \subseteq s /\ s \ {y} # s /\ x \in s \ {y}
      /\ (s \ {x}) \ {y} = (s \ {y}) \ {x} /\ (s \ {x}) \ {y} \in SUBSET S
  BY <1>2, <1>4, <1>5
<1>7. Good(s \ {x}) /\ Good(s \ {y})
  BY <1>2, <1>6
<1>8. /\ Charge(s \ {x}) = y.tokens + Charge((s \ {x}) \ {y})
      /\ Charge(s \ {y}) = x.tokens + Charge((s \ {x}) \ {y})
  <2>1. Charge(s \ {y}) = x.tokens + Charge((s \ {y}) \ {x})
    BY <1>6, <1>7
  <2>. QED
    BY <1>6, <1>7, <2>1
<1>9. x.tokens \in Int /\ y.tokens \in Int /\ Charge((s \ {x}) \ {y}) \in Int
  BY <1>2, <1>3, <1>4, <1>5, <1>6 DEF Tokened
<1>. HIDE DEF Good
<1>. QED
  BY ONLY <1>4, <1>5, <1>8, <1>9

\* A charge is that of a part and of what remains.
LEMMA ChargeSplits ==
    ASSUME NEW S, Tokened(S), NEW part \in SUBSET S
    PROVE  Charge(S) = Charge(part) + Charge(S \ part)
<1>. DEFINE Good(s) == Charge(S) = Charge(s) + Charge(S \ s)
            Wrong == {s \in SUBSET S : ~Good(s)}
<1>1. SUFFICES ASSUME Wrong # {} PROVE FALSE
  OBVIOUS
<1>2. PICK s \in Wrong : \A fewer \in Wrong : ~(fewer \subseteq s /\ fewer # s)
  <2>1. Wrong \subseteq SUBSET S /\ IsFiniteSet(S)
    BY DEF Tokened
  <2>. HIDE DEF Wrong
  <2>. QED
    BY <1>1, <2>1, Smallest
<1>3. ASSUME NEW t \in SUBSET S PROVE Tokened(t) /\ Charge(t) \in Int
  <2>1. Tokened(t)
    BY FS_Subset DEF Tokened
  <2>. QED
    BY <2>1, ChargeTyped
<1>4. CASE s = {}
  <2>1. S \ s = S /\ Charge({}) = 0 /\ Charge(S) \in Int
    BY <1>3, <1>4, FS_EmptySet, ChargeUnfolds DEF Unfolds
  <2>. QED
    BY <1>2, <1>4, <2>1
<1>5. CASE s # {}
  <2>1. PICK x \in s : TRUE
    BY <1>5
  <2>2. /\ s \ {x} \in SUBSET S /\ s \ {x} \subseteq s /\ s \ {x} # s /\ S \ s \in SUBSET S
        /\ S \ (s \ {x}) \in SUBSET S /\ x \in S \ (s \ {x}) /\ (S \ (s \ {x})) \ {x} = S \ s
    BY <1>2, <2>1
  <2>3. Good(s \ {x})
    BY <1>2, <2>2
  <2>4. Charge(s) = x.tokens + Charge(s \ {x})
    BY <1>2, <1>3, <2>1, ChargeAdds
  <2>5. Charge(S \ (s \ {x})) = x.tokens + Charge((S \ (s \ {x})) \ {x})
    BY <1>3, <2>2, ChargeAdds
  <2>6. x.tokens \in Int /\ Charge(s \ {x}) \in Int /\ Charge(S \ s) \in Int
    BY <1>2, <1>3, <2>1, <2>2 DEF Tokened
  <2>7. Charge(S) = Charge(s \ {x}) + (x.tokens + Charge(S \ s))
    BY <2>2, <2>3, <2>5
  <2>. QED
    BY <1>2, <2>4, <2>6, <2>7
<1>. QED
  BY <1>4, <1>5

LEMMA ChargeNotNegative ==
    ASSUME NEW S, Tokened(S), \A row \in S : row.tokens >= 0
    PROVE  Charge(S) >= 0
<1>. DEFINE Wrong == {s \in SUBSET S : ~(Charge(s) >= 0)}
<1>1. SUFFICES ASSUME Wrong # {} PROVE FALSE
  OBVIOUS
<1>2. PICK s \in Wrong : \A fewer \in Wrong : ~(fewer \subseteq s /\ fewer # s)
  <2>1. Wrong \subseteq SUBSET S /\ IsFiniteSet(S)
    BY DEF Tokened
  <2>. HIDE DEF Wrong
  <2>. QED
    BY <1>1, <2>1, Smallest
<1>3. Tokened(s) /\ Unfolds(s)
  BY <1>2, FS_Subset, ChargeUnfolds DEF Tokened
<1>4. CASE s = {}
  BY <1>2, <1>3, <1>4 DEF Unfolds
<1>5. CASE s # {}
  <2>1. First(s) \in S /\ Rest(s) \subseteq s /\ Rest(s) # s /\ Rest(s) \in SUBSET S /\ Tokened(Rest(s))
    BY <1>2, <1>3, <1>5, Taken, FS_Subset DEF Tokened
  <2>2. Charge(Rest(s)) \in Int /\ Charge(Rest(s)) >= 0 /\ First(s).tokens \in Int /\ First(s).tokens >= 0
    BY <1>2, <2>1, ChargeTyped DEF Tokened
  <2>. QED
    BY <1>2, <1>3, <1>5, <2>2 DEF Unfolds
<1>. QED
  BY <1>4, <1>5

-----------------------------------------------------------------------------
(* The ceiling.                                                            *)

LEMMA RowTyped ==
    ASSUME NEW row \in Row
    PROVE  /\ row.kind \in {"admission", "reconciliation"} /\ row.at \in Nat /\ row.tokens \in Int
           /\ row.kind = "admission" => row.tokens \in Nat
<1>1. Sizes \subseteq Nat /\ Corrections \subseteq Int /\ Times \subseteq Nat
  BY RLAssumption DEF Times
<1>2. CASE row \in [req : Requests, kind : {"admission"}, at : Times, tokens : Sizes]
  <2>1. row.kind = "admission" /\ row.at \in Times /\ row.tokens \in Sizes
    BY <1>2
  <2>2. row.at \in Nat /\ row.tokens \in Nat
    BY <1>1, <2>1, Zenon
  <2>. QED
    BY <2>1, <2>2
<1>3. CASE row \in [req : Requests, kind : {"reconciliation"}, at : Times, tokens : Corrections]
  BY <1>1, <1>3
<1>. QED
  BY <1>2, <1>3 DEF Row

\* What a window holds of admissions and of refunds is within what it holds of
\* all rows.
LEMMA RefundsWithin ==
    ASSUME NEW W, IsFiniteSet(W), W \subseteq Row, Charge(W) <= Limit
    PROVE  Charge({row \in W : row.kind = "admission"})
             + Charge({row \in {r \in W : r.kind = "reconciliation"} : row.tokens < 0}) <= Limit
<1>. DEFINE admissions == {row \in W : row.kind = "admission"}
            corrections == {r \in W : r.kind = "reconciliation"}
            refunds == {row \in corrections : row.tokens < 0}
<1>1. \A row \in W : row.kind \in {"admission", "reconciliation"} /\ row.tokens \in Int
  BY RowTyped
<1>2. /\ admissions \in SUBSET W /\ W \ admissions = corrections
      /\ refunds \in SUBSET corrections /\ \A row \in corrections \ refunds : row.tokens >= 0
  BY <1>1
<1>3. Tokened(W) /\ Tokened(admissions) /\ Tokened(corrections) /\ Tokened(refunds)
      /\ Tokened(corrections \ refunds)
  BY <1>1, FS_Subset DEF Tokened
<1>. HIDE DEF admissions, corrections, refunds
<1>4. Charge(W) = Charge(admissions) + Charge(corrections)
  BY <1>2, <1>3, ChargeSplits
<1>5. Charge(corrections) = Charge(refunds) + Charge(corrections \ refunds)
  BY <1>2, <1>3, ChargeSplits
<1>6. Charge(corrections \ refunds) >= 0
  BY <1>2, <1>3, ChargeNotNegative
<1>7. /\ Charge(admissions) \in Int /\ Charge(corrections) \in Int /\ Charge(refunds) \in Int
      /\ Charge(corrections \ refunds) \in Int /\ Limit \in Int
  BY <1>3, ChargeTyped, RLAssumption
<1>8. Charge(admissions) + Charge(refunds) <= Limit
  BY ONLY <1>4, <1>5, <1>6, <1>7, Charge(W) <= Limit
<1>. QED
  BY <1>8 DEF admissions, corrections, refunds

\* Rows are committed in the order in which their clocks were read.
InCommitOrder ==
    \A row \in log : \A p \in Procs : \A i \in 1..Len(queue[p]) : row.at <= queue[p][i].at

CeilingInv == IInv /\ IsFiniteSet(log) /\ InCommitOrder /\ WindowCeiling

\* Only the log counts.
LEMMA SameLogCeiling ==
    ASSUME WindowCeiling, log' = log
    PROVE  WindowCeiling'
BY DEF WindowCeiling, Before

LEMMA EnqueueOrder ==
    ASSUME CeilingInv, NEW p \in Procs, NEW row \in Row, row.at = clock, Enqueue(p, row), log' = log
    PROVE  InCommitOrder'
<1>1. TypeOK /\ LogInv /\ InCommitOrder /\ queue[p] \in Seq(Row)
  BY DEF CeilingInv, IInv, TypeOK
<1>2. PICK m \in Nat : m = Len(queue[p])
  BY <1>1
<1>3. /\ Len(queue'[p]) = m + 1
      /\ queue'[p][m + 1] = row
      /\ \A i \in 1..m : queue'[p][i] = queue[p][i]
      /\ \A q \in Procs \ {p} : queue'[q] = queue[q]
  BY <1>1, <1>2 DEF Enqueue, TypeOK
<1>. SUFFICES ASSUME NEW old \in log, NEW q \in Procs, NEW i \in 1..Len(queue'[q])
              PROVE  old.at <= queue'[q][i].at
  BY DEF InCommitOrder
<1>4. CASE q = p /\ i = m + 1
  BY <1>1, <1>3, <1>4 DEF LogInv
<1>5. CASE q = p /\ i # m + 1
  <2>1. i \in 1..m
    BY <1>2, <1>3, <1>5
  <2>. QED
    BY <1>1, <1>2, <1>3, <1>5, <2>1 DEF InCommitOrder
<1>6. CASE q # p
  BY <1>1, <1>3, <1>6 DEF InCommitOrder
<1>. QED
  BY <1>4, <1>5, <1>6

LEMMA LeftOrder ==
    ASSUME CeilingInv, NEW p \in Procs, Procs = {p}, NEW i \in 1..Len(queue[p]), Left(p, i),
           log' = log \/ (i = 1 /\ log' = log \cup {queue[p][1]})
    PROVE  InCommitOrder'
<1>1. TypeOK /\ QueueInv /\ InCommitOrder
  BY DEF CeilingInv, IInv
<1>. SUFFICES ASSUME NEW row \in log', NEW q \in Procs, NEW k \in 1..Len(queue'[q])
              PROVE  row.at <= queue'[q][k].at
  BY DEF InCommitOrder
<1>2. PICK h \in 1..Len(queue[p]) \ {i} : queue'[q][k] = queue[p][h]
  BY <1>1, LeftFrom
<1>3. CASE row \in log
  BY <1>1, <1>2, <1>3 DEF InCommitOrder
<1>4. CASE i = 1 /\ row = queue[p][1]
  <2>1. 1 \in 1..(h - 1)
    BY <1>1, <1>2, <1>4, QueueTyped
  <2>. QED
    BY <1>1, <1>2, <1>4, <2>1 DEF QueueInv
<1>. QED
  BY <1>3, <1>4

\* An admission: the windows that end when it was asked for hold what was
\* counted, and itself; the other windows hold what they held.
LEMMA AdmitCeiling ==
    ASSUME CeilingInv, NEW p \in Procs, Procs = {p}, NEW op \in Row, Serve(p, op),
           op.kind = "admission", Fits(op), log' = log \cup {op}
    PROVE  WindowCeiling'
<1>. DEFINE counted == InWindow(Retained(op), op)
            now == counted \cup {op}
<1>0. IInv /\ TypeOK /\ IsFiniteSet(log) /\ InCommitOrder /\ WindowCeiling /\ log \subseteq Row
  BY DEF CeilingInv, IInv, TypeOK
<1>1. counted = {row \in log : KeyOf[row.req] = KeyOf[op.req] /\ row.at >= op.at - Window}
  BY <1>0, SameWindow DEF Unbounded!InWindow
<1>2. \A row \in log : row.at <= op.at
  <2>1. 1 \in 1..Len(queue[p]) /\ op = queue[p][1]
    <3>1. queue[p] \in Seq(Row) /\ queue[p] # <<>> /\ op = Head(queue[p])
      BY <1>0 DEF Serve, TypeOK
    <3>. QED
      BY <3>1
  <2>. QED
    BY <1>0, <2>1 DEF InCommitOrder
<1>3. /\ \A row \in log \cup {op} : row.at \in Nat
      /\ op.at \in Nat /\ Window \in Nat /\ op.tokens \in Nat
  BY <1>0, RLAssumption, RowTyped DEF Window
<1>4. now \subseteq Row /\ IsFiniteSet(now) /\ IsFiniteSet(counted)
  BY <1>0, <1>1, FS_Subset, FS_AddElement
<1>. HIDE DEF counted
<1>5. Charge(now) <= Limit
  <2>1. Tokened(now) /\ Tokened(counted)
    BY <1>4, RowTyped DEF Tokened
  <2>2. Charge(counted) \in Int /\ Charge(counted) + op.tokens <= Limit
    BY <2>1, ChargeTyped DEF Fits, counted
  <2>3. CASE op \in counted
    <3>1. now = counted
      BY <2>3
    <3>. QED
      BY <1>3, <2>2, <3>1, RLAssumption
  <2>4. CASE op \notin counted
    <3>1. now \ {op} = counted /\ op \in now
      BY <2>4
    <3>. HIDE DEF now
    <3>2. Charge(now) = op.tokens + Charge(counted)
      BY <2>1, <3>1, ChargeAdds
    <3>. QED
      BY <1>3, <2>2, <3>2
  <2>. QED
    BY <2>3, <2>4
<1>. SUFFICES ASSUME NEW a \in log', a.kind = "admission"
              PROVE  Charge(Before(a, "admission"))'
                       + Charge({row \in Before(a, "reconciliation") : row.tokens < 0})' <= Limit
  BY DEF WindowCeiling
<1>6. CASE KeyOf[a.req] = KeyOf[op.req] /\ a.at = op.at
  <2>1. \A row \in log \cup {op} : row.at \in (a.at - Window)..a.at <=> row.at >= op.at - Window
    BY <1>2, <1>3, <1>6
  <2>2. \A row : row \in now <=>
            row \in log \cup {op} /\ KeyOf[row.req] = KeyOf[op.req] /\ row.at >= op.at - Window
    BY <1>1, <1>3
  <2>3. /\ Before(a, "admission")' = {row \in now : row.kind = "admission"}
        /\ Before(a, "reconciliation")' = {row \in now : row.kind = "reconciliation"}
    BY <1>6, <2>1, <2>2 DEF Before
  <2>. HIDE DEF now
  <2>. QED
    BY <1>4, <1>5, <2>3, RefundsWithin
<1>7. CASE ~(KeyOf[a.req] = KeyOf[op.req] /\ a.at = op.at)
  <2>1. a \in log /\ a.at <= op.at /\ a.at \in Nat
    BY <1>2, <1>3, <1>7
  <2>2. ~(KeyOf[op.req] = KeyOf[a.req] /\ op.at \in (a.at - Window)..a.at)
    BY <1>3, <1>7, <2>1
  <2>3. \A kind : Before(a, kind)' = Before(a, kind)
    BY <2>2 DEF Before
  <2>. QED
    BY <1>0, <2>1, <2>3 DEF WindowCeiling
<1>. QED
  BY <1>6, <1>7

\* A correction: no window ends with it, and a refund only lowers the sum.
LEMMA CorrectCeiling ==
    ASSUME CeilingInv, NEW op \in Row, op.kind = "reconciliation", log' = log \cup {op}
    PROVE  WindowCeiling'
<1>0. IsFiniteSet(log) /\ WindowCeiling /\ log \subseteq Row
  BY DEF CeilingInv, IInv, TypeOK
<1>. SUFFICES ASSUME NEW a \in log', a.kind = "admission"
              PROVE  Charge(Before(a, "admission"))'
                       + Charge({row \in Before(a, "reconciliation") : row.tokens < 0})' <= Limit
  BY DEF WindowCeiling
<1>. DEFINE admissions == Before(a, "admission")
            refunds == {row \in Before(a, "reconciliation") : row.tokens < 0}
<1>1. a \in log /\ Charge(admissions) + Charge(refunds) <= Limit
  BY <1>0 DEF WindowCeiling
<1>2. admissions' = admissions
  BY DEF Before
<1>3. refunds' = refunds \/ (refunds' = refunds \cup {op} /\ op \notin refunds /\ op.tokens < 0)
  BY DEF Before
<1>4. Tokened(admissions) /\ Tokened(refunds) /\ Tokened(refunds \cup {op}) /\ op.tokens \in Int
  <2>1. refunds \subseteq log /\ admissions \subseteq log
    BY DEF Before
  <2>. HIDE DEF refunds, admissions
  <2>2. IsFiniteSet(refunds) /\ IsFiniteSet(admissions) /\ IsFiniteSet(refunds \cup {op})
    BY <1>0, <2>1, FS_Subset, FS_AddElement
  <2>3. \A row \in log \cup {op} : row.tokens \in Int
    BY <1>0, RowTyped
  <2>. QED
    BY <2>1, <2>2, <2>3 DEF Tokened
<1>5. (Charge(admissions))' = Charge(admissions)
  BY <1>2
<1>6. (Charge(refunds))' = Charge(refunds')
  OBVIOUS
<1>. HIDE DEF refunds, admissions
<1>7. Charge(refunds') <= Charge(refunds) /\ Charge(refunds') \in Int /\ Charge(refunds) \in Int
      /\ Charge(admissions) \in Int /\ Limit \in Int
  <2>1. Charge(refunds) \in Int /\ Charge(admissions) \in Int /\ Limit \in Int
    BY <1>4, ChargeTyped, RLAssumption
  <2>2. CASE refunds' = refunds
    BY <2>1, <2>2
  <2>3. CASE refunds' = refunds \cup {op} /\ op \notin refunds /\ op.tokens < 0
    <3>1. (refunds \cup {op}) \ {op} = refunds /\ op \in refunds \cup {op}
      BY <2>3
    <3>2. Charge(refunds \cup {op}) = op.tokens + Charge(refunds)
      BY <1>4, <3>1, ChargeAdds
    <3>. QED
      BY <1>4, <2>1, <2>3, <3>2
  <2>. QED
    BY <1>3, <2>2, <2>3
<1>. QED
  BY <1>1, <1>5, <1>6, <1>7 DEF refunds, admissions

LEMMA NextCeiling ==
    ASSUME NEW p \in Procs, Procs = {p}, CeilingInv, [Next]_vars
    PROVE  CeilingInv'
<1>0. IInv /\ TypeOK /\ IsFiniteSet(log) /\ InCommitOrder /\ WindowCeiling
  BY DEF CeilingInv, IInv
<1>1. IInv'
  BY <1>0, NextIInv
<1>2. ASSUME NEW op \in Row, Serve(p, op), UNCHANGED clock,
             \A r \in Requests \ {op.req} : status'[r] = status[r],
             log' = log \/ log' = log \cup {op}
      PROVE  InCommitOrder'
  BY <1>0, <1>2, ServeLeft, LeftOrder
<1>3. CASE Admit(p)
  <2>1. PICK op \in Row : /\ Serve(p, op) /\ op.kind = "admission" /\ Fits(op) /\ UNCHANGED clock
                          /\ log' = log \cup {op} /\ \E d : Decide(op, "admitted", d)
    BY <1>3 DEF Admit
  <2>2. \A r \in Requests \ {op.req} : status'[r] = status[r]
    BY <1>0, <2>1 DEF Decide, TypeOK
  <2>3. IsFiniteSet(log')
    BY <1>0, <2>1, FS_AddElement
  <2>. QED
    BY <1>1, <1>2, <2>1, <2>2, <2>3, AdmitCeiling DEF CeilingInv
<1>4. CASE Reject(p)
  <2>1. PICK op \in Row : Serve(p, op) /\ UNCHANGED <<clock, log>> /\ \E d : Decide(op, "rejected", d)
    BY <1>4 DEF Reject
  <2>2. \A r \in Requests \ {op.req} : status'[r] = status[r]
    BY <1>0, <2>1 DEF Decide, TypeOK
  <2>. QED
    BY <1>0, <1>1, <1>2, <2>1, <2>2, SameLogCeiling DEF CeilingInv
<1>5. CASE Correct(p)
  <2>1. PICK op \in Row : /\ Serve(p, op) /\ op.kind = "reconciliation" /\ UNCHANGED clock
                          /\ log' = log \cup {op} /\ status' = [status EXCEPT ![op.req] = "settled"]
    BY <1>5 DEF Correct
  <2>2. \A r \in Requests \ {op.req} : status'[r] = status[r]
    BY <1>0, <2>1 DEF TypeOK
  <2>3. IsFiniteSet(log')
    BY <1>0, <2>1, FS_AddElement
  <2>. QED
    BY <1>1, <1>2, <2>1, <2>2, <2>3, CorrectCeiling DEF CeilingInv
<1>6. CASE GiveUp(p)
  <2>1. PICK i \in DOMAIN queue[p] :
          /\ queue' = [queue EXCEPT ![p] = RemoveAt(@, i)]
          /\ status' = [status EXCEPT ![queue[p][i].req] =
                          IF queue[p][i].kind = "admission" THEN "error" ELSE "settled"]
          /\ UNCHANGED <<clock, table, log, answer>>
    BY <1>6 DEF GiveUp
  <2>2. i \in 1..Len(queue[p]) /\ queue'[p] = RemoveAt(queue[p], i) /\ queue[p] \in Seq(Row)
    BY <1>0, <2>1 DEF TypeOK
  <2>3. /\ Len(queue'[p]) = Len(queue[p]) - 1
        /\ \A k \in 1..Len(queue'[p]) :
              queue'[p][k] = IF k < i THEN queue[p][k] ELSE queue[p][k + 1]
    BY <2>2, RemoveAtFacts
  <2>4. Left(p, i)
    BY <1>0, <2>1, <2>3 DEF Left, TypeOK
  <2>. QED
    BY <1>0, <1>1, <2>1, <2>2, <2>4, LeftOrder, SameLogCeiling DEF CeilingInv
<1>7. ASSUME NEW r \in Requests, CheckAndConsume(r, p) \/ Reconcile(r, p) PROVE CeilingInv'
  <2>1. PICK row \in Row : row.at = clock /\ Enqueue(p, row)
    <3>1. CASE CheckAndConsume(r, p)
      <4>1. PICK n \in Sizes :
              Enqueue(p, [req |-> r, kind |-> "admission", at |-> clock, tokens |-> n])
        BY <3>1 DEF CheckAndConsume
      <4>. QED
        BY <1>0, <4>1 DEF TypeOK, Row
    <3>2. CASE Reconcile(r, p)
      <4>1. PICK d \in Corrections :
              Enqueue(p, [req |-> r, kind |-> "reconciliation", at |-> clock, tokens |-> d])
        BY <3>2 DEF Reconcile
      <4>. QED
        BY <1>0, <4>1 DEF TypeOK, Row
    <3>. QED
      BY <1>7, <3>1, <3>2
  <2>2. log' = log
    BY <1>7 DEF CheckAndConsume, Reconcile
  <2>. QED
    BY <1>0, <1>1, <2>1, <2>2, EnqueueOrder, SameLogCeiling DEF CeilingInv
<1>8. CASE Tick \/ UNCHANGED vars
  <2>1. UNCHANGED <<log, queue>>
    BY <1>8 DEF Tick, vars
  <2>2. InCommitOrder'
    BY <1>0, <2>1 DEF InCommitOrder
  <2>. QED
    BY <1>0, <1>1, <2>1, <2>2, SameLogCeiling DEF CeilingInv
<1>. QED
  BY <1>3, <1>4, <1>5, <1>6, <1>7, <1>8 DEF Next, Finished

\* No key's admissions in any window exceed the limit by more than was refunded
\* in that window, whatever is queued, lost or evicted: what check_and_consume
\* counts is all there is to count (limiter.py), for any limit and window.
THEOREM CeilingAlwaysHolds ==
    ASSUME NEW p \in Procs, Procs = {p} PROVE Spec => []WindowCeiling
<1>1. Init => CeilingInv
  <2>1. Init => IInv /\ log = {}
    BY InitIInv DEF Init
  <2>. QED
    BY <2>1, FS_EmptySet DEF CeilingInv, InCommitOrder, WindowCeiling
<1>2. CeilingInv /\ [Next]_vars => CeilingInv'
  BY NextCeiling
<1>3. CeilingInv => WindowCeiling
  BY DEF CeilingInv
<1>. QED
  BY <1>1, <1>2, <1>3, PTL DEF Spec
=============================================================================
