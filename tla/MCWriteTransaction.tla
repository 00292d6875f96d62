------------------------- MODULE MCWriteTransaction -------------------------
(* Instances of WriteTransaction for TLC: one process, or two that share the *)
(* database file.                                                            *)
EXTENDS WriteTransaction, TLC

CONSTANTS t1, t2, t3, p1, p2

OneProcess == [t \in Tasks |-> p1]
TwoProcesses == [t \in Tasks |-> IF t = t3 THEN p2 ELSE p1]

FewMishaps == [cancel |-> 2, fault |-> 1, crash |-> 1]
MoreCancels == [cancel |-> 3, fault |-> 1, crash |-> 1]
OneCancel == [cancel |-> 1, fault |-> 0, crash |-> 0]
=============================================================================
