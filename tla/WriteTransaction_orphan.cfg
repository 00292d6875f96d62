SPECIFICATION Spec
CONSTANTS
    t1 = t1
    t2 = t2
    t3 = t3
    p1 = p1
    p2 = p2
    NoTask = NoTask
    Tasks = {t1, t2, t3}
    Procs = {p1}
    ProcOf <- OneProcess
    NumWrites = 2
    CancelPoints = {"lock", "begin", "write", "commit", "rollback"}
    FaultPoints = {}
    Budget <- OneCancel
INVARIANT NoOrphanTransaction
