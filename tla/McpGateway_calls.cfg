\* Two calls that share one connection.
SPECIFICATION FairSpec
CONSTANTS
    c1 = c1
    c2 = c2
    Calls = {c1, c2}
    Requests <- MCRequests
    RoleOf <- MCRoles
    StatusOf <- MCStatus
    None = None
    PoolSize = 1
    Patience = 1
INVARIANTS
    OnlyPermittedReach
    AuditIsTrue
PROPERTIES
    ImplementsRefundDesk
    ForwardedCallEnds
