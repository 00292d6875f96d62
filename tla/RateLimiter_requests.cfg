\* One process, as the gateway is deployed: three requests of two keys.
CONSTANTS
    r1 = r1
    r2 = r2
    r3 = r3
    k1 = k1
    k2 = k2
    p1 = p1
    p2 = p2
    Requests = {r1, r2, r3}
    KeyOf <- MCKeyOf
    Sizes = {2}
    Corrections <- UpAndDown
    Procs = {p1}
    Limit = 3
    WindowSeconds = 1
    TicksPerSecond = 2
    MaxClock = 4
SPECIFICATION Spec
INVARIANTS
    EvictionSafe
    WindowCeiling
PROPERTIES
    ImplementsSlidingWindow
    RetryAfterTight
