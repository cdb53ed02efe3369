SPECIFICATION Spec
CONSTANTS
    f1 = f1
    f2 = f2
    f3 = f3
    p1 = p1
    p2 = p2
    p3 = p3
    u1 = u1
    u2 = u2
    Stranger = Stranger
    Nobody = Nobody
    Forgots = {f1, f2, f3}
    Resets = {p1}
    Users = {u1}
    BlockedBefore = {}
    MaxRequests = 2
    LimiterFaults = FALSE
    PoolSize = 1
SYMMETRY Interchangeable
CHECK_DEADLOCK FALSE
INVARIANTS
    WithinRateLimit
