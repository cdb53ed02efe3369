SPECIFICATION MCFairSpec
CONSTANTS
    f1 = f1
    f2 = f2
    f3 = f3
    p1 = p1
    p2 = p2
    p3 = p3
    u1 = u1
    u2 = u2
    Stranger = Stranger
    Nobody = Nobody
    Forgots = {f1, f2}
    Resets = {p1, p2}
    Users = {u1}
    BlockedBefore = {u1}
    MaxRequests = 1
    LimiterFaults = TRUE
    PoolSize = 2
CHECK_DEADLOCK FALSE
INVARIANTS
    TokenUsedOnce
    NothingLeaked
PROPERTIES
    ImplementsBook
    EveryResetSettles
