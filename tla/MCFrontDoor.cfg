SPECIFICATION MCSpec
CONSTANTS
    r1 = r1
    r2 = r2
    r3 = r3
    r4 = r4
    v1 = v1
    u1 = u1
    ip1 = ip1
    None = None
    Requests = {r1, r2, r3, r4}
    Users = {v1, u1}
    Calls <- MCCalls
    Roles = {"verifier", "investor"}
    Ips = {ip1}
    Before <- MCBefore
    After <- MCAfter
    TtlMs = 2
    MaxTime = 3
    MaxRestarts = 1
    Assigned = {v1}
    Fields = {"email", "sms"}
    Default <- MCDefault
SYMMETRY RequestSymmetry
CHECK_DEADLOCK FALSE
INVARIANTS
    BurstBound
    RefusalIsDue
    LiveSessionOnly
    ValidatedTwiceIsRace
    ValidatedIsAnnounced
PROPERTIES
    StaleFieldIsRace
