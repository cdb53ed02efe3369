SPECIFICATION FairSpec
CONSTANTS
    r1 = r1
    r2 = r2
    r3 = r3
    k1 = k1
    k2 = k2
    Requests = {r1, r2, r3}
    Keys = {k1, k2}
    NoKey = NoKey
    MayExpire = TRUE
CHECK_DEADLOCK FALSE
INVARIANTS
    RepliesAgree
    EffectTwiceIsExcused
PROPERTY ReservationsEnd
