SPECIFICATION Spec
CONSTANTS
    Requests = {r1, r2, r3}
    mixed = mixed
    plain = plain
    malformed = malformed
    strong1 = strong1
    strong2 = strong2
    simple = simple
    short = short
    Addresses = {mixed, plain, malformed}
    Lower <- MCLower
    WellFormed = {mixed, plain}
    Passwords = {strong1, strong2, simple, short}
    Profile <- MCProfile
    Stranger = Stranger
    None = None
SYMMETRY MCSymmetry
CHECK_DEADLOCK FALSE
INVARIANTS
    TwinsAreStartups
    ChangeKnewTheOld
    WeakIsExcused
