SPECIFICATION Spec
CONSTANTS
    s1 = s1
    s2 = s2
    s3 = s3
    c1 = c1
    d1 = d1
    d2 = d2
    o1 = o1
    o2 = o2
    None = None
    NaN = NaN
    Cent = 10
    Drift = 1
    Submissions = {s1, s2}
    Checks = {c1}
    Runs = {d1, d2}
    Offerings = {o1, o2}
    Requests <- MCRequests
    Queries <- MCQueries
    RunInputs <- MCRunInputs
SYMMETRY Interchangeable
CHECK_DEADLOCK FALSE
INVARIANTS
    OverlapsAreRaces
    ConflictIsGenuine
    BalancedCoversReported
