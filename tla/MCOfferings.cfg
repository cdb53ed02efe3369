SPECIFICATION MCSpec
CONSTANTS
    Requests = {r1, r2, r3}
    o1 = o1
    i1 = i1
    h1 = h1
    h2 = h2
    OfferingIds = {o1}
    WithContract = {o1}
    MaxVersion = 3
    ChainState <- MCChain
    Earlier = {i1}
    Unknown = Unknown
    None = None
    Investor <- MCInvestor
    Amount <- MCAmount
    OfferingOf <- MCOfferingOf
    HasDbProvider = TRUE
    HasStellarClient = TRUE
    ChainBalances <- MCChainBalances
    NoHolder = NoHolder
SYMMETRY MCSymmetry
CHECK_DEADLOCK FALSE
INVARIANTS
    LateIsRace
    RefusalIsRace
    SnapshotIsWhole
    SecondSnapshotIsRace
PROPERTIES
    RegressionIsRace
    SuccessIsFresh
