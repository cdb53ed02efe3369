SPECIFICATION FairSpec
CONSTANTS
    e1 = e1
    m1 = m1
    m2 = m2
    right = right
    wrong = wrong
    Endpoints = {e1}
    Emissions = {m1, m2}
    Secrets = {right, wrong}
    MaxTries = 2
    MaxAge = 2
    Subscribed <- MCSubscribed
    RowSecret <- MCRowSecret
    Receivers <- MCReceivers
CHECK_DEADLOCK FALSE
INVARIANTS
    HandledIsSigned
    SuccessIsHandled
    RepeatsAreUnseen
PROPERTY EveryDeliveryEnds
