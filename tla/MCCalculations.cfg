SPECIFICATION MCSpec
CONSTANTS
    DefaultSize = 2
    MaxSize = 3
    Listings <- MCListings
    Callers <- MCCallers
    Sizes <- MCSizes
    Filters <- MCFilters
    Attributes = {1, 2}
    Rows = {1, 2, 3, 4}
    TokenSecrets = {"ours", "other"}
    Ours = "ours"
    Users = {"u", "v"}
    Lifetime = 2
    Tolerance = 1
    Secrets = {s1, s2}
    MaxAge = 1
    Now = 3
INVARIANTS
    WalkSeesAll
    WebhooksAreSigned
    
CHECK_DEADLOCK FALSE
