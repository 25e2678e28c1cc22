SPECIFICATION Spec
CONSTANTS
    a1 = a1
    a2 = a2
    a3 = a3
    a4 = a4
    a5 = a5
    Alerts = {a1, a2, a3}
    NoAlert = NoAlert
    Notes = {n1}
    Users = {u1}
    NoUser = NoUser
    Dispositions = {d1}
    NoDisposition = NoDisposition
    SharesKey <- AllPairs
    Similar <- BridgePairs
    Score <- Scores3
    MaxTx = 3
    Concurrency = 1
    MaxVersion = 3
    SeedAlert <- OneSeed
INVARIANTS
    AggregatesAgree
    AlertIsWhereItsLinkIs
    AlertsFollowMerge
CHECK_DEADLOCK FALSE
