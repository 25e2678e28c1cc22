SPECIFICATION Spec
CONSTANTS
    a1 = a1
    a2 = a2
    a3 = a3
    a4 = a4
    a5 = a5
    Alerts = {a1, a2, a3}
    NoAlert = NoAlert
    Notes = {}
    Users = {}
    NoUser = NoUser
    Dispositions = {d1}
    NoDisposition = NoDisposition
    SharesKey <- AllPairs
    Similar <- BridgePairs
    Score <- Scores3
    MaxTx = 3
    Concurrency = 2
    MaxVersion = 3
    SeedAlert <- TwoSeeds
PROPERTIES
    ClosedIsNeverMerged
CHECK_DEADLOCK FALSE
