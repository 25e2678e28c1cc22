SPECIFICATION Spec
CONSTANTS
    a1 = a1
    a2 = a2
    a3 = a3
    a4 = a4
    a5 = a5
    Alerts = {a1, a2, a3, a4}
    NoAlert = NoAlert
    Notes = {}
    Users = {}
    NoUser = NoUser
    Dispositions = {d1}
    NoDisposition = NoDisposition
    SharesKey <- AllPairs
    Similar <- BridgePairs
    Score <- Scores4
    MaxTx = 5
    Concurrency = 3
    MaxVersion = 1
    SeedAlert <- OneSeed
INVARIANTS
    MergedPointsOlder
    OneDecisionPerAlert
    LiveCaseHasAlerts
PROPERTIES
    RowsMoveToOlderCase
CHECK_DEADLOCK FALSE
