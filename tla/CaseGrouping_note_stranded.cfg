SPECIFICATION Spec
CONSTANTS
    a1 = a1
    a2 = a2
    a3 = a3
    a4 = a4
    a5 = a5
    Alerts = {a1, a2, a3}
    NoAlert = NoAlert
    Notes = {n1}
    Users = {}
    NoUser = NoUser
    Dispositions = {d1}
    NoDisposition = NoDisposition
    SharesKey <- AllPairs
    Similar <- AllPairs
    Score <- Scores3
    MaxTx = 3
    Concurrency = 2
    MaxVersion = 1
    SeedAlert <- TwoSeeds
INVARIANTS
    NotesFollowMerge
CHECK_DEADLOCK FALSE
