CONSTANTS
    u1 = u1
    d1 = d1
    Cases = {1, 2, 3}
    Seeds <- MCSeeds
    Notes = {1}
    NoNote = NoNote
    Users = {u1}
    NoUser = NoUser
    Dispositions = {d1}
    NoDisposition = NoDisposition
    Scores = {30}
    Times = {0, 1, 2}
    Id <- MCId
    Filters <- MCFilters
    Limits = {1, 2}
    MaxLimit = 2
    HighRisk = 30
    Anyone = Anyone
    Unassigned = Unassigned
    MaxChanges = 2
SPECIFICATION ReadersSpec
INVARIANTS
    SteadyListedOnce
    TwiceOnlyWhenMerged
    CountsAgree
    DetailIsExplained
CHECK_DEADLOCK FALSE
