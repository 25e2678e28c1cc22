CONSTANTS
    u1 = u1
    u2 = u2
    d1 = d1
    Cases = {1, 2}
    Seeds <- MCSeeds
    Users = {u1, u2}
    NoUser = NoUser
    NoNote = NoNote
    Dispositions = {d1}
    NoDisposition = NoDisposition
    Scores = {30}
    Times = {1}
    Requests = {1, 2, 3}
    Ops <- MCOps
    ActiveUsers = {u1}
    Admins = {u2}
    MaxGrouping = 1
SPECIFICATION Spec
INVARIANTS
    AcceptedIsFresh
    OneRetraction
PROPERTIES
    ImplementsStore
    EveryRequestSettles
CHECK_DEADLOCK FALSE
