CONSTANTS
    t1 = t1
    Tabs = {t1}
    Callers <- MCCallers
    Limit = 1
    MaxFaults = 1
    Users = {u1, u2}
    Nobody = Nobody
    Stored = {u1}
    Leavers = {u1}
    Calls = {1, 2}
    MaxStarts = 1
SPECIFICATION Spec
INVARIANTS
    LogoutEndsSession
    ServedAsSender
PROPERTIES
    EveryCallSettles
    BucketReopens
CHECK_DEADLOCK FALSE
