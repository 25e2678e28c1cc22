SPECIFICATION Spec
CONSTANTS
    a1 = a1
    a2 = a2
    b1 = b1
    b2 = b2
    k1 = k1
    n1 = n1
    n2 = n2
    NoKey = NoKey
    Alerts = {a1, a2}
    Bodies = {b1, b2}
    HeaderKeys = {k1}
    NaturalKeys = {n1, n2}
    NaturalKey <- SameKeys
    NoHeader = NoKey
    NoBody = NoBody
    NoEntry = NoEntry
    Requests = {r1, r2}
    Batches = {m1, m2}
    Calls <- SomeCalls
    BatchItems <- SomeBatches
    ChunkSize = 2
    MaxTries = 2
    MaxFaults = 2
SYMMETRY Alike
INVARIANTS
    AnsweredIsStored
    CreatedOnce
    EntryNamesStoredAlert
    JobsFindTheirAlerts
    StoredIsTracked
CHECK_DEADLOCK FALSE
