CONSTANTS
    Alerts = {1, 2, 3, 4, 5}
    Payload <- MCPayload
    Stored <- MCStored
    Null = Null
    Rules <- MCRules
    Weights <- MCWeights
    Threshold = 50
    Cap = 3
    Decay <- MCDecay
    NameRatio <- MCNameRatio
    MaxLifecycle = 1
SPECIFICATION Spec
INVARIANTS
    GroupKeyIsLeast
    CapNeverDrops
    SequentialIsBatch
    DecisionIsExplained
PROPERTIES
    ImplementsPartition
CHECK_DEADLOCK FALSE
