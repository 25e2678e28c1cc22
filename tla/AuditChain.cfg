SPECIFICATION Spec
CONSTANTS
    w1 = w1
    w2 = w2
    Writer = {w1, w2}
    Stream = {s1, s2}
    NoStream = NoStream
    Changes = {change1}
    Exported = Exported
    Fragile = {s1}
    MaxSeq = 2
INVARIANTS
    ChainsVerify
    SeqsDoNotCollide
    DamageReported
    FalseAlarmsAreAppends
    ExportsAreAudited
SYMMETRY Symmetry
