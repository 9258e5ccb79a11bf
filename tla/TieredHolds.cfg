SPECIFICATION Spec
CONSTANTS
    Instances = {i1, i2}
    Procs = {p1, p2}
    None = None
    Pending = Pending
    Failed = Failed
    Ttl = 2
    MemTtl = 1
    MaxHold = 1
    MaxCalls = 3
    MaxVersion = 1
    MaxInbox = 2
SYMMETRY Symmetry
INVARIANTS
    TypeOK
    Staleness
    OvertakenIsToldOrLost
