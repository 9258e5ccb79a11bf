SPECIFICATION FairSpec
CONSTANTS
    Calls = {c1, c2}
    NoOwner = NoOwner
    LockTtl = 2
    WaitTimeout = 4
    Ttl = 1
    MaxHold = 2
    PollInterval = 2
    MaxRound = 1
    MaxFinish = 1
    OnTimeouts = {"compute", "fail"}
    Events <- AllEvents
INVARIANTS
    TypeOK
    SingleFlight
    NoLeakedLock
    NoWaiterTimesOut
PROPERTIES
    LockFreedOnlyByOwner
    LockIsFreed
    GetEnds
