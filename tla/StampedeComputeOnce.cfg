SPECIFICATION Spec
CONSTANTS
    Calls = {c1, c2}
    NoOwner = NoOwner
    LockTtl = 4
    WaitTimeout = 3
    Ttl = 9
    MaxHold = 2
    PollInterval = 2
    MaxRound = 1
    MaxFinish = 1
    OnTimeouts = {"fail"}
    Events <- NoEvents
INVARIANTS
    ComputeOnce
