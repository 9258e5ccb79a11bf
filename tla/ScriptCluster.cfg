SPECIFICATION Spec
CONSTANTS
    Calls = {c1}
    Nodes = {n1, n2}
    Home = n1
    Adapters = {"ioredis"}
    MaxFlushes = 0
    MaxResends = 0
    MayDisconnect = FALSE
INVARIANTS
    FallbackSuffices
CHECK_DEADLOCK FALSE
