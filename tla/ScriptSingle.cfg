SPECIFICATION Spec
CONSTANTS
    Calls = {c1, c2, c3}
    Nodes = {n1}
    Home = n1
    Adapters = {"ioredis", "bun"}
    MaxFlushes = 3
    MaxResends = 2
    MayDisconnect = TRUE
SYMMETRY Symmetry
INVARIANTS
    
    NoScriptOnlyIfFlushed
CHECK_DEADLOCK FALSE
