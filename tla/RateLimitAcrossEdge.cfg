SPECIFICATION SpecLog
CONSTANTS
    Window = 4
    Max = 3
    Horizon = 15
INVARIANTS
    AcrossEdgeBurst
CHECK_DEADLOCK FALSE
