SPECIFICATION SpecLog
CONSTANTS
    Window = 4
    Max = 3
    Horizon = 15
INVARIANTS
    TypeOK
    WeightedBound
    RemainingIsHonest
    RetryBound
    SlidingBound
PROPERTIES
    RefinesIdeal
CHECK_DEADLOCK FALSE
