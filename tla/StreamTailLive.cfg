SPECIFICATION Spec
CONSTANTS
    Seeds <- OnlyLive
    Count = 2
    MaxEntries = 3
    MaxDrops = 0
INVARIANTS
    LiveTailMissesNothing
