SPECIFICATION FairSpec
CONSTANTS
    Numerals <- SomeNumerals
    Infinity = 1000
    Consumers = {"c1", "c2"}
    Claimer = "k"
    Froms <- LiveAndZero
    Poison = {1}
    Count = 2
    ClaimCount = 2
    MinIdle = 3
    MaxHandle = 1
    MaxEntries = 3
    MaxFaults = 1
    Blocks <- SomeBlocks
    Idles <- SomeIdles
INVARIANTS
    TypeOK
    RepeatedOnlyIfUnacked
    RepliesAreTrue
    RequestsSayIt
PROPERTIES
    ImplementsAtLeastOnce
    EveryEntryIsAcked
