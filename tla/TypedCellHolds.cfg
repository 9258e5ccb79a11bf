SPECIFICATION Spec
CONSTANTS
    Numerals <- SomeNumerals
    Infinity = 1000
    Fibers = {f1, f2}
    Kinds = {"ref", "set", "zset", "hash"}
    Items <- CellItems
    Payloads <- CellPayloads
    Ttls <- SomeTtls
    Own = 1
INVARIANTS
    TypeOK
    NoKeyStaysForever
    ReadsAreTrue
    CommandsSayIt
PROPERTIES
    StampedInFull
