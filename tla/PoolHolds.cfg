SPECIFICATION FairSpec
CONSTANTS
    Callers = {"a", "b"}
    Slots = {1}
    Sizes = {1, 2}
    MaxCalls = 2
    MaxFaults = 3
INVARIANTS
    TypeOK
    AnswersAreOwn
    SlotsBalance
    BrokenIsRemoved
    LeftoversAreExplained
    RunsAreBounded
PROPERTIES
    SendEnds
CHECK_DEADLOCK FALSE
