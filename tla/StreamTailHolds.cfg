SPECIFICATION FairSpec
CONSTANTS
    Seeds <- LiveAndIds
    Count = 2
    MaxEntries = 5
    MaxDrops = 2
INVARIANTS
    Contiguous
    StartsWhereAsked
PROPERTIES
    AllDelivered
    FollowsTheStream
