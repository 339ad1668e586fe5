SPECIFICATION FairSpec
CONSTANTS
    o1 = o1
    o2 = o2
    o3 = o3
    Objects <- MCObjects
    Trees = {o1}
    FirstIdxs <- MCFirstIdxs
    OtherIdxs <- MCOtherIdxs
    PackLimit = 2
    MaxSessions = 2
    MaxFaults = 2
    MaxOthers = 1
CHECK_DEADLOCK FALSE
INVARIANTS
    RefComplete
    KnownIsKept
    SuggestionsAreSafe
    InSync
PROPERTIES
    SessionEnds
