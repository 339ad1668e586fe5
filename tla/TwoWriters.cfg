SPECIFICATION FairSpec
CONSTANTS
    None = None
    b1 = b1
    b2 = b2
    t1 = t1
    t2 = t2
    c1 = c1
    c2 = c2
    c3 = c3
    Blobs = {b1}
    Trees = {t1}
    Commits = {c1, c2, c3}
    Entries <- SameEntries
    TreeOf <- SameTreeOf
    ParentOf <- GrowParentOf
    Refs = {main}
    Writers = {w1, w2}
    FullPacks <- MCFullPacks
    Thresholds = {50}
    IdxFirst = FALSE
    MaxFaults = 0
INVARIANTS
    RefsComplete
PROPERTIES
    RefsMoveForward
    GcTerminates
    WritersFinish
