SPECIFICATION Spec
CONSTANTS
    None = None
    b1 = b1
    b2 = b2
    t1 = t1
    t2 = t2
    c1 = c1
    c2 = c2
    c3 = c3
    Blobs = {b1, b2}
    Trees = {t1, t2}
    Commits = {c1, c2, c3}
    Entries <- GrowEntries
    TreeOf <- GrowTreeOf
    ParentOf <- GrowParentOf
    Refs = {main}
    Writers = {w1}
    FullPacks <- MCFullPacks
    Thresholds = {0}
    IdxFirst = FALSE
    MaxFaults = 0
INVARIANTS
    RefsComplete
