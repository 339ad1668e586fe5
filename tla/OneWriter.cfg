SPECIFICATION Spec
CONSTANTS
    None = None
    b1 = b1
    b2 = b2
    t1 = t1
    t2 = t2
    c1 = c1
    c2 = c2
    c3 = c3
    Blobs = {b1}
    Trees = {t1, t2}
    Commits = {c1, c2, c3}
    Entries <- EmptyEntries
    TreeOf <- GrowTreeOf
    ParentOf <- GrowParentOf
    Refs = {main}
    Writers = {w1}
    FullPacks <- MCFullPacks
    Thresholds = {10, 50}
    IdxFirst = FALSE
    MaxFaults = 1
INVARIANTS
    TypeOK
    RefsComplete
    ExistsImpliesComplete
    IInv
PROPERTIES
    RefsMoveForward
    GcCollects
    StoreImplemented
