SPECIFICATION Spec
CONSTANTS
  A = A
  B = B
  C = C
  o1 = o1
  o2 = o2
  o3 = o3
  o4 = o4
  o5 = o5
  None = None
  Idx <- MCIdx
  Contents <- MCContents
  Writers = {w1, w2}
  Kinds = {"repo", "client"}
  Hwm = 1
  Lwm = 1
  Few = 3
  Enough = 4
  MaxFiles = 2
  MaxFaults = 1
  MaxRemovals = 1
INVARIANT LookupSeesAll
INVARIANT SaysNoMore
INVARIANT SourceIsRight
INVARIANT MidxConverges
CHECK_DEADLOCK FALSE
