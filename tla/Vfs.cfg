SPECIFICATION Spec
CHECK_DEADLOCK FALSE
CONSTANTS
  r = r
  d1 = d1
  f = f
  rel = rel
  abs = abs
  loop = loop
  top = top
  c1 = c1
  c2 = c2
  c3 = c3
  c4 = c4
  None = None
  Node <- MCNode
  Kind <- MCKind
  Entries <- MCEntries
  Target <- MCTarget
  Commit <- MCCommit
  TreeOf <- MCTreeOf
  Prev <- MCPrev
  Sec <- MCSec
  LocalTime <- MCLocalTime
  HasMeta = {c1, c2, c3, c4}
  Branches <- MCBranches
  Tags <- MCTags
  InitRefs <- MCInitRefs
  Moves <- MCMoves
  Requests <- MCRequests
  Base = 2
  MaxHops = 2
  MaxItems = 4
  MaxAsks = 3
INVARIANT AnswersDenote
INVARIANT SavesInOrder
