SPECIFICATION Spec
CHECK_DEADLOCK FALSE
CONSTANTS
  r1 = r1
  r2 = r2
  s = s
  f1 = f1
  g = g
  l = l
  p = p
  b = b
  t = t
  id1 = id1
  id2 = id2
  None = None
  Node <- MCNode
  Kind <- MCKind
  Entries <- MCEntries
  Damages <- MCDamages
  SrcSaves <- MCSaves
  Branches = {b}
  Tags = {t}
  Specs <- MCSpecs
  MaxTargets = 2
  MaxMoves = 1
INVARIANT RefsWhole
INVARIANT SavesAreConverted
INVARIANT TrailersTell
PROPERTY BranchesGrow
