SPECIFICATION Spec
CONSTANTS
  imported = imported
  longer = longer
  saved = saved
  n1 = n1
  f1 = f1
  f2 = f2
  c1 = c1
  c2 = c2
  x = x
  y = y
  Models = {imported, saved}
  RunOf <- MCRunOf
  Shares <- MCShares
  Callers = {c1, c2}
  Nodes = {n1}
  NodeOf <- MCNodeOf
  WeightSets <- MCWeightSets
  Codes = {x, y}
  MayOverlap = FALSE
  MaxCalls = 3
  MaxTrouble = 2
  Nothing = Nothing
INVARIANTS
  TypeOK
  ReadyIsWhole
  NoOrphans
  CacheIsWhole
SYMMETRY MCSymmetry
CHECK_DEADLOCK FALSE
