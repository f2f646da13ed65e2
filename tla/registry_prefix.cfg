SPECIFICATION Spec
CONSTANTS
  imported = imported
  longer = longer
  saved = saved
  n1 = n1
  f1 = f1
  f2 = f2
  c1 = c1
  c2 = c2
  x = x
  y = y
  Models = {imported, longer}
  RunOf <- MCRunOf
  Shares <- MCShares
  Callers = {c1, c2}
  Nodes = {n1}
  NodeOf <- MCNodeOf
  WeightSets <- MCWeightSets
  Codes = {x}
  MayOverlap = TRUE
  MaxCalls = 2
  MaxTrouble = 0
  Nothing = Nothing
PROPERTIES
  DeletionIsOfOneModel
CHECK_DEADLOCK FALSE
