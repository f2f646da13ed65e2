SPECIFICATION Spec
SYMMETRY Symmetry
CONSTANTS
  Names = {n1}
  MlflowIds = {e1, e2}
  Runs = {r1, r2}
  JobIds = {j1, j2}
  Callers = {c1, c2}
  MaxCalls = 5
  MaxTrouble = 2
  Nothing = Nothing
INVARIANTS
  TypeOK
  NamesAreNotSplit
  DeletedIsGone
PROPERTIES
  FreesOnlyWhatItDeleted
CHECK_DEADLOCK FALSE
