SPECIFICATION FairSpec
CONSTANTS
  base = base
  top = top
  v1 = v1
  Keys = {base}
  Requires <- MCRequires
  Tiers = {g}
  Callers = {c1, c2}
  Versions = {v1, v2}
  Saved = v1
  MaxCalls = 2
  MaxChanges = 1
  MaxTrouble = 1
  Nothing = Nothing
INVARIANTS
  AppsAreRecorded
PROPERTIES
  RecordsConverge
