SPECIFICATION Spec
CONSTANTS
  base = base
  top = top
  v1 = v1
  Keys = {base, top}
  Requires <- MCRequires
  Tiers = {g}
  Callers = {c1}
  Versions = {v1}
  Saved = v1
  MaxCalls = 3
  MaxChanges = 0
  MaxTrouble = 1
  Nothing = Nothing
INVARIANTS
  TypeOK
PROPERTIES
  NothingElseIsLost
  EveryPutStartsAfresh
  RequiredAreThere
