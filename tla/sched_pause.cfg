SPECIFICATION Spec
CONSTANTS
  base = base
  chat = chat
  image = image
  n1 = n1
  n2 = n2
  gpu = gpu
  Models = {base, chat, image}
  Nodes = {n1, n2}
  Requires <- MCRequires
  Resources = {gpu}
  Need <- MCNeed
  Capacity <- MCCapacity
  MaxArrivals = 1
  MaxTrouble = 0
INVARIANTS
  TypeOK
PROPERTIES
  PausesWholeIdleGroups
  LongestWaitingIsHelped
  NothingIsPausedInVain
