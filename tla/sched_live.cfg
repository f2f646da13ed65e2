SPECIFICATION FairSpec
CONSTANTS
  base = base
  chat = chat
  image = image
  n1 = n1
  n2 = n2
  gpu = gpu
  Models = {chat, image}
  Nodes = {n1}
  Requires <- MCRequires
  Resources = {gpu}
  Need <- MCNeed
  Capacity <- MCCapacity
  MaxArrivals = 2
  MaxTrouble = 1
PROPERTIES
  WaitingIsPlaced
