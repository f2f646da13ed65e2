SPECIFICATION FairSpec
CONSTANTS
  c1 = c1
  c2 = c2
  t1 = t1
  t2 = t2
  Topics = {t1, t2}
  Pinned = {t2}
  Items = {x}
  Clients = {c1, c2}
  Wants <- MCWants
  Stamped = {t1}
  a = a
  b = b
  Recurring = {a, b}
  Before <- MCBefore
  Gone = Gone
  MaxWrites = 2
  MaxFailures = 1
  MaxTasks = 1
INVARIANTS
  TypeOK
  ViewsFollowTheCache
PROPERTIES
  CacheNeverGoesBack
  ViewsConverge
