SPECIFICATION Spec
CONSTANTS
  Machines = {m1, m2}
  AwsHost = m1
  Aliases = {w1, w2}
  HeadRole = HeadRole
  MaxRuns = 4
  MaxTrouble = 2
  Nothing = Nothing
INVARIANTS
  TypeOK
  NothingIsUnrecorded
  JoinedToTheRunningHead
  DoneTellsWhereItStopped
CHECK_DEADLOCK FALSE
