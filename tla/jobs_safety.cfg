SPECIFICATION Spec
CONSTANTS
  jOnce = jOnce
  jRetry = jRetry
  r1 = r1
  Jobs = {jRetry}
  Runs = {r1}
  RunOf <- MCRunOf
  RetryJobs = {jRetry}
  Workers = {w1, w2, w3}
  MaxAttempt = 2
  MaxFaults = 1
  HeadMayRestart = FALSE
  NoJob = NoJob
  NoWorker = NoWorker
  NoCopy = NoCopy
INVARIANTS
  TypeOK
  AtMostOneLiveAttempt
  ChainInv
  DoneJobIsQuiet
  HistoryIsFaithful
PROPERTIES
  ImplementsContract
  StopBoundsAttempts
  HistoryOnlyGrows
