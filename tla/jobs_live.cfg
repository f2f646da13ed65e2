SPECIFICATION FairSpec
CONSTANTS
  jOnce = jOnce
  jRetry = jRetry
  r1 = r1
  Jobs = {jRetry}
  Runs = {r1}
  RunOf <- MCRunOf
  RetryJobs = {jRetry}
  Workers = {w1, w2, w3}
  MaxAttempt = 1
  MaxFaults = 1
  HeadMayRestart = TRUE
  NoJob = NoJob
  NoWorker = NoWorker
  NoCopy = NoCopy
PROPERTIES
  StopQuiets
  ScheduledIsSubmitted
  FailedIsRetried
