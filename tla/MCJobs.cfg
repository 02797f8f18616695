SPECIFICATION FairSpec
CONSTANTS
  w1 = w1
  w2 = w2
  c1 = c1
  d1 = d1
  d2 = d2
  backup = backup
  Workers <- MCWorkers
  Cancellers <- MCCancellers
  Devices <- MCDevices
  Actions <- MCActions
  Retries = 1
  MaxJobs = 2
  MaxCrashes = 1
  FailingSaves <- SavePoints
INVARIANTS
  OneJobPerKey
  OnlyUnsavedLeaks
  EndedMeansFree
PROPERTIES
  NoAttemptAfterCancel
  ImplementsLifecycle
  CancelEndsJob
