CONSTANTS
  t1 = t1
  t2 = t2
  t3 = t3
  t4 = t4
  r1 = r1
  r2 = r2
  r3 = r3
  r4 = r4
  Nil = Nil
  Revisions <- Pairs
  MaxConcurrency = 2
  MaxAttempts = 2
  MaxPending = 2
  RunnerCapacity = 2
  Reports = {"completed"}
  Launches = {TRUE}
  Stores = {TRUE}
  MaxRuns = 3
  MaxChildren = 2
  MaxRestarts = 0
SPECIFICATION FairSpec
PROPERTIES DrainReturns
CHECK_DEADLOCK FALSE
