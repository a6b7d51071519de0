CONSTANTS
  Coordinators = {a}
  Runs = {r1}
  Operations = {o1, o2}
  Requests <- EitherWorkflow
  MaximumPolls = 2
  TotalTimeout = 2
  MaximumReloads = 1
  MaxClock = 3
  MaxOther = 2
  MaxNumber = 3
  NoOperation = NoOperation
  a = a
  b = b
  r1 = r1
  r2 = r2
  o1 = o1
  o2 = o2
SPECIFICATION FairSpec
INVARIANTS StoredRunsRebuild JobsMatchRuns
PROPERTIES PublishedIsNotRepeated CallsReturn
