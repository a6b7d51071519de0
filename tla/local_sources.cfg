CONSTANTS
  MaxRequest = 3
  Capacity = 2
  Sessions = {s}
  Launches = {"started", "no_source"}
  Nil = Nil
  GrantCapacity = 2
  Roots = {r}
  NoRoot = NoRoot
  Digests = {d1, d2}
  Purposes = {"listing", "selection"}
  MaxEpoch = 2
SPECIFICATION Spec
INVARIANTS LeaseOutlivesReaders LiveWorkIsPending GrantsMatchFolders ContextIsCurrent
CHECK_DEADLOCK FALSE
