CONSTANTS
  MaxRequest = 2
  Capacity = 2
  Sessions = {s}
  Launches = {"started", "no_source"}
  Nil = Nil
  GrantCapacity = 2
  Roots = {r}
  NoRoot = NoRoot
  Digests = {d1}
  Purposes = {"listing", "selection"}
  MaxEpoch = 2
SPECIFICATION Spec
PROPERTIES RevokedLeasesAreReclaimed CancelledWorkRetires
CHECK_DEADLOCK FALSE
