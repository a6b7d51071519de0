CONSTANTS
  Procs = {p, q}
  Calls = {a, b}
  Quote <- MCQuote
  Ceilings = {1, 2}
  Costs = {1}
  MaxInferences = 2
  MaxFaults = 2
  MaxOpens = 2
  None = None
  Unknown = Unknown
  p = p
  q = q
  a = a
  b = b
SYMMETRY MCSymmetry
SPECIFICATION Spec
INVARIANTS StoreReplays MemoryIsStored ChargesAreAccounted
PROPERTY CeilingHolds
CHECK_DEADLOCK FALSE
