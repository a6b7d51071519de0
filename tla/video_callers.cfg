CONSTANTS
  Coordinators = {a, b}
  Runs = {r1, r2}
  Operations = {o1}
  Requests <- SharedOperation
  MaximumPolls = 1
  TotalTimeout = 1
  MaximumReloads = 1
  MaxClock = 1
  MaxOther = 1
  MaxNumber = 2
  NoOperation = NoOperation
  a = a
  b = b
  r1 = r1
  r2 = r2
  o1 = o1
  o2 = o2
SPECIFICATION Spec
INVARIANTS OneRunPerOperation AnswersAreStored
PROPERTIES PublishedIsKept
SYMMETRY Symmetry
