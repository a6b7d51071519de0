CONSTANTS
  s1 = s1
  s2 = s2
  t1 = t1
  Nil = Nil
  Sessions = {s1, s2}
  Targets = {t1}
  MaxRequest = 3
  Capacity = 2
  MaxPending = 2
  Launches = {"started"}
  Answers = {"ok", "disconnected"}
  Policies = {"ask"}
  Stores = {TRUE, FALSE}
  Preparations = {"ok"}
  MaxEpoch = 2
  MaxGeneration = 3
  MaxRuns = 2
SYMMETRY Symmetry
SPECIFICATION Spec
INVARIANTS NothingIsStranded ControllerMatchesBroker SourceIsOfThisSession HistoryIsCoherent
PROPERTIES LogsNeedConsent
CHECK_DEADLOCK FALSE
