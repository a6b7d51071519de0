CONSTANTS
  Calls = {"t1", "t2"}
  AskUser = {"t1"}
  Paid = {}
  QueueCap = 2
  BackendKinds = {"started", "call", "finish", "tool_finish"}
  ToolKinds = {"progress", "result"}
  PolicyOutcomes = {"allow", "require"}
  MaxRuns = 1
  MaxInferences = 2
  MaxBackendEvents = 4
  MaxToolEvents = 1
  MaxRestarts = 1
  ThreadFailures = FALSE
  Conforming = TRUE
  DrainModes = {"dispatch_ready"}
  None = "none"
SPECIFICATION ApprovalsSpec
INVARIANT PendingApprovalReopens
CHECK_DEADLOCK FALSE
