CONSTANTS
  Calls = {"t1", "t2"}
  AskUser = {}
  Paid = {"t2"}
  QueueCap = 1
  BackendKinds = {"started", "call", "tool_finish"}
  ToolKinds = {"result"}
  PolicyOutcomes = {"allow", "require"}
  MaxRuns = 1
  MaxInferences = 2
  MaxBackendEvents = 4
  MaxToolEvents = 1
  MaxRestarts = 1
  None = "none"
  ThreadFailures = FALSE
  Conforming = TRUE
  DrainModes = {"dispatch_ready"}
SPECIFICATION ApprovalsSpec
PROPERTY ConsumedApprovalIsRenewed
CHECK_DEADLOCK FALSE
