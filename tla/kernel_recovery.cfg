CONSTANTS
  Calls = {"t1", "t2"}
  AskUser = {"t1"}
  Paid = {"t2"}
  QueueCap = 2
  BackendKinds = {"started", "call", "finish", "tool_finish", "cancelled", "failure_cancelled"}
  ToolKinds = {"result"}
  PolicyOutcomes = {"allow", "require", "deny", "malformed"}
  MaxRuns = 1
  MaxInferences = 2
  MaxBackendEvents = 4
  MaxToolEvents = 2
  MaxRestarts = 1
  None = "none"
  ThreadFailures = TRUE
  Conforming = TRUE
  DrainModes = {"dispatch_ready"}
SPECIFICATION FairSpec
INVARIANTS TypeOK KernelMatchesProjection AtMostOnce ProviderOrder
PROPERTIES ContinuationComplete ImplementsLifecycle NoToolWithoutAuthority RunningToolCloses TerminalRunReleased
CHECK_DEADLOCK FALSE
