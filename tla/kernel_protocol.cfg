CONSTANTS
  Calls = {"t1", "t2"}
  AskUser = {}
  Paid = {"t1"}
  QueueCap = 1
  BackendKinds = {"started", "call", "delta", "finish", "tool_finish", "cancelled", "failure", "failure_cancelled"}
  ToolKinds = {"progress", "over_budget", "input", "result", "bad_artifact", "bad_spend"}
  PolicyOutcomes = {"allow", "error", "malformed"}
  MaxRuns = 2
  MaxInferences = 2
  MaxBackendEvents = 4
  MaxToolEvents = 2
  MaxRestarts = 0
  None = "none"
  ThreadFailures = TRUE
  Conforming = FALSE
  DrainModes = {"dispatch_ready", "observe_only"}
SPECIFICATION ApprovalsSpec
INVARIANTS NoCrossTalk JoinCompletes
PROPERTIES RecordedEventsAreAccepted
CHECK_DEADLOCK FALSE
