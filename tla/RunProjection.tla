---------------------------- MODULE RunProjection ----------------------------
(***************************************************************************)
(* The run projection (src/src/lib/run_projection.cpp): the automaton      *)
(* every recorded run event is applied to before it may enter the session  *)
(* log.  A projection is a record                                          *)
(*     status     the RunStatus,                                           *)
(*     inferring  whether m_active_inference_id is set,                    *)
(*     pending    m_pending_approval_ids.                                  *)
(* Message, usage, cost and provenance bookkeeping is left out.  Every     *)
(* event has an enabling condition, AcceptsX, and an effect, X; the code   *)
(* rejects an event whose condition is false and leaves the projection     *)
(* alone.  Plan statuses are in PlanKernel.                                *)
(***************************************************************************)
EXTENDS FiniteSets

RunOver == {"completed", "failed", "cancelled"}
Statuses == {"not_started", "running", "awaiting_input", "awaiting_approval"}
              \cup RunOver
Projections(Ids) ==
  [status: Statuses, inferring: BOOLEAN, pending: SUBSET Ids]

NotStarted == [status |-> "not_started", inferring |-> FALSE, pending |-> {}]

(* require_running: also the rule for every event with no rule of its own. *)
RequireRunning(p) ==
  p.status \in {"running", "awaiting_input", "awaiting_approval"}

RunStarted == [NotStarted EXCEPT !.status = "running"]

AcceptsInferenceStarted(p) == p.status = "running" /\ ~p.inferring
InferenceStarted(p) == [p EXCEPT !.inferring = TRUE]

(* InferenceFinished, InferenceFailed and InferenceCancelled. *)
AcceptsInferenceEnded(p) == RequireRunning(p) /\ p.inferring
InferenceEnded(p) == [p EXCEPT !.inferring = FALSE]

AcceptsRunAwaitingInput(p) ==
  p.status \in {"running", "awaiting_approval"} /\ ~p.inferring
RunAwaitingInput(p) == [p EXCEPT !.status = "awaiting_input"]

AcceptsRunResumed(p) == p.status = "awaiting_input"
RunResumed(p) ==
  [p EXCEPT !.status = IF p.pending = {} THEN "running" ELSE "awaiting_approval"]

(* ToolApprovalRequested, for all the invocations of C in turn. *)
AcceptsApprovalRequested(p, C) ==
  C # {} => RequireRunning(p) /\ ~p.inferring /\ C \cap p.pending = {}
ApprovalRequested(p, C) ==
  [p EXCEPT !.pending = p.pending \cup C,
            !.status  = IF C # {} /\ p.status = "running" THEN "awaiting_approval"
                        ELSE p.status]

AcceptsApprovalDecided(p, c) ==
  p.status \in {"awaiting_approval", "awaiting_input"} /\ c \in p.pending
ApprovalDecided(p, c) ==
  [p EXCEPT !.pending = p.pending \ {c},
            !.status  = IF p.status = "awaiting_approval" /\ p.pending = {c}
                        THEN "running" ELSE p.status]

AcceptsRunCompleted(p) ==
  RequireRunning(p) /\ ~p.inferring /\ p.pending = {}

(* RunCompleted, RunFailed and RunCancelled; the last two drop what is live. *)
RunEnded(p, outcome) == [status |-> outcome, inferring |-> FALSE, pending |-> {}]
===============================================================================
