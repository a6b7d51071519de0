------------------------- MODULE RunKernelApprovals -------------------------
(***************************************************************************)
(* The run kernel with a history of the user's approvals.  The log keeps an *)
(* approval for as long as it keeps the run; whether it was given to the    *)
(* process that now starts the executor, or to one that died before it did, *)
(* is not in the kernel's state and is what the properties here are about.  *)
(***************************************************************************)
EXTENDS RunKernel

VARIABLE granted  \* "now": approved since the kernel was opened; "kept": before
                  \* that, in a run found waiting; "no": neither

approvalVars == <<vars, granted>>

ApprovalsInit == Init /\ granted = [c \in Calls |-> "no"]

(* A run found waiting for a decision keeps the approvals it has; in one found
   running they were consumed by a start that was cut off. *)
LeftWaiting(c) ==
  granted[c] # "no" /\ kern.proj.status \in {"awaiting_approval", "awaiting_input"}

Grant ==
  \E c \in Calls : DecideApproval(c, TRUE) /\ granted' = [granted EXCEPT ![c] = "now"]
ReopenAndForget ==
  /\ Reopen
  /\ granted' = IF up' = "up" THEN [c \in Calls |-> IF LeftWaiting(c) THEN "kept" ELSE "no"]
                              ELSE granted
Ungranting ==
  \/ BackendWorker \/ ToolWorker \/ DeadlineWorker \/ Drain
  \/ Start \/ ContinueRun \/ CancelRun
  \/ \E c \in Calls : ResolveQuestions(c) \/ DecideApproval(c, FALSE)
  \/ \E how \in {"down", "unusable"} : KernelStops(how)

ApprovalsNext == Grant \/ ReopenAndForget \/ (Ungranting /\ UNCHANGED granted)
ApprovalsSpec == ApprovalsInit /\ [][ApprovalsNext]_approvalVars
FairSpec == ApprovalsSpec /\ Fairness

(***************************************************************************)
(* Properties.                                                             *)
(***************************************************************************)
(* An executor is started for a call that policy allowed by itself, or that the
   user approved: in this process, or in an earlier one that left the run waiting
   for another decision.  An approval consumed before a restart that found the run
   running does not count, and neither does the user's approval of another call. *)
NoToolWithoutAuthority ==
  [][\A c \in Calls : starts'[c] # starts[c] =>
       kern.log[c].policy = "allow" \/ granted[c] # "no"]_approvalVars

(* Why it holds, as an invariant: an approval that is in the log of a run that can
   go on, and not used yet, is one that counts; and so is that of the call whose
   executor is about to be started. *)
Unused(f) == f.approval = "approved" /\ ~f.started /\ f.done = "no"
ApprovalsCount ==
  /\ RequireRunning(kern.proj) =>
       \A c \in Range(kern.order) : Unused(kern.log[c]) => granted[c] # "no"
  /\ pc = "spawn" =>
       \/ kern.log[kern.active.tool].policy = "allow"
       \/ granted[kern.active.tool] # "no"

(***************************************************************************)
(* What the documentation says and the code does not do.                   *)
(***************************************************************************)
(* An approval consumed before an interrupted start is requested again: an
   executor is started on an approval only if the user gave it to this process. *)
ConsumedApprovalIsRenewed ==
  [][\A c \in Calls : starts'[c] # starts[c] =>
       kern.log[c].policy = "allow" \/ granted[c] = "now"]_approvalVars
=============================================================================
