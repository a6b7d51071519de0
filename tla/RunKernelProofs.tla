--------------------------- MODULE RunKernelProofs ---------------------------
(***************************************************************************)
(* Proofs about the run kernel: its type invariant, and that no tool runs  *)
(* without authority or twice, for any set of calls, any queue and limits, *)
(* any backend and executors, and any number of restarts.                  *)
(***************************************************************************)
EXTENDS RunKernel, TLAPS

(***************************************************************************)
(* The operators on transactions keep their type.                          *)
(***************************************************************************)
(* Counting one more of x. *)
LEMMA CountedType ==
  ASSUME NEW S, NEW f \in [S -> Nat], NEW x
  PROVE  [f EXCEPT ![x] = f[x] + 1] \in [S -> Nat]
<1>1. \A y \in S : f[y] + 1 \in Nat
  OBVIOUS
<1>2. CASE x \in S
  BY <1>1, <1>2
<1>3. CASE x \notin S
  <2>1. [f EXCEPT ![x] = f[x] + 1] = f
    BY <1>3
  <2> QED
    BY <2>1
<1> QED
  BY <1>2, <1>3

(* Appending adds one member to the range of a sequence. *)
LEMMA AppendRange ==
  ASSUME NEW S, NEW q \in Seq(S), NEW x \in S
  PROVE  Range(Append(q, x)) = Range(q) \cup {x}
<1>1. /\ Len(q) \in Nat /\ DOMAIN q = 1..Len(q)
      /\ DOMAIN Append(q, x) = 1..(Len(q) + 1)
      /\ Append(q, x)[Len(q) + 1] = x
      /\ \A i \in 1..Len(q) : Append(q, x)[i] = q[i]
  OBVIOUS
<1>2. 1..(Len(q) + 1) = (1..Len(q)) \cup {Len(q) + 1}
  BY <1>1
<1> QED
  BY <1>1, <1>2 DEF Range

(* No run, or a new one, is an ActiveRun. *)
LEMMA NoActiveType ==
  /\ NoActive \in ActiveRuns /\ [NoActive EXCEPT !.live = TRUE] \in ActiveRuns
  /\ NoInvocations \in [Calls -> InvocationStates]
<1>1. <<>> \in Seq(Calls)
  OBVIOUS
<1>2. NoActive \in ActiveRuns
  BY <1>1 DEF NoActive, ActiveRuns
<1>3. [NoActive EXCEPT !.live = TRUE] \in ActiveRuns
  BY <1>2 DEF ActiveRuns
<1> QED
  BY <1>2, <1>3 DEF NoInvocations, InvocationStates

(* What active.reset() leaves is a Transaction. *)
LEMMA ResetType ==
  ASSUME NEW t \in Transactions
  PROVE  ResetActive(t) \in Transactions
  BY NoActiveType DEF ResetActive, Transactions

(* record_spend_disposition leaves the facts of a call. *)
LEMMA ReconciledType ==
  ASSUME NEW f \in CallFacts
  PROVE  Reconciled(f) \in CallFacts
  BY DEF Reconciled, CallFacts

(* record_tool_error leaves a Transaction. *)
LEMMA ToolErrorType ==
  ASSUME NEW t \in Transactions, NEW C
  PROVE  RecordToolError(t, C) \in Transactions
<1>1. \A c \in Calls : t.log[c] \in CallFacts
  BY DEF Transactions
<1>2. \A c \in Calls : [Reconciled(t.log[c]) EXCEPT !.done = "error"] \in CallFacts
  BY <1>1, ReconciledType DEF CallFacts
<1>3. [c \in Calls |-> IF c \in C THEN [Reconciled(t.log[c]) EXCEPT !.done = "error"]
                       ELSE t.log[c]] \in [Calls -> CallFacts]
  BY <1>1, <1>2
<1>4. [c \in Calls |-> IF c \in C THEN "terminal" ELSE t.state[c]]
        \in [Calls -> InvocationStates]
  BY DEF Transactions, InvocationStates
<1> QED
  BY <1>3, <1>4 DEF RecordToolError, Transactions

(* A projection that has ended, in any of the three ways, is a projection. *)
LEMMA EndedType ==
  ASSUME NEW p, NEW outcome \in RunOver
  PROVE  RunEnded(p, outcome) \in Projections(Calls)
  BY DEF RunEnded, RunOver, Projections, Statuses

(* fail_live_run leaves a Transaction. *)
LEMMA FailType ==
  ASSUME NEW t \in Transactions
  PROVE  FailLiveRun(t) \in Transactions
<1>1. RunEnded(t.proj, "failed") \in Projections(Calls)
  BY EndedType DEF RunOver
<1>2. [c \in Calls |-> IF c = t.active.tool THEN Reconciled(t.log[c]) ELSE t.log[c]]
        \in [Calls -> CallFacts]
  BY ReconciledType DEF Transactions
<1>3. [c \in Calls |-> IF c = t.active.tool THEN "terminal" ELSE t.state[c]]
        \in [Calls -> InvocationStates]
  BY DEF Transactions, InvocationStates
<1>4. [t.active EXCEPT !.backendDone = TRUE, !.ackExpected = TRUE, !.over = TRUE]
        \in ActiveRuns
  BY DEF Transactions, ActiveRuns
<1> QED
  BY <1>1, <1>2, <1>3, <1>4 DEF FailLiveRun, Transactions

(* A handler that fails the run, or is dropped, leaves a Transaction. *)
LEMMA FailOrDropType ==
  ASSUME kern \in Transactions, NEW t \in Transactions
  PROVE  FailOrDrop(t) \in Transactions
  BY FailType DEF FailOrDrop

(* The end of the inference leaves a Transaction. *)
LEMMA BetweenType ==
  ASSUME NEW t \in Transactions
  PROVE  BetweenInferences(t) \in Transactions
<1>1. <<>> \in Seq(Calls)
  OBVIOUS
<1>2. [t.active EXCEPT !.inference = FALSE, !.response = FALSE, !.backendDone = FALSE,
                       !.ackExpected = FALSE, !.calls = <<>>] \in ActiveRuns
  BY <1>1 DEF Transactions, ActiveRuns
<1> QED
  BY <1>2 DEF BetweenInferences, Transactions

(* What policy decides of a call, unless it is malformed, is recorded. *)
LEMMA JudgedType ==
  ASSUME NEW f \in CallFacts, NEW o \in Outcomes \ {"malformed"}
  PROVE  Judged(f, o) \in CallFacts
  BY DEF Judged, CallFacts, Outcomes

(* Requesting approvals leaves a projection. *)
LEMMA RequestedType ==
  ASSUME NEW p \in Projections(Calls), NEW C \in SUBSET Calls
  PROVE  ApprovalRequested(p, C) \in Projections(Calls)
  BY DEF ApprovalRequested, Projections, Statuses

(* Recording policy decisions of well-formed outcomes leaves a Transaction. *)
LEMMA PolicyType ==
  ASSUME NEW t \in Transactions, NEW C \in SUBSET Calls, NEW out,
         \A c \in C : out[c] \in Outcomes \ {"malformed"}
  PROVE  ApplyPolicy(t, C, out) \in Transactions
<1> DEFINE requested == {c \in C : out[c] = "require"}
<1>1. ApprovalRequested(t.proj, requested) \in Projections(Calls)
  BY RequestedType DEF Transactions
<1>2. [c \in Calls |-> IF c \in C THEN Judged(t.log[c], out[c]) ELSE t.log[c]]
        \in [Calls -> CallFacts]
  BY JudgedType DEF Transactions
<1>3. [c \in Calls |-> IF c \in requested THEN "awaiting_approval"
                       ELSE IF c \in C /\ out[c] = "allow" THEN "allowed"
                       ELSE t.state[c]] \in [Calls -> InvocationStates]
  BY DEF Transactions, InvocationStates
<1> DEFINE u == [t EXCEPT
       !.proj = ApprovalRequested(t.proj, requested),
       !.log = [c \in Calls |-> IF c \in C THEN Judged(t.log[c], out[c]) ELSE t.log[c]],
       !.state = [c \in Calls |-> IF c \in requested THEN "awaiting_approval"
                                 ELSE IF c \in C /\ out[c] = "allow" THEN "allowed"
                                 ELSE t.state[c]]]
<1>4. u \in Transactions
  BY <1>1, <1>2, <1>3 DEF Transactions
<1> QED
  BY <1>4, ToolErrorType DEF ApplyPolicy

(* evaluate_pending_policies leaves a Transaction. *)
LEMMA EvaluateType ==
  ASSUME kern \in Transactions, NEW t \in Transactions, NEW out \in [Calls -> Outcomes]
  PROVE  EvaluatePolicies(t, out) \in Transactions
<1> DEFINE proposed == {i \in DOMAIN t.order : t.state[t.order[i]] = "proposed"}
           malformed == {i \in proposed : out[t.order[i]] = "malformed"}
           before == {t.order[i] : i \in {j \in proposed : \A m \in malformed : j < m}}
<1>1. t.order \in Seq(Calls)
  BY DEF Transactions
<1>2. \A i \in DOMAIN t.order : t.order[i] \in Calls /\ i \in Nat
  BY <1>1
<1>3. before \in SUBSET Calls
  BY <1>2
<1>4. \A c \in before : out[c] \in Outcomes \ {"malformed"}
  BY <1>2
<1>5. ApplyPolicy(t, before, out) \in Transactions
  BY <1>3, <1>4, PolicyType
<1> QED
  BY <1>5, FailType DEF EvaluatePolicies

(***************************************************************************)
(* The type invariant.                                                     *)
(***************************************************************************)
(* Every update is an Update record. *)
LEMMA UpdateType ==
  ASSUME TypeOK, NEW c \in Calls \cup {None},
         NEW k \in BackendEvents \cup BackendFailures \cup ToolEvents \cup
                   {"backend_ended", "tool_failure", "tool_ended", "deadline"}
  PROVE  Update(k, c) \in Updates
  BY DEF TypeOK, Update, Updates

(* push() keeps the queue a bounded sequence of updates. *)
LEMMA PushType ==
  ASSUME TypeOK, NEW u \in Updates, Push(u)
  PROVE  queue' \in Seq(Updates) /\ Len(queue') <= QueueCap
<1>1. Len(queue') = Len(queue) + 1 /\ queue' \in Seq(Updates)
  BY DEF TypeOK, Push
<1>2. Len(queue) \in Nat /\ QueueCap \in Nat /\ Len(queue) < QueueCap
  BY KernelAssumption DEF TypeOK, Push
<1> QED
  BY <1>1, <1>2

(* The workers' steps keep every type. *)
LEMMA BackendWorkerType ==
  ASSUME TypeOK, BackendWorker
  PROVE  TypeOK'
<1>1. ASSUME NEW k \in BackendEvents, NEW c \in Calls \cup {None}, BackendDelivers(k, c)
      PROVE  TypeOK'
  <2>1. queue' \in Seq(Updates) /\ Len(queue') <= QueueCap
    BY <1>1, UpdateType, PushType DEF BackendDelivers
  <2>2. backend'.sent \in Seq(BackendEvents \cup Calls \cup {"any"})
    BY <1>1 DEF BackendDelivers, TypeOK
  <2>3. backend' \in [at: {"off", "run", "ending"},
                      sent: Seq(BackendEvents \cup Calls \cup {"any"})]
    BY <1>1, <2>2 DEF BackendDelivers, TypeOK
  <2> QED
    BY <1>1, <2>1, <2>3 DEF BackendDelivers, TypeOK
<1>2. ASSUME NEW k \in BackendFailures, BackendFails(k)
      PROVE  TypeOK'
  <2>1. queue' \in Seq(Updates) /\ Len(queue') <= QueueCap
    BY <1>2, UpdateType, PushType DEF BackendFails
  <2>2. backend' \in [at: {"off", "run", "ending"},
                      sent: Seq(BackendEvents \cup Calls \cup {"any"})]
    BY <1>2 DEF BackendFails, TypeOK
  <2> QED
    BY <1>2, <2>1, <2>2 DEF BackendFails, TypeOK
<1>3. ASSUME BackendEnds
      PROVE  TypeOK'
  <2>1. queue' \in Seq(Updates) /\ Len(queue') <= QueueCap
    BY <1>3, UpdateType, PushType DEF BackendEnds
  <2>2. <<>> \in Seq(BackendEvents \cup Calls \cup {"any"})
    OBVIOUS
  <2>3. backend' \in [at: {"off", "run", "ending"},
                      sent: Seq(BackendEvents \cup Calls \cup {"any"})]
    BY <1>3, <2>2 DEF BackendEnds, IdleBackend
  <2> QED
    BY <1>3, <2>1, <2>3 DEF BackendEnds, TypeOK
<1>4. "call" \in BackendEvents
  BY DEF BackendEvents
<1> QED
  BY <1>1, <1>2, <1>3, <1>4 DEF BackendWorker

(* The steps of the tool worker keep TypeOK. *)
LEMMA ToolWorkerType ==
  ASSUME TypeOK, ToolWorker \/ DeadlineWorker
  PROVE  TypeOK'
<1>0. worker.call \in Calls \cup {None}
  BY DEF TypeOK
<1>1. ASSUME NEW k \in ToolEvents, ToolDelivers(k)
      PROVE  TypeOK'
  <2>1. queue' \in Seq(Updates) /\ Len(queue') <= QueueCap
    BY <1>0, <1>1, UpdateType, PushType DEF ToolDelivers
  <2> DEFINE WorkerType ==
        [at: {"off", "run", "ending"}, sent: Nat, call: Calls \cup {None}]
  <2>2. worker' \in WorkerType
    <3>1. worker \in WorkerType /\ worker' = [worker EXCEPT !.sent = worker.sent + 1]
      BY <1>1 DEF ToolDelivers, TypeOK
    <3> QED
      BY <3>1
  <2> QED
    BY <1>1, <2>1, <2>2 DEF ToolDelivers, TypeOK
<1>2. ASSUME ToolFails
      PROVE  TypeOK'
  <2>1. queue' \in Seq(Updates) /\ Len(queue') <= QueueCap
    BY <1>0, <1>2, UpdateType, PushType DEF ToolFails
  <2> QED
    BY <1>2, <2>1 DEF ToolFails, TypeOK
<1>3. ASSUME ToolEnds
      PROVE  TypeOK'
  <2>1. queue' \in Seq(Updates) /\ Len(queue') <= QueueCap
    BY <1>0, <1>3, UpdateType, PushType DEF ToolEnds
  <2> QED
    BY <1>3, <2>1 DEF ToolEnds, TypeOK
<1>4. ASSUME DeadlinePasses
      PROVE  TypeOK'
  BY <1>4 DEF DeadlinePasses, TypeOK
<1>5. ASSUME DeadlinePushes
      PROVE  TypeOK'
  <2>1. queue' \in Seq(Updates) /\ Len(queue') <= QueueCap
    BY <1>0, <1>5, UpdateType, PushType DEF DeadlinePushes
  <2> QED
    BY <1>5, <2>1 DEF DeadlinePushes, TypeOK
<1> QED
  BY <1>1, <1>2, <1>3, <1>4, <1>5 DEF ToolWorker, DeadlineWorker

(* Processing an update keeps every type if its transaction is one. *)
LEMMA ProcessingType ==
  ASSUME TypeOK, NEW K, Processing(K), kern' \in Transactions,
         pc' \in {"ready", "launch"}, deadline' \in {"off", "armed", "firing"}
  PROVE  TypeOK'
<1>1. batch' \in Seq(Updates)
  BY DEF Processing, TypeOK
<1> QED
  BY <1>1 DEF Processing, TypeOK

(* Proposing the calls of a response leaves a Transaction. *)
LEMMA ProposedType ==
  ASSUME kern \in Transactions
  PROVE  Proposed(Range(kern.active.calls)) \in Transactions
<1>1. InferenceEnded(kern.proj) \in Projections(Calls)
  BY DEF InferenceEnded, Projections, Transactions
<1>2. [c \in Calls |-> IF c \in Range(kern.active.calls)
                       THEN [kern.log[c] EXCEPT !.proposed = TRUE]
                       ELSE kern.log[c]] \in [Calls -> CallFacts]
  <2>1. \A f \in CallFacts : [f EXCEPT !.proposed = TRUE] \in CallFacts
    BY DEF CallFacts
  <2> QED
    BY <2>1 DEF Transactions
<1>3. [c \in Calls |-> IF c \in Range(kern.active.calls) THEN "proposed"
                       ELSE kern.state[c]] \in [Calls -> InvocationStates]
  BY DEF Transactions, InvocationStates
<1>4. /\ kern.active.calls \in Seq(Calls)
      /\ [kern.active EXCEPT !.backendDone = TRUE] \in ActiveRuns
  BY DEF Transactions, ActiveRuns
<1> QED
  BY <1>1, <1>2, <1>3, <1>4 DEF Proposed, Transactions

(* The backend's updates leave a Transaction. *)
LEMMA BackendUpdateType ==
  ASSUME TypeOK,
         ProcessBackendEvent \/ ProcessToolCallFinish \/ ProcessBackendStop
  PROVE  kern' \in Transactions
<1>0. kern \in Transactions /\ FailOrDrop(kern) \in Transactions
  BY FailOrDropType DEF TypeOK
<1>1. ASSUME NEW o \in {"completed", "cancelled"}
      PROVE  RunStops(o) \in Transactions
  <2>1. RunEnded(kern.proj, o) \in Projections(Calls)
    BY EndedType DEF RunOver
  <2>2. [kern.active EXCEPT !.backendDone = TRUE, !.over = TRUE] \in ActiveRuns
    BY <1>0 DEF Transactions, ActiveRuns
  <2> QED
    BY <1>0, <2>1, <2>2 DEF RunStops, Transactions
<1>2. CASE ProcessBackendEvent
  <2>1. [kern EXCEPT !.active.response = TRUE] \in Transactions
    BY <1>0 DEF Transactions, ActiveRuns
  <2>2. ASSUME Update1.call \in Calls
        PROVE  [kern EXCEPT !.active.calls = Append(kern.active.calls, Update1.call)]
                 \in Transactions
    <3>1. Append(kern.active.calls, Update1.call) \in Seq(Calls)
      BY <1>0, <2>2 DEF Transactions, ActiveRuns
    <3> QED
      BY <1>0, <3>1 DEF Transactions, ActiveRuns
  <2> QED
    BY <1>0, <1>1, <1>2, <2>1, <2>2 DEF ProcessBackendEvent, FreshCall
<1>3. CASE ProcessToolCallFinish
  <2>1. Proposed(Range(kern.active.calls)) \in Transactions
    BY <1>0, ProposedType
  <2>2. \A bad : RecordToolError(Proposed(Range(kern.active.calls)), bad) \in Transactions
    BY <2>1, ToolErrorType
  <2> QED
    BY <1>0, <1>3, <2>2 DEF ProcessToolCallFinish
<1>4. CASE ProcessBackendStop
  <2>1. Acknowledged \in Transactions
    BY <1>0 DEF Acknowledged, Transactions, ActiveRuns
  <2> QED
    BY <1>0, <1>1, <1>4, <2>1 DEF ProcessBackendStop
<1> QED
  BY <1>2, <1>3, <1>4

(* Recording a disposition of the spend, or a result, leaves a Transaction. *)
LEMMA DispositionType ==
  ASSUME kern \in Transactions, NEW c, NEW d \in Dispositions(c)
  PROVE  /\ [kern EXCEPT !.log[c].spend = d] \in Transactions
         /\ RecordToolResult(kern, c, d) \in Transactions
<1>1. c \in Calls => d \in {"none", "reserved", "released", "finalized", "reconcile"}
  BY DEF Dispositions, Transactions, CallFacts
<1>2. /\ [kern.log EXCEPT ![c].spend = d] \in [Calls -> CallFacts]
      /\ [kern.log EXCEPT ![c] = [kern.log[c] EXCEPT !.spend = d, !.done = "result"]]
            \in [Calls -> CallFacts]
  <2>1. ASSUME NEW f \in CallFacts,
               d \in {"none", "reserved", "released", "finalized", "reconcile"}
        PROVE  /\ [f EXCEPT !.spend = d] \in CallFacts
               /\ [f EXCEPT !.spend = d, !.done = "result"] \in CallFacts
    BY <2>1 DEF CallFacts
  <2> QED
    BY <1>1, <2>1 DEF Transactions
<1>3. [kern.state EXCEPT ![c] = "terminal"] \in [Calls -> InvocationStates]
  BY DEF Transactions, InvocationStates
<1> QED
  BY <1>2, <1>3 DEF RecordToolResult, Transactions

(* The updates of a tool leave a Transaction. *)
LEMMA ToolUpdateType ==
  ASSUME TypeOK,
         ProcessToolUpdate \/ ProcessToolResult \/ ProcessToolFailure \/ ProcessDeadline
  PROVE  kern' \in Transactions
<1>0. kern \in Transactions /\ FailOrDrop(kern) \in Transactions
  BY FailOrDropType DEF TypeOK
<1>1. \A C : RecordToolError(kern, C) \in Transactions
  BY <1>0, ToolErrorType
<1>2. \A C : FailOrDrop(RecordToolError(kern, C)) \in Transactions
  BY <1>0, <1>1, FailOrDropType
<1>3. ASSUME NEW c, NEW d \in Dispositions(c)
      PROVE  /\ [kern EXCEPT !.log[c].spend = d] \in Transactions
             /\ RecordToolResult(kern, c, d) \in Transactions
  BY <1>0, <1>3, DispositionType
<1>4. CASE ProcessToolUpdate
  <2>1. ASSUME Update1.call \in AskUser
        PROVE  [kern EXCEPT !.proj = RunAwaitingInput(kern.proj), !.question = Update1.call,
                            !.state[Update1.call] = "awaiting_input"] \in Transactions
    <3>1. RunAwaitingInput(kern.proj) \in Projections(Calls)
      BY <1>0 DEF RunAwaitingInput, Projections, Statuses, Transactions
    <3>2. Update1.call \in Calls
      BY <2>1, KernelAssumption
    <3>3. [kern.state EXCEPT ![Update1.call] = "awaiting_input"] \in [Calls -> InvocationStates]
      BY <1>0 DEF Transactions, InvocationStates
    <3> QED
      BY <1>0, <3>1, <3>2, <3>3 DEF Transactions
  <2> QED
    BY <1>0, <1>1, <1>2, <1>4, <2>1 DEF ProcessToolUpdate
<1>5. CASE ProcessToolResult
  BY <1>0, <1>3, <1>5 DEF ProcessToolResult
<1>6. CASE ProcessToolFailure
  <2>1. \A c : \A d \in Dispositions(c) :
          RecordToolError([kern EXCEPT !.log[c].spend = d], {c}) \in Transactions
    BY <1>3, ToolErrorType
  <2> QED
    BY <1>0, <1>2, <1>6, <2>1 DEF ProcessToolFailure
<1>7. CASE ProcessDeadline
  BY <1>0, <1>1, <1>7 DEF ProcessDeadline
<1> QED
  BY <1>4, <1>5, <1>6, <1>7

(* Every step of a drain that processes an update keeps every type. *)
LEMMA ProcessUpdateType ==
  ASSUME TypeOK, ProcessUpdate
  PROVE  TypeOK'
<1>0. kern \in Transactions /\ deadline \in {"off", "armed", "firing"}
  BY DEF TypeOK
<1>1. CASE ProcessBackendEvent \/ ProcessToolCallFinish \/ ProcessBackendStop
  <2>1. kern' \in Transactions
    BY <1>1, BackendUpdateType
  <2>2. \E K : Processing(K) /\ pc' = "ready" /\ deadline' = deadline
    BY <1>1 DEF ProcessBackendEvent, ProcessToolCallFinish, ProcessBackendStop, Processing
  <2> QED
    BY <1>0, <2>1, <2>2, ProcessingType
<1>2. CASE ProcessToolUpdate \/ ProcessToolResult \/ ProcessToolFailure \/ ProcessDeadline
  <2>1. kern' \in Transactions
    BY <1>2, ToolUpdateType
  <2>2. \E K : Processing(K) /\ pc' = "ready" /\ deadline' = deadline
    BY <1>2 DEF ProcessToolUpdate, ProcessToolResult, ProcessToolFailure, ProcessDeadline,
                Processing
  <2> QED
    BY <1>0, <2>1, <2>2, ProcessingType
<1>3. CASE ProcessBackendEnded
  <2>1. PICK out \in [Calls -> PolicyOutcomes] :
          LET t == IF Streaming THEN FailLiveRun(kern) ELSE kern
              done == IF ~Inferring THEN kern
                      ELSE IF t.active.over THEN ResetActive(t)
                      ELSE EvaluatePolicies(BetweenInferences(t), out) IN
          kern' = done /\ LaunchIfDispatching(done)
    BY <1>3 DEF ProcessBackendEnded
  <2> DEFINE t == IF Streaming THEN FailLiveRun(kern) ELSE kern
  <2>2. out \in [Calls -> Outcomes]
    BY KernelAssumption
  <2>3. t \in Transactions
    BY <1>0, FailType
  <2>4. ResetActive(t) \in Transactions
    BY <2>3, ResetType
  <2>5. EvaluatePolicies(BetweenInferences(t), out) \in Transactions
    BY <1>0, <2>2, <2>3, BetweenType, EvaluateType
  <2>6. kern' \in Transactions
    BY <1>0, <2>1, <2>4, <2>5
  <2>7. pc' \in {"ready", "launch"}
    BY <2>1 DEF LaunchIfDispatching
  <2>8. Processing({"backend_ended"}) /\ deadline' = deadline
    BY <1>3 DEF ProcessBackendEnded
  <2> QED
    BY <1>0, <2>6, <2>7, <2>8, ProcessingType
<1>4. CASE ProcessToolEnded
  <2> DEFINE c == Update1.call
             t == IF kern.state[c] \in {"terminal", "awaiting_input"} THEN kern
                  ELSE RecordToolError(kern, {c})
             closed == [t EXCEPT !.active.tool = None]
             done == IF ~ForActiveTool THEN kern
                     ELSE IF closed.active.over THEN ResetActive(closed) ELSE closed
  <2>1. t \in Transactions
    BY <1>0, ToolErrorType
  <2>2. closed \in Transactions
    BY <2>1 DEF Transactions, ActiveRuns
  <2>3. done \in Transactions
    BY <1>0, <2>2, ResetType
  <2>4. /\ Processing({"tool_ended"}) /\ kern' = done /\ LaunchIfDispatching(done)
        /\ deadline' = IF ForActiveTool THEN "off" ELSE deadline
    BY <1>4 DEF ProcessToolEnded
  <2>5. pc' \in {"ready", "launch"}
    BY <2>4 DEF LaunchIfDispatching
  <2> QED
    BY <1>0, <2>3, <2>4, <2>5, ProcessingType
<1> QED
  BY <1>1, <1>2, <1>3, <1>4 DEF ProcessUpdate

(* The tool ready_tool() finds is an allowed call. *)
LEMMA ReadyToolIsAllowed ==
  ASSUME NEW t \in Transactions, ReadyTool(t) # None
  PROVE  /\ ReadyTool(t) \in Calls /\ t.state[ReadyTool(t)] = "allowed"
         /\ t.active.tool = None
<1>1. PICK i \in Open(t) : t.state[t.order[i]] = "allowed" /\ \A j \in Open(t) : i <= j
  BY DEF ReadyTool
<1>2. t.active.tool = None
  BY DEF ReadyTool
<1>3. t.order \in Seq(Calls)
  BY DEF Transactions
<1>4. \A k \in Open(t) : k \in Nat /\ t.order[k] \in Calls
  BY <1>3 DEF Open
<1>5. ReadyTool(t) = t.order[CHOOSE k \in Open(t) : \A j \in Open(t) : k <= j]
  BY DEF ReadyTool
<1>6. (CHOOSE k \in Open(t) : \A j \in Open(t) : k <= j) = i
  <2>1. \A k \in Open(t) : (\A j \in Open(t) : k <= j) => k = i
    BY <1>1, <1>4
  <2> QED
    BY <1>1, <2>1
<1> QED
  BY <1>1, <1>2, <1>4, <1>5, <1>6

(* Releasing the reservation of a tool that could not be spawned. *)
LEMMA SpawnFailedType ==
  ASSUME kern \in Transactions, NEW c
  PROVE  [kern EXCEPT
            !.log[c].spend = IF kern.log[c].spend = "reserved" THEN "released"
                             ELSE kern.log[c].spend,
            !.active.tool = None] \in Transactions
<1>1. \A f \in CallFacts :
        [f EXCEPT !.spend = IF f.spend = "reserved" THEN "released" ELSE f.spend]
          \in CallFacts
  BY DEF CallFacts
<1>2. [kern.log EXCEPT ![c].spend = IF kern.log[c].spend = "reserved" THEN "released"
                                    ELSE kern.log[c].spend] \in [Calls -> CallFacts]
  BY <1>1 DEF Transactions
<1>3. [kern.active EXCEPT !.tool = None] \in ActiveRuns
  BY DEF Transactions, ActiveRuns
<1> QED
  BY <1>2, <1>3 DEF Transactions

(* The rest of a drain, and the launches, keep every type. *)
LEMMA DrainType ==
  ASSUME TypeOK, Drain
  PROVE  TypeOK'
<1>0. kern \in Transactions /\ None \notin Calls
  BY KernelAssumption DEF TypeOK
<1>1. ASSUME NEW m \in DrainModes, DrainSwap(m)
      PROVE  TypeOK'
  <2>1. <<>> \in Seq(Updates) /\ Len(<<>>) <= QueueCap
    BY KernelAssumption
  <2> QED
    BY <1>1, <2>1, KernelAssumption DEF DrainSwap, TypeOK
<1>2. CASE DrainLaunch
  <2>1. kern' \in Transactions
    <3>1. [kern.active EXCEPT !.recovered = FALSE] \in ActiveRuns
      BY <1>0 DEF Transactions, ActiveRuns
    <3>2. kern' = [kern EXCEPT !.active = [kern.active EXCEPT !.recovered = FALSE]]
      BY <1>2 DEF DrainLaunch
    <3> QED
      BY <1>0, <3>1, <3>2 DEF Transactions
  <2> QED
    BY <1>2, <2>1 DEF DrainLaunch, TypeOK
<1>3. CASE ProcessUpdate
  BY <1>3, ProcessUpdateType
<1>4. CASE LaunchNextTool
  <2> DEFINE c == ReadyTool(kern)
  <2>1. c # None => c \in Calls
    BY <1>0, ReadyToolIsAllowed
  <2>2. ASSUME c # None
        PROVE  Launched(kern, c) \in Transactions
    <3>1. [kern.log EXCEPT ![c] = [kern.log[c] EXCEPT
                !.started = TRUE,
                !.spend = IF c \in Paid THEN "reserved" ELSE kern.log[c].spend]]
            \in [Calls -> CallFacts]
      <4>1. \A f \in CallFacts :
              [f EXCEPT !.started = TRUE,
                        !.spend = IF c \in Paid THEN "reserved" ELSE f.spend] \in CallFacts
        BY DEF CallFacts
      <4> QED
        BY <1>0, <2>1, <2>2, <4>1 DEF Transactions
    <3>2. [kern.state EXCEPT ![c] = "running"] \in [Calls -> InvocationStates]
      BY <1>0 DEF Transactions, InvocationStates
    <3>3. [kern.active EXCEPT !.tool = c] \in ActiveRuns
      BY <1>0, <2>1, <2>2 DEF Transactions, ActiveRuns
    <3> QED
      BY <1>0, <3>1, <3>2, <3>3 DEF Launched, Transactions
  <2>3. RecordToolError(kern, {c}) \in Transactions
    BY <1>0, ToolErrorType
  <2>4. kern' \in Transactions /\ pc' \in {"ready", "spawn"}
    BY <1>0, <1>4, <2>2, <2>3 DEF LaunchNextTool
  <2> QED
    BY <1>4, <2>4 DEF LaunchNextTool, TypeOK
<1>5. CASE SpawnTool
  <2>1. kern.active.tool \in Calls \cup {None}
    BY <1>0 DEF Transactions, ActiveRuns
  <2>2. starts' \in [Calls -> Nat]
    <3>1. starts \in [Calls -> Nat]
      BY DEF TypeOK
    <3>2. starts' = [starts EXCEPT ![kern.active.tool] = starts[kern.active.tool] + 1]
      BY <1>5 DEF SpawnTool
    <3> QED
      BY <3>1, <3>2, CountedType
  <2> QED
    BY <1>5, <2>1, <2>2 DEF SpawnTool, TypeOK
<1>6. CASE SpawnToolFails
  <2> DEFINE c == kern.active.tool
             t == [kern EXCEPT
                     !.log[c].spend = IF kern.log[c].spend = "reserved" THEN "released"
                                      ELSE kern.log[c].spend,
                     !.active.tool = None]
  <2>1. t \in Transactions
    BY <1>0, SpawnFailedType
  <2>2. kern' \in Transactions
    BY <1>6, <2>1, ToolErrorType DEF SpawnToolFails
  <2> QED
    BY <1>6, <2>2 DEF SpawnToolFails, TypeOK
<1>7. CASE SpawnBackend
  <2>1. <<>> \in Seq(BackendEvents \cup Calls \cup {"any"})
    OBVIOUS
  <2>2. backend' \in [at: {"off", "run", "ending"},
                      sent: Seq(BackendEvents \cup Calls \cup {"any"})]
    BY <1>7, <2>1 DEF SpawnBackend
  <2> QED
    BY <1>7, <2>2 DEF SpawnBackend, TypeOK
<1>8. CASE SpawnBackendFails
  <2>1. kern' \in Transactions
    BY <1>0, <1>8, FailType DEF SpawnBackendFails
  <2> QED
    BY <1>8, <2>1 DEF SpawnBackendFails, TypeOK
<1> QED
  BY <1>1, <1>2, <1>3, <1>4, <1>5, <1>6, <1>7, <1>8 DEF Drain

(* An inference starts from a Transaction with one. *)
LEMMA BeginType ==
  ASSUME NEW t \in Transactions
  PROVE  BeginInference(t) \in Transactions
<1>1. InferenceStarted(t.proj) \in Projections(Calls)
  BY DEF InferenceStarted, Projections, Transactions
<1>2. NoInvocations \in [Calls -> InvocationStates] /\ <<>> \in Seq(Calls)
  BY DEF NoInvocations, InvocationStates
<1>3. [t.active EXCEPT !.inference = TRUE, !.cancelRequested = FALSE] \in ActiveRuns
  BY DEF Transactions, ActiveRuns
<1> QED
  BY <1>1, <1>2, <1>3 DEF BeginInference, Transactions

(* A new run is a Transaction. *)
LEMMA StartedType ==
  ASSUME kern \in Transactions
  PROVE  [kern EXCEPT !.proj = RunStarted, !.question = None,
                      !.active = [NoActive EXCEPT !.live = TRUE]] \in Transactions
<1>1. RunStarted \in Projections(Calls)
  BY DEF RunStarted, NotStarted, Projections, Statuses
<1> QED
  BY <1>1, NoActiveType DEF Transactions

(* A decided approval leaves a Transaction. *)
LEMMA DecidedType ==
  ASSUME kern \in Transactions, NEW c \in Calls, NEW v \in {"approved", "refused"}
  PROVE  [kern EXCEPT !.proj = ApprovalDecided(kern.proj, c), !.log[c].approval = v]
           \in Transactions
<1>1. ApprovalDecided(kern.proj, c) \in Projections(Calls)
  BY DEF ApprovalDecided, Projections, Statuses, Transactions
<1>2. \A f \in CallFacts : [f EXCEPT !.approval = v] \in CallFacts
  BY DEF CallFacts
<1>3. [kern.log EXCEPT ![c].approval = v] \in [Calls -> CallFacts]
  BY <1>2 DEF Transactions
<1> QED
  BY <1>1, <1>3 DEF Transactions

(* The calls of the surface keep every type. *)
LEMMA SurfaceType ==
  ASSUME TypeOK, Surface
  PROVE  TypeOK'
<1>0. kern \in Transactions
  BY DEF TypeOK
<1> DEFINE CountType == [runs: Nat, inferences: Nat, restarts: Nat]
<1>c. count \in CountType
  BY DEF TypeOK
<1>1. CASE Start
  <2> DEFINE t == [kern EXCEPT !.proj = RunStarted, !.question = None,
                               !.active = [NoActive EXCEPT !.live = TRUE]]
  <2>3. t \in Transactions
    BY <1>0, StartedType
  <2>4. kern' \in Transactions
    BY <1>1, <2>3, BeginType DEF Start
  <2>5. count' \in CountType
    <3>1. count' = [count EXCEPT !.runs = count.runs + 1,
                                 !.inferences = count.inferences + 1]
      BY <1>1 DEF Start
    <3>2. count.runs + 1 \in Nat /\ count.inferences + 1 \in Nat
      BY <1>c
    <3> QED
      BY <1>c, <3>1, <3>2
  <2> QED
    BY <1>1, <2>4, <2>5 DEF Start, TypeOK
<1>2. CASE ContinueRun
  <2>1. kern' \in Transactions
    BY <1>0, <1>2, BeginType DEF ContinueRun
  <2>2. count' \in CountType
    <3>1. count' = [count EXCEPT !.inferences = count.inferences + 1]
      BY <1>2 DEF ContinueRun
    <3> QED
      BY <1>c, <3>1
  <2> QED
    BY <1>2, <2>1, <2>2 DEF ContinueRun, TypeOK
<1>3. CASE CancelRun
  <2> DEFINE requested == [kern EXCEPT !.active.cancelRequested = TRUE]
             open == {kern.order[i] : i \in Open(kern)}
             ended == [RecordToolError(requested, open) EXCEPT
                         !.proj = RunEnded(kern.proj, "cancelled"),
                         !.active = [requested.active EXCEPT !.over = TRUE]]
  <2>1. requested \in Transactions
    BY <1>0 DEF Transactions, ActiveRuns
  <2>2. RunEnded(kern.proj, "cancelled") \in Projections(Calls)
    BY EndedType DEF RunOver
  <2>3. [requested.active EXCEPT !.over = TRUE] \in ActiveRuns
    BY <2>1 DEF Transactions, ActiveRuns
  <2>4. RecordToolError(requested, open) \in Transactions
    BY <2>1, ToolErrorType
  <2>5. ended \in Transactions
    BY <2>2, <2>3, <2>4 DEF Transactions
  <2>6. ResetActive(ended) \in Transactions
    BY <2>5, ResetType
  <2>7. kern' \in Transactions
    BY <1>3, <2>1, <2>5, <2>6 DEF CancelRun
  <2> QED
    BY <1>3, <2>7 DEF CancelRun, TypeOK
<1>4. ASSUME NEW c \in Calls, NEW b \in BOOLEAN, DecideApproval(c, b)
      PROVE  TypeOK'
  <2> DEFINE decided(v) == [kern EXCEPT !.proj = ApprovalDecided(kern.proj, c),
                                        !.log[c].approval = v]
  <2>2. \A v \in {"approved", "refused"} : decided(v) \in Transactions
    BY <1>0, DecidedType
  <2>3. [decided("approved") EXCEPT !.state[c] = "allowed"] \in Transactions
    BY <2>2 DEF Transactions, InvocationStates
  <2>4. RecordToolError(decided("refused"), {c}) \in Transactions
    BY <2>2, ToolErrorType
  <2>5. kern' \in Transactions
    BY <1>4, <2>3, <2>4 DEF DecideApproval
  <2>6. starts' \in [Calls -> Nat]
    BY <1>4 DEF DecideApproval, TypeOK
  <2> QED
    BY <1>4, <2>5, <2>6 DEF DecideApproval, TypeOK
<1>5. ASSUME NEW c \in Calls, ResolveQuestions(c)
      PROVE  TypeOK'
  <2>1. RunResumed(kern.proj) \in Projections(Calls)
    BY <1>0 DEF RunResumed, Projections, Statuses, Transactions
  <2>2. [kern.log EXCEPT ![c].done = "result"] \in [Calls -> CallFacts]
    <3>1. \A f \in CallFacts : [f EXCEPT !.done = "result"] \in CallFacts
      BY DEF CallFacts
    <3> QED
      BY <1>0, <3>1 DEF Transactions
  <2>3. [kern.state EXCEPT ![c] = "terminal"] \in [Calls -> InvocationStates]
    BY <1>0 DEF Transactions, InvocationStates
  <2>4. kern' \in Transactions
    BY <1>0, <1>5, <2>1, <2>2, <2>3 DEF ResolveQuestions, Transactions
  <2> QED
    BY <1>5, <2>4 DEF ResolveQuestions, TypeOK
<1> QED
  BY <1>1, <1>2, <1>3, <1>4, <1>5 DEF Surface

(* open_durable gives every call of the last batch a state, or rejects. *)
LEMMA RecoveredStateType ==
  ASSUME NEW t \in Transactions, NEW c \in Calls
  PROVE  RecoveredState(t, c) \in {"terminal", "awaiting_input", "awaiting_approval",
                                   "allowed", "none"}
  BY DEF RecoveredState

(* A recovered run is a Transaction. *)
LEMMA RecoverType ==
  ASSUME NEW t \in Transactions, ~ReplayRejects(t)
  PROVE  Recover(t) \in Transactions
<1> DEFINE states == [c \in Calls |-> IF c \in Range(t.order) THEN RecoveredState(t, c)
                                      ELSE "absent"]
           recovered == UnstartedAuthority(t)
                          /\ \E c \in Range(t.order) : states[c] = "allowed"
<1>1. t.order \in Seq(Calls)
  BY DEF Transactions
<1>2. Range(t.order) \subseteq Calls
  BY <1>1 DEF Range
<1>3. Renewed(t) \in SUBSET Calls
  BY <1>2 DEF Renewed
<1>4. ApprovalRequested(t.proj, Renewed(t)) \in Projections(Calls)
  BY <1>3, RequestedType DEF Transactions
<1>5. [c \in Calls |-> IF c \in Renewed(t) THEN [t.log[c] EXCEPT !.approval = "requested"]
                       ELSE t.log[c]] \in [Calls -> CallFacts]
  <2>1. \A f \in CallFacts : [f EXCEPT !.approval = "requested"] \in CallFacts
    BY DEF CallFacts
  <2> QED
    BY <2>1 DEF Transactions
<1>6. states \in [Calls -> InvocationStates]
  <2>1. \A c \in Range(t.order) : RecoveredState(t, c) # "none"
    BY DEF ReplayRejects
  <2>2. \A c \in Range(t.order) : RecoveredState(t, c) \in InvocationStates
    BY <1>2, <2>1, RecoveredStateType DEF InvocationStates
  <2> QED
    BY <2>2 DEF InvocationStates
<1>7. [NoActive EXCEPT !.live = TRUE, !.recovered = recovered] \in ActiveRuns
  BY NoActiveType DEF ActiveRuns
<1> QED
  BY <1>4, <1>5, <1>6, <1>7 DEF Recover, Transactions

(* Settling what a crash interrupted leaves a Transaction. *)
LEMMA SettleType ==
  ASSUME NEW t \in Transactions
  PROVE  SettleInterrupted(t) \in Transactions
<1>1. RunEnded(t.proj, "failed") \in Projections(Calls)
  BY EndedType DEF RunOver
<1>2. ASSUME NEW f \in CallFacts
      PROVE  [f EXCEPT !.spend = IF f.started THEN "reconcile" ELSE "released",
                       !.done = "error"] \in CallFacts
  BY DEF CallFacts
<1>3. [c \in Calls |->
         IF c \in Interrupted(t)
         THEN [t.log[c] EXCEPT !.spend = IF t.log[c].started THEN "reconcile" ELSE "released",
                               !.done = "error"]
         ELSE t.log[c]] \in [Calls -> CallFacts]
  BY <1>2 DEF Transactions
<1> QED
  BY <1>1, <1>3 DEF SettleInterrupted, Transactions

(* Stopping and reopening keep every type. *)
LEMMA RestartType ==
  ASSUME TypeOK, Reopen \/ \E how \in {"down", "unusable"} : KernelStops(how)
  PROVE  TypeOK'
<1>0. kern \in Transactions /\ count \in [runs: Nat, inferences: Nat, restarts: Nat]
  BY DEF TypeOK
<1>1. ASSUME NEW how \in {"down", "unusable"}, KernelStops(how)
      PROVE  TypeOK'
  <2>1. kern' \in Transactions
    BY <1>0, <1>1, ResetType DEF KernelStops
  <2>2. /\ <<>> \in Seq(Updates) /\ Len(<<>>) <= QueueCap
        /\ <<>> \in Seq(BackendEvents \cup Calls \cup {"any"})
    BY KernelAssumption
  <2>3. count' \in [runs: Nat, inferences: Nat, restarts: Nat]
    <3>1. count' = [count EXCEPT !.restarts = count.restarts + 1]
      BY <1>1 DEF KernelStops
    <3> QED
      BY <1>0, <3>1
  <2>4. /\ IdleBackend \in [at: {"off", "run", "ending"},
                            sent: Seq(BackendEvents \cup Calls \cup {"any"})]
        /\ IdleWorker \in [at: {"off", "run", "ending"}, sent: Nat, call: Calls \cup {None}]
    BY <2>2 DEF IdleBackend, IdleWorker
  <2> QED
    BY <1>1, <2>1, <2>2, <2>3, <2>4 DEF KernelStops, TypeOK
<1>2. CASE Reopen
  <2> DEFINE t == SettleInterrupted(kern)
  <2>1. t \in Transactions
    BY <1>0, SettleType
  <2>2. ~ReplayRejects(t) => Recover(t) \in Transactions
    BY <2>1, RecoverType
  <2>3. kern' \in Transactions /\ up' \in {"up", "rejected"}
    BY <1>0, <1>2, <2>1, <2>2 DEF Reopen
  <2> QED
    BY <1>2, <2>3 DEF Reopen, TypeOK
<1> QED
  BY <1>1, <1>2

(* The kernel's steps keep every type. *)
LEMMA TypeStep == TypeOK /\ [Next]_vars => TypeOK'
<1> SUFFICES ASSUME TypeOK, [Next]_vars
             PROVE  TypeOK'
  OBVIOUS
<1>1. CASE UNCHANGED vars
  BY <1>1 DEF vars, TypeOK
<1>2. CASE Next
  BY <1>2, BackendWorkerType, ToolWorkerType, DrainType, SurfaceType, RestartType DEF Next
<1> QED
  BY <1>1, <1>2

(* The initial state has every type. *)
LEMMA TypeInit == Init => TypeOK
<1> SUFFICES ASSUME Init
             PROVE  TypeOK
  OBVIOUS
<1>1. /\ <<>> \in Seq(Updates) /\ <<>> \in Seq(Calls) /\ Len(<<>>) <= QueueCap
      /\ <<>> \in Seq(BackendEvents \cup Calls \cup {"any"})
  BY KernelAssumption
<1>2. NotStarted \in Projections(Calls)
  BY DEF NotStarted, Projections, Statuses
<1>3. [c \in Calls |-> Unproposed] \in [Calls -> CallFacts]
  BY DEF Unproposed, CallFacts
<1>4. kern \in Transactions
  BY <1>1, <1>2, <1>3, NoActiveType DEF Init, EmptyLog, Transactions
<1>5. /\ backend \in [at: {"off", "run", "ending"},
                      sent: Seq(BackendEvents \cup Calls \cup {"any"})]
      /\ worker \in [at: {"off", "run", "ending"}, sent: Nat, call: Calls \cup {None}]
  BY <1>1 DEF Init, IdleBackend, IdleWorker
<1> QED
  BY <1>1, <1>4, <1>5 DEF Init, TypeOK

(* In every behaviour of the kernel every variable keeps its type, and the queue
   never holds more than limits.pending_updates (push(), run_kernel.cpp). *)
THEOREM TypeCorrect == Spec => []TypeOK
  BY TypeInit, TypeStep, PTL DEF Spec

(***************************************************************************)
(* Authority.  Good(t) is the part of AuthorityInv about a transaction;    *)
(* SameStarts says that an operator starts no tool.                        *)
(***************************************************************************)
Good(t) == LogAgrees(t) /\ StreamedCallsAreNew(t)
SameStarts(t, u) == \A c \in Calls : u.log[c].started = t.log[c].started

(* Dropping the run forgets states and streamed calls, and no event. *)
LEMMA ResetGood ==
  ASSUME NEW t \in Transactions, Good(t)
  PROVE  Good(ResetActive(t)) /\ SameStarts(t, ResetActive(t))
<1> DEFINE u == ResetActive(t)
<1>1. u.log = t.log /\ u.active = NoActive /\ \A c \in Calls : u.state[c] = "absent"
  BY DEF ResetActive, NoInvocations, Transactions
<1>2. LogAgrees(u)
  BY <1>1 DEF Good, LogAgrees, FactsAgree
<1>3. StreamedCallsAreNew(u)
  BY <1>1 DEF StreamedCallsAreNew, NoActive, Range
<1> QED
  BY <1>1, <1>2, <1>3 DEF Good, SameStarts

(* Closing calls with an error changes no fact about their authority. *)
LEMMA ToolErrorGood ==
  ASSUME NEW t \in Transactions, Good(t), NEW C
  PROVE  Good(RecordToolError(t, C)) /\ SameStarts(t, RecordToolError(t, C))
<1> DEFINE u == RecordToolError(t, C)
<1>1. u.active = t.active
  BY DEF RecordToolError, Transactions
<1>2. ASSUME NEW c \in Calls
      PROVE  /\ u.log[c].proposed = t.log[c].proposed /\ u.log[c].policy = t.log[c].policy
             /\ u.log[c].approval = t.log[c].approval /\ u.log[c].started = t.log[c].started
             /\ u.state[c] \in {t.state[c], "terminal"}
  BY DEF RecordToolError, Reconciled, Transactions, CallFacts
<1>3. LogAgrees(u)
  BY <1>2 DEF Good, LogAgrees, FactsAgree, Authorised
<1>4. StreamedCallsAreNew(u)
  <2>1. t.active.calls \in Seq(Calls)
    BY DEF Transactions, ActiveRuns
  <2>2. Range(t.active.calls) \subseteq Calls
    BY <2>1 DEF Range
  <2> QED
    BY <1>1, <1>2, <2>2 DEF Good, StreamedCallsAreNew
<1> QED
  BY <1>2, <1>3, <1>4 DEF Good, SameStarts

(* Failing the run changes no fact about authority. *)
LEMMA FailGood ==
  ASSUME NEW t \in Transactions, Good(t)
  PROVE  Good(FailLiveRun(t)) /\ SameStarts(t, FailLiveRun(t))
<1> DEFINE u == FailLiveRun(t)
<1>1. u.active.backendDone
  BY DEF FailLiveRun, Transactions, ActiveRuns
<1>2. ASSUME NEW c \in Calls
      PROVE  /\ u.log[c].proposed = t.log[c].proposed /\ u.log[c].policy = t.log[c].policy
             /\ u.log[c].approval = t.log[c].approval /\ u.log[c].started = t.log[c].started
             /\ u.state[c] \in {t.state[c], "terminal"}
  BY DEF FailLiveRun, Reconciled, Transactions, CallFacts
<1>3. LogAgrees(u)
  BY <1>2 DEF Good, LogAgrees, FactsAgree, Authorised
<1> QED
  BY <1>1, <1>2, <1>3 DEF Good, SameStarts, StreamedCallsAreNew

(* The same for a handler that may be dropped. *)
LEMMA FailOrDropGood ==
  ASSUME kern \in Transactions, Good(kern), NEW t \in Transactions, Good(t),
         SameStarts(kern, t)
  PROVE  Good(FailOrDrop(t)) /\ SameStarts(kern, FailOrDrop(t))
  BY FailGood DEF FailOrDrop, SameStarts

(* Between inferences nothing is being streamed. *)
LEMMA BetweenGood ==
  ASSUME NEW t \in Transactions, Good(t)
  PROVE  Good(BetweenInferences(t)) /\ SameStarts(t, BetweenInferences(t))
<1> DEFINE u == BetweenInferences(t)
<1>1. u.log = t.log /\ u.state = t.state /\ u.active.calls = <<>>
  BY DEF BetweenInferences, Transactions, ActiveRuns
<1>2. Range(u.active.calls) = {}
  BY <1>1 DEF Range
<1> QED
  BY <1>1, <1>2 DEF Good, LogAgrees, StreamedCallsAreNew, SameStarts

(* What policy decides of a proposed call agrees with the state it then has. *)
LEMMA JudgedAgrees ==
  ASSUME NEW f \in CallFacts, NEW o \in Outcomes \ {"malformed"}, FactsAgree(f, "proposed")
  PROVE  /\ Judged(f, o).proposed = f.proposed /\ Judged(f, o).started = f.started
         /\ FactsAgree(Judged(f, o), "terminal")
         /\ o = "require" => FactsAgree(Judged(f, o), "awaiting_approval")
         /\ o = "allow" => FactsAgree(Judged(f, o), "allowed")
<1> DEFINE g == Judged(f, o)
<1>1. /\ g.proposed = f.proposed /\ g.started = f.started
      /\ g.policy = IF o = "unpresentable" THEN "error" ELSE o
      /\ g.approval = IF o = "require" THEN "requested" ELSE f.approval
  BY DEF Judged, CallFacts
<1> HIDE DEF g
<1>2. /\ FactsAgree(g, "terminal")
      /\ o = "require" => FactsAgree(g, "awaiting_approval")
      /\ o = "allow" => FactsAgree(g, "allowed")
  BY <1>1 DEF FactsAgree, Authorised, Outcomes
<1> QED
  BY <1>1, <1>2 DEF g

(* Closing a call with an error leaves its authority as it was. *)
LEMMA ErrorAgrees ==
  ASSUME NEW f \in CallFacts, FactsAgree(f, "terminal")
  PROVE  LET e == [Reconciled(f) EXCEPT !.done = "error"] IN
         e.proposed = f.proposed /\ e.started = f.started /\ FactsAgree(e, "terminal")
<1> DEFINE e == [Reconciled(f) EXCEPT !.done = "error"]
<1>1. /\ e.proposed = f.proposed /\ e.started = f.started
      /\ e.policy = f.policy /\ e.approval = f.approval
  BY DEF Reconciled, CallFacts
<1> HIDE DEF e
<1>2. FactsAgree(e, "terminal")
  BY <1>1 DEF FactsAgree, Authorised
<1> QED
  BY <1>1, <1>2 DEF e

(* Policy decides calls that are proposed, and only those. *)
LEMMA PolicyGood ==
  ASSUME NEW t \in Transactions, Good(t), NEW C \in SUBSET Calls, NEW out,
         \A c \in C : t.state[c] = "proposed" /\ out[c] \in Outcomes \ {"malformed"}
  PROVE  Good(ApplyPolicy(t, C, out)) /\ SameStarts(t, ApplyPolicy(t, C, out))
<1> DEFINE requested == {c \in C : out[c] = "require"}
           closed == {c \in C : out[c] \in {"deny", "error", "unpresentable"}}
           u == [t EXCEPT
                   !.proj = ApprovalRequested(t.proj, requested),
                   !.log = [c \in Calls |-> IF c \in C THEN Judged(t.log[c], out[c])
                                            ELSE t.log[c]],
                   !.state = [c \in Calls |-> IF c \in requested THEN "awaiting_approval"
                                             ELSE IF c \in C /\ out[c] = "allow" THEN "allowed"
                                             ELSE t.state[c]]]
           v == RecordToolError(u, closed)
<1>1. v = ApplyPolicy(t, C, out)
  BY DEF ApplyPolicy
<1>2. ASSUME NEW c \in Calls \ C
      PROVE  v.log[c] = t.log[c] /\ v.state[c] = t.state[c]
  BY DEF RecordToolError, Transactions
<1>3. ASSUME NEW c \in C
      PROVE  /\ v.log[c].proposed = t.log[c].proposed /\ v.log[c].started = t.log[c].started
             /\ FactsAgree(v.log[c], v.state[c])
  <2>1. FactsAgree(t.log[c], "proposed") /\ t.log[c] \in CallFacts
    BY DEF Good, LogAgrees, Transactions
  <2>2. /\ u.log[c] = Judged(t.log[c], out[c])
        /\ u.state[c] = IF out[c] = "require" THEN "awaiting_approval"
                        ELSE IF out[c] = "allow" THEN "allowed" ELSE "proposed"
    BY <1>3 DEF Transactions
  <2> DEFINE g == Judged(t.log[c], out[c])
             e == [Reconciled(g) EXCEPT !.done = "error"]
  <2>3. /\ v.log[c] = IF c \in closed THEN e ELSE g
        /\ v.state[c] = IF c \in closed THEN "terminal" ELSE u.state[c]
    BY <1>3, <2>2 DEF RecordToolError, Transactions
  <2>4. g \in CallFacts
    BY <1>3, <2>1, JudgedType
  <2>5. /\ g.proposed = t.log[c].proposed /\ g.started = t.log[c].started
        /\ FactsAgree(g, "terminal")
        /\ out[c] = "require" => FactsAgree(g, "awaiting_approval")
        /\ out[c] = "allow" => FactsAgree(g, "allowed")
    BY <1>3, <2>1, JudgedAgrees
  <2>6. e.proposed = g.proposed /\ e.started = g.started /\ FactsAgree(e, "terminal")
    BY <2>4, <2>5, ErrorAgrees
  <2>7. out[c] \in {"require", "allow"} \/ c \in closed
    BY <1>3 DEF Outcomes
  <2> HIDE DEF u, v, g, e
  <2> QED
    BY <2>2, <2>3, <2>5, <2>6, <2>7
<1>4. LogAgrees(v)
  BY <1>2, <1>3 DEF Good, LogAgrees
<1>5. StreamedCallsAreNew(v)
  <2>1. v.active = t.active
    BY DEF RecordToolError, Transactions
  <2>2. t.active.calls \in Seq(Calls)
    BY DEF Transactions, ActiveRuns
  <2>3. Range(t.active.calls) \subseteq Calls
    BY <2>2 DEF Range
  <2> QED
    BY <1>2, <1>3, <2>1, <2>3 DEF Good, StreamedCallsAreNew
<1> QED
  BY <1>1, <1>2, <1>3, <1>4, <1>5 DEF Good, SameStarts

(* evaluate_pending_policies decides proposed calls only. *)
LEMMA EvaluateGood ==
  ASSUME kern \in Transactions, Good(kern), NEW t \in Transactions, Good(t),
         SameStarts(kern, t), NEW out \in [Calls -> Outcomes]
  PROVE  Good(EvaluatePolicies(t, out)) /\ SameStarts(kern, EvaluatePolicies(t, out))
<1> DEFINE proposed == {i \in DOMAIN t.order : t.state[t.order[i]] = "proposed"}
           malformed == {i \in proposed : out[t.order[i]] = "malformed"}
           before == {t.order[i] : i \in {j \in proposed : \A m \in malformed : j < m}}
           u == ApplyPolicy(t, before, out)
<1>1. t.order \in Seq(Calls)
  BY DEF Transactions
<1>2. \A i \in DOMAIN t.order : t.order[i] \in Calls /\ i \in Nat
  BY <1>1
<1>3. before \in SUBSET Calls
  BY <1>2
<1>4. \A c \in before : t.state[c] = "proposed" /\ out[c] \in Outcomes \ {"malformed"}
  BY <1>2
<1>5. u \in Transactions /\ Good(u) /\ SameStarts(t, u)
  BY <1>3, <1>4, PolicyType, PolicyGood
<1>6. Good(FailLiveRun(u)) /\ SameStarts(u, FailLiveRun(u))
  BY <1>5, FailGood
<1>7. EvaluatePolicies(t, out) \in {u, kern, FailLiveRun(u)}
  BY DEF EvaluatePolicies
<1> HIDE DEF u
<1> QED
  BY <1>5, <1>6, <1>7 DEF SameStarts

(* A change of active that streams no new call, and ends no stream that had
   ended, is harmless. *)
LEMMA ActiveGood ==
  ASSUME NEW t \in Transactions, Good(t), NEW u,
         u.log = t.log, u.state = t.state,
         u.active.backendDone \/ (u.active.calls = t.active.calls /\ ~t.active.backendDone)
           \/ u.active.calls = <<>>
           \/ (u.active.calls = t.active.calls
                 /\ u.active.backendDone = t.active.backendDone)
  PROVE  Good(u) /\ SameStarts(t, u)
<1>1. Range(<<>>) = {}
  BY DEF Range
<1> QED
  BY <1>1 DEF Good, LogAgrees, StreamedCallsAreNew, SameStarts

(* A step that starts no tool and records no executor start. *)
LEMMA QuietStep ==
  ASSUME TypeOK, TypeOK', AuthorityInv, Good(kern'), SameStarts(kern, kern'),
         starts' = starts, pc' # "spawn"
  PROVE  AuthorityInv'
  BY DEF AuthorityInv, Good, SameStarts, StartsAreLogged, TypeOK

(* The backend's updates propose calls, and authorise or start none. *)
LEMMA BackendUpdateGood ==
  ASSUME TypeOK, AuthorityInv,
         ProcessBackendEvent \/ ProcessToolCallFinish \/ ProcessBackendStop
  PROVE  Good(kern') /\ SameStarts(kern, kern')
<1>0. kern \in Transactions /\ Good(kern) /\ SameStarts(kern, kern)
  BY DEF TypeOK, AuthorityInv, Good, SameStarts
<1>d. Good(FailOrDrop(kern)) /\ SameStarts(kern, FailOrDrop(kern))
  BY <1>0, FailOrDropGood
<1>1. ASSUME NEW o
      PROVE  Good(RunStops(o)) /\ SameStarts(kern, RunStops(o))
  <2> DEFINE u == RunStops(o)
  <2>1. u.log = kern.log /\ u.state = kern.state /\ u.active.backendDone
    BY <1>0 DEF RunStops, Transactions, ActiveRuns
  <2> HIDE DEF u
  <2>2. Good(u) /\ SameStarts(kern, u)
    BY <1>0, <2>1, ActiveGood
  <2> QED
    BY <2>2 DEF u
<1>2. CASE ProcessBackendEvent
  <2>1. LET u == [kern EXCEPT !.active.response = TRUE] IN Good(u) /\ SameStarts(kern, u)
    <3> DEFINE u == [kern EXCEPT !.active.response = TRUE]
    <3>1. /\ u.log = kern.log /\ u.state = kern.state
          /\ u.active.calls = kern.active.calls
          /\ u.active.backendDone = kern.active.backendDone
      BY <1>0 DEF Transactions, ActiveRuns
    <3> HIDE DEF u
    <3>2. Good(u) /\ SameStarts(kern, u)
      BY <1>0, <3>1, ActiveGood
    <3> QED
      BY <3>2 DEF u
  <2>2. ASSUME Update1.call \in Calls, ~kern.log[Update1.call].proposed
        PROVE  LET u == [kern EXCEPT !.active.calls = Append(kern.active.calls, Update1.call)]
               IN  Good(u) /\ SameStarts(kern, u)
    <3> DEFINE u == [kern EXCEPT !.active.calls = Append(kern.active.calls, Update1.call)]
               c == Update1.call
    <3>1. /\ u.log = kern.log /\ u.state = kern.state
          /\ u.active.calls = Append(kern.active.calls, c)
          /\ u.active.backendDone = kern.active.backendDone
      BY <1>0 DEF Transactions, ActiveRuns
    <3>2. kern.active.calls \in Seq(Calls)
      BY <1>0 DEF Transactions, ActiveRuns
    <3>3. Range(Append(kern.active.calls, c)) = Range(kern.active.calls) \cup {c}
      BY <2>2, <3>2, AppendRange
    <3> HIDE DEF u
    <3>4. Good(u) /\ SameStarts(kern, u)
      BY <1>0, <2>2, <3>1, <3>3 DEF Good, LogAgrees, StreamedCallsAreNew, SameStarts
    <3> QED
      BY <3>4 DEF u
  <2> QED
    BY <1>0, <1>d, <1>1, <1>2, <2>1, <2>2 DEF ProcessBackendEvent, FreshCall
<1>3. CASE ProcessToolCallFinish
  <2> DEFINE new == Range(kern.active.calls)
             u == Proposed(new)
  <2>1. CASE Streaming
    <3>1. \A c \in new : ~kern.log[c].proposed
      BY <1>0, <2>1 DEF Streaming, Good, StreamedCallsAreNew
    <3>2. /\ u.active.backendDone
          /\ \A c \in Calls :
               /\ u.log[c] = IF c \in new THEN [kern.log[c] EXCEPT !.proposed = TRUE]
                             ELSE kern.log[c]
               /\ u.state[c] = IF c \in new THEN "proposed" ELSE kern.state[c]
      BY <1>0 DEF Proposed, Transactions, ActiveRuns
    <3> HIDE DEF u
    <3>3. ASSUME NEW c \in Calls
          PROVE  FactsAgree(u.log[c], u.state[c]) /\ u.log[c].started = kern.log[c].started
      <4> DEFINE g == [kern.log[c] EXCEPT !.proposed = TRUE]
      <4>1. /\ g.proposed /\ g.policy = kern.log[c].policy
            /\ g.approval = kern.log[c].approval /\ g.started = kern.log[c].started
        BY <1>0 DEF Transactions, CallFacts
      <4>2. FactsAgree(kern.log[c], kern.state[c])
        BY <1>0 DEF Good, LogAgrees
      <4> HIDE DEF g
      <4>3. c \in new => FactsAgree(g, "proposed")
        BY <3>1, <4>1, <4>2 DEF FactsAgree, Authorised
      <4> QED
        BY <3>2, <4>1, <4>2, <4>3 DEF g
    <3>4. Good(u) /\ SameStarts(kern, u)
      BY <3>2, <3>3 DEF Good, LogAgrees, StreamedCallsAreNew, SameStarts
    <3>5. u \in Transactions
      BY ProposedType DEF u, TypeOK
    <3>6. \A bad : Good(RecordToolError(u, bad)) /\ SameStarts(u, RecordToolError(u, bad))
      BY <3>4, <3>5, ToolErrorGood
    <3>7. kern' \in {kern, FailOrDrop(kern)} \/ \E bad : kern' = RecordToolError(u, bad)
      BY <1>3 DEF ProcessToolCallFinish, u
    <3> QED
      BY <1>0, <1>d, <3>4, <3>6, <3>7 DEF SameStarts
  <2>2. CASE ~Streaming
    BY <1>0, <1>d, <1>3, <2>2 DEF ProcessToolCallFinish
  <2> QED
    BY <2>1, <2>2
<1>4. CASE ProcessBackendStop
  <2>1. Good(Acknowledged) /\ SameStarts(kern, Acknowledged)
    <3> DEFINE u == Acknowledged
    <3>1. /\ u.log = kern.log /\ u.state = kern.state
          /\ u.active.calls = kern.active.calls
          /\ u.active.backendDone = kern.active.backendDone
      BY <1>0 DEF Acknowledged, Transactions, ActiveRuns
    <3> HIDE DEF u
    <3>2. Good(u) /\ SameStarts(kern, u)
      BY <1>0, <3>1, ActiveGood
    <3> QED
      BY <3>2 DEF u
  <2> QED
    BY <1>0, <1>d, <1>1, <1>4, <2>1 DEF ProcessBackendStop
<1> QED
  BY <1>2, <1>3, <1>4

(* Recording a spend disposition or a result changes no authority. *)
LEMMA DispositionGood ==
  ASSUME kern \in Transactions, Good(kern), NEW c, NEW d
  PROVE  /\ Good([kern EXCEPT !.log[c].spend = d])
         /\ SameStarts(kern, [kern EXCEPT !.log[c].spend = d])
         /\ Good(RecordToolResult(kern, c, d))
         /\ SameStarts(kern, RecordToolResult(kern, c, d))
<1>1. ASSUME NEW u, u.active = kern.active,
             \A x \in Calls :
               /\ u.log[x].proposed = kern.log[x].proposed
               /\ u.log[x].policy = kern.log[x].policy
               /\ u.log[x].approval = kern.log[x].approval
               /\ u.log[x].started = kern.log[x].started
               /\ u.state[x] \in {kern.state[x], "terminal"}
      PROVE  Good(u) /\ SameStarts(kern, u)
  <2>1. LogAgrees(u) /\ SameStarts(kern, u)
    BY <1>1 DEF Good, LogAgrees, FactsAgree, Authorised, SameStarts
  <2>2. kern.active.calls \in Seq(Calls)
    BY DEF Transactions, ActiveRuns
  <2>3. Range(kern.active.calls) \subseteq Calls
    BY <2>2 DEF Range
  <2> QED
    BY <1>1, <2>1, <2>3 DEF Good, StreamedCallsAreNew
<1> DEFINE u == [kern EXCEPT !.log[c].spend = d]
           v == RecordToolResult(kern, c, d)
<1>2. u.active = kern.active /\ v.active = kern.active
  BY DEF RecordToolResult, Transactions
<1>3. ASSUME NEW x \in Calls
      PROVE  /\ u.log[x].proposed = kern.log[x].proposed
             /\ u.log[x].policy = kern.log[x].policy
             /\ u.log[x].approval = kern.log[x].approval
             /\ u.log[x].started = kern.log[x].started
             /\ u.state[x] \in {kern.state[x], "terminal"}
  BY DEF Transactions, CallFacts
<1>4. ASSUME NEW x \in Calls
      PROVE  /\ v.log[x].proposed = kern.log[x].proposed
             /\ v.log[x].policy = kern.log[x].policy
             /\ v.log[x].approval = kern.log[x].approval
             /\ v.log[x].started = kern.log[x].started
             /\ v.state[x] \in {kern.state[x], "terminal"}
  BY DEF RecordToolResult, Transactions, CallFacts
<1> HIDE DEF u, v
<1>5. Good(u) /\ SameStarts(kern, u) /\ Good(v) /\ SameStarts(kern, v)
  BY <1>1, <1>2, <1>3, <1>4
<1> QED
  BY <1>5 DEF u, v

(* The updates of a tool authorise and start none. *)
LEMMA ToolUpdateGood ==
  ASSUME TypeOK, AuthorityInv,
         ProcessToolUpdate \/ ProcessToolResult \/ ProcessToolFailure \/ ProcessDeadline
  PROVE  Good(kern') /\ SameStarts(kern, kern')
<1>0. kern \in Transactions /\ Good(kern) /\ SameStarts(kern, kern)
  BY DEF TypeOK, AuthorityInv, Good, SameStarts
<1>1. Good(FailOrDrop(kern)) /\ SameStarts(kern, FailOrDrop(kern))
  BY <1>0, FailOrDropGood
<1>2. \A C : /\ RecordToolError(kern, C) \in Transactions
             /\ Good(RecordToolError(kern, C)) /\ SameStarts(kern, RecordToolError(kern, C))
  BY <1>0, ToolErrorType, ToolErrorGood
<1>3. \A C : /\ Good(FailOrDrop(RecordToolError(kern, C)))
             /\ SameStarts(kern, FailOrDrop(RecordToolError(kern, C)))
  BY <1>0, <1>2, FailOrDropGood
<1>4. CASE ProcessToolUpdate
  <2> DEFINE c == Update1.call
             u == [kern EXCEPT !.proj = RunAwaitingInput(kern.proj), !.question = c,
                               !.state[c] = "awaiting_input"]
  <2>1. /\ u.log = kern.log /\ u.active = kern.active
        /\ \A x \in Calls : u.state[x] \in {kern.state[x], "awaiting_input"}
    BY <1>0 DEF Transactions
  <2> HIDE DEF u
  <2>2. Good(u) /\ SameStarts(kern, u)
    BY <1>0, <2>1 DEF Good, LogAgrees, FactsAgree, StreamedCallsAreNew, SameStarts
  <2>3. \/ kern' \in {kern, FailOrDrop(kern), u}
        \/ \E C : kern' \in {RecordToolError(kern, C), FailOrDrop(RecordToolError(kern, C))}
    BY <1>4 DEF ProcessToolUpdate, u
  <2> QED
    BY <1>0, <1>1, <1>2, <1>3, <2>2, <2>3
<1>5. CASE ProcessToolResult
  <2>1. \/ kern' \in {kern, FailOrDrop(kern)}
        \/ \E c, d : kern' = RecordToolResult(kern, c, d)
    BY <1>5 DEF ProcessToolResult
  <2> QED
    BY <1>0, <1>1, <2>1, DispositionGood
<1>6. CASE ProcessToolFailure
  <2>1. \/ kern' = kern
        \/ \E C : kern' = FailOrDrop(RecordToolError(kern, C))
        \/ \E c : \E d \in Dispositions(c) :
             kern' = RecordToolError([kern EXCEPT !.log[c].spend = d], {c})
    BY <1>6 DEF ProcessToolFailure
  <2>2. ASSUME NEW c, NEW d \in Dispositions(c)
        PROVE  LET u == RecordToolError([kern EXCEPT !.log[c].spend = d], {c}) IN
               Good(u) /\ SameStarts(kern, u)
    <3> DEFINE t == [kern EXCEPT !.log[c].spend = d]
    <3>1. Good(t) /\ SameStarts(kern, t)
      BY <1>0, DispositionGood
    <3>2. t \in Transactions
      BY <1>0, DispositionType
    <3> HIDE DEF t
    <3>3. Good(RecordToolError(t, {c})) /\ SameStarts(t, RecordToolError(t, {c}))
      BY <3>1, <3>2, ToolErrorGood
    <3>4. Good(RecordToolError(t, {c})) /\ SameStarts(kern, RecordToolError(t, {c}))
      BY <3>1, <3>3 DEF SameStarts
    <3> QED
      BY <3>4 DEF t
  <2> QED
    BY <1>0, <1>3, <2>1, <2>2
<1>7. CASE ProcessDeadline
  BY <1>0, <1>2, <1>7 DEF ProcessDeadline
<1> QED
  BY <1>4, <1>5, <1>6, <1>7

(* Every step of a drain that processes an update keeps AuthorityInv. *)
LEMMA ProcessUpdateAuthority ==
  ASSUME TypeOK, AuthorityInv, ProcessUpdate
  PROVE  AuthorityInv'
<1>0. kern \in Transactions /\ Good(kern) /\ SameStarts(kern, kern)
  BY DEF TypeOK, AuthorityInv, Good, SameStarts
<1>t. TypeOK'
  BY ProcessUpdateType
<1>1. CASE ProcessBackendEvent \/ ProcessToolCallFinish \/ ProcessBackendStop
  <2>1. pc' = "ready" /\ starts' = starts
    BY <1>1 DEF ProcessBackendEvent, ProcessToolCallFinish, ProcessBackendStop, Processing
  <2> QED
    BY <1>t, <1>1, <2>1, BackendUpdateGood, QuietStep
<1>2. CASE ProcessToolUpdate \/ ProcessToolResult \/ ProcessToolFailure \/ ProcessDeadline
  <2>1. pc' = "ready" /\ starts' = starts
    BY <1>2 DEF ProcessToolUpdate, ProcessToolResult, ProcessToolFailure, ProcessDeadline,
                Processing
  <2> QED
    BY <1>t, <1>2, <2>1, ToolUpdateGood, QuietStep
<1>3. CASE ProcessBackendEnded
  <2>1. PICK out \in [Calls -> PolicyOutcomes] :
          LET t == IF Streaming THEN FailLiveRun(kern) ELSE kern
              done == IF ~Inferring THEN kern
                      ELSE IF t.active.over THEN ResetActive(t)
                      ELSE EvaluatePolicies(BetweenInferences(t), out) IN
          kern' = done /\ LaunchIfDispatching(done)
    BY <1>3 DEF ProcessBackendEnded
  <2> DEFINE t == IF Streaming THEN FailLiveRun(kern) ELSE kern
             w == BetweenInferences(t)
  <2>2. out \in [Calls -> Outcomes]
    BY KernelAssumption
  <2>3. t \in Transactions /\ Good(t) /\ SameStarts(kern, t)
    BY <1>0, FailType, FailGood
  <2>4. kern' \in {kern, ResetActive(t), EvaluatePolicies(w, out)}
    BY <2>1
  <2> HIDE DEF t
  <2>5. Good(ResetActive(t)) /\ SameStarts(t, ResetActive(t))
    BY <2>3, ResetGood
  <2>6. w \in Transactions /\ Good(w) /\ SameStarts(t, w)
    BY <2>3, BetweenType, BetweenGood
  <2> HIDE DEF w
  <2>7. SameStarts(kern, w)
    BY <2>3, <2>6 DEF SameStarts
  <2>8. Good(EvaluatePolicies(w, out)) /\ SameStarts(kern, EvaluatePolicies(w, out))
    BY <1>0, <2>2, <2>6, <2>7, EvaluateGood
  <2>9. Good(kern') /\ SameStarts(kern, kern')
    BY <1>0, <2>3, <2>4, <2>5, <2>8 DEF SameStarts
  <2>10. pc' # "spawn" /\ starts' = starts
    BY <1>3, <2>1 DEF LaunchIfDispatching, ProcessBackendEnded, Processing
  <2> QED
    BY <1>t, <2>9, <2>10, QuietStep
<1>4. CASE ProcessToolEnded
  <2> DEFINE c == Update1.call
             t == IF kern.state[c] \in {"terminal", "awaiting_input"} THEN kern
                  ELSE RecordToolError(kern, {c})
             closed == [t EXCEPT !.active.tool = None]
             done == IF ~ForActiveTool THEN kern
                     ELSE IF closed.active.over THEN ResetActive(closed) ELSE closed
  <2>1. t \in Transactions /\ Good(t) /\ SameStarts(kern, t)
    BY <1>0, ToolErrorType, ToolErrorGood
  <2>2. kern' = done /\ LaunchIfDispatching(done) /\ starts' = starts
    BY <1>4 DEF ProcessToolEnded, Processing
  <2>3. pc' # "spawn"
    BY <2>2 DEF LaunchIfDispatching
  <2>4. kern' \in {kern, closed, ResetActive(closed)}
    BY <2>2
  <2> HIDE DEF t
  <2>5. /\ closed \in Transactions /\ closed.log = t.log /\ closed.state = t.state
        /\ closed.active.calls = t.active.calls
        /\ closed.active.backendDone = t.active.backendDone
    BY <2>1 DEF Transactions, ActiveRuns
  <2> HIDE DEF closed
  <2>6. Good(closed) /\ SameStarts(t, closed)
    BY <2>1, <2>5, ActiveGood
  <2>7. Good(ResetActive(closed)) /\ SameStarts(closed, ResetActive(closed))
    BY <2>5, <2>6, ResetGood
  <2>8. Good(kern') /\ SameStarts(kern, kern')
    BY <1>0, <2>1, <2>4, <2>6, <2>7 DEF SameStarts
  <2> QED
    BY <1>t, <2>2, <2>3, <2>8, QuietStep
<1> QED
  BY <1>1, <1>2, <1>3, <1>4 DEF ProcessUpdate

(* Launching an allowed call starts that call and no other, with authority. *)
LEMMA LaunchedGood ==
  ASSUME NEW t \in Transactions, Good(t), NEW c \in Calls, t.state[c] = "allowed"
  PROVE  LET u == Launched(t, c) IN
         /\ Good(u) /\ u.active.tool = c
         /\ \A x \in Calls : u.log[x].started <=> (x = c \/ t.log[x].started)
<1> DEFINE u == Launched(t, c)
           g == [t.log[c] EXCEPT
                   !.started = TRUE,
                   !.spend = IF c \in Paid THEN "reserved" ELSE t.log[c].spend]
<1>1. t.log \in [Calls -> CallFacts] /\ t.state \in [Calls -> InvocationStates]
      /\ t.active \in ActiveRuns
  BY DEF Transactions
<1>2. /\ u.log = [t.log EXCEPT ![c] = g] /\ u.state = [t.state EXCEPT ![c] = "running"]
      /\ u.active = [t.active EXCEPT !.tool = c]
  BY DEF Launched, Transactions
<1>3. /\ g.started /\ g.proposed = t.log[c].proposed
      /\ g.policy = t.log[c].policy /\ g.approval = t.log[c].approval
  BY <1>1 DEF CallFacts
<1> HIDE DEF u, g
<1>4. /\ u.active.tool = c /\ u.active.calls = t.active.calls
      /\ u.active.backendDone = t.active.backendDone
  BY <1>1, <1>2 DEF ActiveRuns
<1>5. \A x \in Calls : /\ u.log[x] = IF x = c THEN g ELSE t.log[x]
                       /\ u.state[x] = IF x = c THEN "running" ELSE t.state[x]
  BY <1>1, <1>2
<1>6. FactsAgree(t.log[c], "allowed")
  BY DEF Good, LogAgrees
<1>7. FactsAgree(g, "running")
  BY <1>3, <1>6 DEF FactsAgree, Authorised
<1>8. LogAgrees(u)
  BY <1>5, <1>7 DEF Good, LogAgrees
<1>9. StreamedCallsAreNew(u)
  <2>1. t.active.calls \in Seq(Calls)
    BY <1>1 DEF ActiveRuns
  <2>2. Range(t.active.calls) \subseteq Calls
    BY <2>1 DEF Range
  <2> QED
    BY <1>3, <1>4, <1>5, <2>2 DEF Good, StreamedCallsAreNew
<1>10. \A x \in Calls : t.log[x].started \in BOOLEAN
  BY <1>1 DEF CallFacts
<1>11. \A x \in Calls : u.log[x].started <=> (x = c \/ t.log[x].started)
  BY <1>3, <1>5, <1>10
<1>12. Good(u) /\ u.active.tool = c
  BY <1>4, <1>8, <1>9 DEF Good
<1> QED
  BY <1>11, <1>12 DEF u

(* Launching and spawning: the one place a tool starts, and it is authorised and
   has not started before. *)
LEMMA LaunchAuthority ==
  ASSUME TypeOK, AuthorityInv, LaunchNextTool
  PROVE  AuthorityInv'
<1>0. kern \in Transactions /\ Good(kern) /\ SameStarts(kern, kern)
  BY DEF TypeOK, AuthorityInv, Good, SameStarts
<1>t. TypeOK' /\ starts' = starts /\ up' = "up"
  <2>1. Drain
    BY DEF Drain
  <2> QED
    BY <2>1, DrainType DEF LaunchNextTool
<1> DEFINE c == ReadyTool(kern)
<1>1. CASE kern' = kern /\ pc' = "ready"
  BY <1>0, <1>t, <1>1, QuietStep
<1>2. CASE kern' = RecordToolError(kern, {c}) /\ pc' = "ready"
  BY <1>0, <1>t, <1>2, ToolErrorGood, QuietStep
<1>3. CASE c # None /\ kern' = Launched(kern, c) /\ pc' = "spawn"
  <2>1. c \in Calls /\ kern.state[c] = "allowed"
    BY <1>0, <1>3, ReadyToolIsAllowed
  <2>2. ~kern.log[c].started
    BY <1>0, <2>1 DEF Good, LogAgrees, FactsAgree
  <2>3. /\ Good(kern') /\ kern'.active.tool = c
        /\ \A x \in Calls : kern'.log[x].started <=> (x = c \/ kern.log[x].started)
    BY <1>0, <1>3, <2>1, LaunchedGood
  <2>4. starts[c] = 0
    BY <2>1, <2>2 DEF AuthorityInv, StartsAreLogged
  <2>5. StartsAreLogged'
    <3>1. \A x \in Calls : starts'[x] # 0 => starts'[x] = 1 /\ kern'.log[x].started
      BY <1>t, <2>3 DEF AuthorityInv, StartsAreLogged
    <3> HIDE DEF c
    <3>2. kern'.active.tool \in Calls /\ kern'.log[kern'.active.tool].started
      BY <2>1, <2>3
    <3> QED
      BY <1>t, <2>3, <2>4, <3>1, <3>2 DEF StartsAreLogged
  <2> QED
    BY <2>3, <2>5 DEF AuthorityInv, Good
<1> QED
  BY <1>1, <1>2, <1>3 DEF LaunchNextTool

(* The executor's thread is created for a call whose ToolStarted is committed and
   that had no thread before. *)
LEMMA SpawnAuthority ==
  ASSUME TypeOK, AuthorityInv, SpawnTool
  PROVE  AuthorityInv'
<1> DEFINE c == kern.active.tool
<1>1. c \in Calls /\ kern.log[c].started /\ starts[c] = 0
  BY DEF AuthorityInv, StartsAreLogged, SpawnTool
<1>2. starts \in [Calls -> Nat] /\ starts' = [starts EXCEPT ![c] = starts[c] + 1]
  BY DEF TypeOK, SpawnTool
<1> HIDE DEF c
<1>4. \A x \in Calls : starts'[x] = IF x = c THEN starts[x] + 1 ELSE starts[x]
  BY <1>2
<1>5. \A x \in Calls : starts'[x] # 0 => starts'[x] = 1 /\ kern.log[x].started
  BY <1>1, <1>4 DEF AuthorityInv, StartsAreLogged
<1>6. kern' = kern /\ pc' = "ready"
  BY DEF SpawnTool
<1>7. StartsAreLogged'
  BY <1>5, <1>6 DEF StartsAreLogged
<1> QED
  BY <1>6, <1>7 DEF AuthorityInv

(* Every step of drain() keeps AuthorityInv. *)
LEMMA DrainAuthority ==
  ASSUME TypeOK, AuthorityInv, Drain
  PROVE  AuthorityInv'
<1>0. kern \in Transactions /\ Good(kern) /\ SameStarts(kern, kern)
  BY DEF TypeOK, AuthorityInv, Good, SameStarts
<1>t. TypeOK'
  BY DrainType
<1>1. ASSUME NEW m \in DrainModes, DrainSwap(m)
      PROVE  AuthorityInv'
  BY <1>0, <1>t, <1>1, QuietStep DEF DrainSwap, OwnerIdle
<1>2. CASE DrainLaunch
  <2>1. /\ kern'.log = kern.log /\ kern'.state = kern.state
        /\ kern'.active.calls = kern.active.calls
        /\ kern'.active.backendDone = kern.active.backendDone
    BY <1>0, <1>2 DEF DrainLaunch, Transactions, ActiveRuns
  <2>2. Good(kern') /\ SameStarts(kern, kern')
    BY <1>0, <2>1, ActiveGood
  <2> QED
    BY <1>t, <1>2, <2>2, QuietStep DEF DrainLaunch
<1>3. CASE SpawnToolFails
  <2> DEFINE c == kern.active.tool
             t == [kern EXCEPT
                     !.log[c].spend = IF kern.log[c].spend = "reserved" THEN "released"
                                      ELSE kern.log[c].spend,
                     !.active.tool = None]
  <2>1. t \in Transactions
    BY <1>0, SpawnFailedType
  <2>2. /\ t.active.calls = kern.active.calls
        /\ t.active.backendDone = kern.active.backendDone
        /\ t.state = kern.state
    BY <1>0 DEF Transactions, ActiveRuns
  <2>3. ASSUME NEW x \in Calls
        PROVE  /\ t.log[x].proposed = kern.log[x].proposed
               /\ t.log[x].policy = kern.log[x].policy
               /\ t.log[x].approval = kern.log[x].approval
               /\ t.log[x].started = kern.log[x].started
    BY <1>0 DEF Transactions, CallFacts
  <2>4. kern' = RecordToolError(t, {c}) /\ starts' = starts /\ pc' = "ready"
    BY <1>3 DEF SpawnToolFails
  <2> HIDE DEF t
  <2>5. LogAgrees(t) /\ SameStarts(kern, t)
    BY <1>0, <2>2, <2>3 DEF Good, LogAgrees, FactsAgree, Authorised, SameStarts
  <2>6. StreamedCallsAreNew(t)
    <3>1. kern.active.calls \in Seq(Calls)
      BY <1>0 DEF Transactions, ActiveRuns
    <3>2. Range(kern.active.calls) \subseteq Calls
      BY <3>1 DEF Range
    <3> QED
      BY <1>0, <2>2, <2>3, <3>2 DEF Good, StreamedCallsAreNew
  <2>7. Good(kern') /\ SameStarts(kern, kern')
    BY <2>1, <2>4, <2>5, <2>6, ToolErrorGood DEF Good, SameStarts
  <2> QED
    BY <1>t, <2>4, <2>7, QuietStep
<1>4. CASE SpawnBackend
  BY <1>0, <1>t, <1>4, QuietStep DEF SpawnBackend
<1>5. CASE SpawnBackendFails
  BY <1>0, <1>t, <1>5, FailGood, QuietStep DEF SpawnBackendFails
<1> QED
  BY <1>1, <1>2, <1>3, <1>4, <1>5, ProcessUpdateAuthority, LaunchAuthority, SpawnAuthority
     DEF Drain

(* An inference starts with no call proposed. *)
LEMMA BeginGood ==
  ASSUME NEW t \in Transactions, Good(t)
  PROVE  Good(BeginInference(t)) /\ SameStarts(t, BeginInference(t))
<1> DEFINE u == BeginInference(t)
<1>1. /\ u.log = t.log /\ u.active.calls = t.active.calls
      /\ u.active.backendDone = t.active.backendDone
      /\ \A c \in Calls : u.state[c] = "absent"
  BY DEF BeginInference, NoInvocations, Transactions, ActiveRuns
<1> HIDE DEF u
<1>2. Good(u) /\ SameStarts(t, u)
  BY <1>1 DEF Good, LogAgrees, FactsAgree, StreamedCallsAreNew, SameStarts
<1> QED
  BY <1>2 DEF u

(* The kernel state once call c has verdict v and is in state s. *)
Decision(c, p, v, s) ==
  [kern EXCEPT !.proj = p, !.log[c].approval = v, !.state[c] = s]

(* A decision on a pending approval authorises its call, or leaves it to be closed. *)
LEMMA DecisionGood ==
  ASSUME kern \in Transactions, Good(kern), NEW c \in Calls,
         kern.state[c] = "awaiting_approval", NEW p,
         NEW v, NEW s,
         \/ v = "approved" /\ s = "allowed"
         \/ v = "refused" /\ s = "awaiting_approval"
  PROVE  Good(Decision(c, p, v, s)) /\ SameStarts(kern, Decision(c, p, v, s))
<1> DEFINE u == Decision(c, p, v, s)
           g == [kern.log[c] EXCEPT !.approval = v]
<1>1. kern.log \in [Calls -> CallFacts] /\ kern.state \in [Calls -> InvocationStates]
      /\ kern.active \in ActiveRuns
  BY DEF Transactions
<1>2. /\ u.log = [kern.log EXCEPT ![c] = g] /\ u.state = [kern.state EXCEPT ![c] = s]
      /\ u.active = kern.active
  BY DEF Transactions, Decision
<1>3. /\ g.started = kern.log[c].started /\ g.proposed = kern.log[c].proposed
      /\ g.policy = kern.log[c].policy /\ g.approval = v
  BY <1>1 DEF CallFacts
<1> HIDE DEF u, g
<1>4. \A x \in Calls : /\ u.log[x] = IF x = c THEN g ELSE kern.log[x]
                       /\ u.state[x] = IF x = c THEN s ELSE kern.state[x]
  BY <1>1, <1>2
<1>5. FactsAgree(kern.log[c], "awaiting_approval")
  BY DEF Good, LogAgrees
<1>6. FactsAgree(g, s)
  BY <1>3, <1>5 DEF FactsAgree, Authorised
<1>7. LogAgrees(u) /\ SameStarts(kern, u)
  BY <1>3, <1>4, <1>6 DEF Good, LogAgrees, SameStarts
<1>8. StreamedCallsAreNew(u)
  <2>1. kern.active.calls \in Seq(Calls)
    BY <1>1 DEF ActiveRuns
  <2>2. Range(kern.active.calls) \subseteq Calls
    BY <2>1 DEF Range
  <2> QED
    BY <1>2, <1>3, <1>4, <2>2 DEF Good, StreamedCallsAreNew
<1>9. Good(u) /\ SameStarts(kern, u)
  BY <1>7, <1>8 DEF Good
<1> QED
  BY <1>9 DEF u

(* Every call of the surface keeps AuthorityInv. *)
LEMMA SurfaceAuthority ==
  ASSUME TypeOK, AuthorityInv, Surface
  PROVE  AuthorityInv'
<1>0. kern \in Transactions /\ Good(kern) /\ SameStarts(kern, kern)
  BY DEF TypeOK, AuthorityInv, Good, SameStarts
<1>t. TypeOK'
  BY SurfaceType
<1>1. CASE Start
  <2> DEFINE t == [kern EXCEPT !.proj = RunStarted, !.question = None,
                               !.active = [NoActive EXCEPT !.live = TRUE]]
  <2>1. t \in Transactions
    BY <1>0, StartedType
  <2>2. t.log = kern.log /\ t.state = kern.state /\ t.active.calls = <<>>
    BY <1>0 DEF Transactions, NoActive
  <2>3. kern' = BeginInference(t) /\ starts' = starts /\ pc' = "backend"
    BY <1>1 DEF Start
  <2> HIDE DEF t
  <2>4. Good(t) /\ SameStarts(kern, t)
    BY <1>0, <2>2, ActiveGood
  <2>5. Good(kern') /\ SameStarts(kern, kern')
    BY <2>1, <2>3, <2>4, BeginGood DEF SameStarts
  <2> QED
    BY <1>t, <2>3, <2>5, QuietStep
<1>2. CASE ContinueRun
  BY <1>0, <1>t, <1>2, BeginGood, QuietStep DEF ContinueRun
<1>3. CASE CancelRun
  <2> DEFINE requested == [kern EXCEPT !.active.cancelRequested = TRUE]
             open == {kern.order[i] : i \in Open(kern)}
             e == RecordToolError(requested, open)
             ended == [e EXCEPT !.proj = RunEnded(kern.proj, "cancelled"),
                                !.active = [requested.active EXCEPT !.over = TRUE]]
  <2>1. /\ requested \in Transactions
        /\ requested.log = kern.log /\ requested.state = kern.state
        /\ requested.active.calls = kern.active.calls
        /\ requested.active.backendDone = kern.active.backendDone
    BY <1>0 DEF Transactions, ActiveRuns
  <2>2. kern' \in {requested, ended, ResetActive(ended)} /\ starts' = starts /\ pc' = "ready"
    BY <1>3 DEF CancelRun, OwnerIdle
  <2>r. e.active = requested.active
    BY <2>1 DEF RecordToolError, Transactions
  <2> HIDE DEF requested
  <2>3. Good(requested) /\ SameStarts(kern, requested)
    BY <1>0, <2>1, ActiveGood
  <2>4. e \in Transactions /\ Good(e) /\ SameStarts(requested, e)
    BY <2>1, <2>3, ToolErrorType, ToolErrorGood
  <2> HIDE DEF e
  <2>5. RunEnded(kern.proj, "cancelled") \in Projections(Calls)
    BY EndedType DEF RunOver
  <2>6. [requested.active EXCEPT !.over = TRUE] \in ActiveRuns
    BY <2>1 DEF Transactions, ActiveRuns
  <2>7. /\ ended \in Transactions /\ ended.log = e.log /\ ended.state = e.state
        /\ ended.active = [requested.active EXCEPT !.over = TRUE]
    BY <2>4, <2>5, <2>6 DEF Transactions
  <2>8. /\ ended.active.calls = e.active.calls
        /\ ended.active.backendDone = e.active.backendDone
    BY <2>1, <2>7, <2>r DEF Transactions, ActiveRuns
  <2> HIDE DEF ended
  <2>9. Good(ended) /\ SameStarts(e, ended)
    BY <2>4, <2>7, <2>8, ActiveGood
  <2>10. Good(ResetActive(ended)) /\ SameStarts(ended, ResetActive(ended))
    BY <2>7, <2>9, ResetGood
  <2>11. Good(kern') /\ SameStarts(kern, kern')
    BY <2>2, <2>3, <2>4, <2>9, <2>10 DEF SameStarts
  <2> QED
    BY <1>t, <2>2, <2>11, QuietStep
<1>4. ASSUME NEW c \in Calls, NEW b \in BOOLEAN, DecideApproval(c, b)
      PROVE  AuthorityInv'
  <2> DEFINE p == ApprovalDecided(kern.proj, c)
             decided(v) == [kern EXCEPT !.proj = p, !.log[c].approval = v]
  <2>1. kern.state[c] = "awaiting_approval" /\ pc' = "launch" /\ starts' = starts
    BY <1>4 DEF DecideApproval, TypeOK
  <2>2. CASE b
    <3>1. kern' = [decided("approved") EXCEPT !.state[c] = "allowed"]
      BY <1>4, <2>2 DEF DecideApproval
    <3>2. kern' = Decision(c, p, "approved", "allowed")
      BY <1>0, <3>1 DEF Transactions, Decision
    <3>4. Good(kern') /\ SameStarts(kern, kern')
      BY <1>0, <2>1, <3>2, DecisionGood
    <3> QED
      BY <1>t, <2>1, <3>4, QuietStep
  <2>3. CASE ~b
    <3>1. kern' = RecordToolError(decided("refused"), {c})
      BY <1>4, <2>3 DEF DecideApproval
    <3>2. decided("refused") = Decision(c, p, "refused", "awaiting_approval")
      BY <1>0, <2>1 DEF Transactions, Decision
    <3>4. Good(decided("refused")) /\ SameStarts(kern, decided("refused"))
      BY <1>0, <2>1, <3>2, DecisionGood
    <3>5. decided("refused") \in Transactions
      BY <1>0, DecidedType
    <3>6. Good(kern') /\ SameStarts(kern, kern')
      BY <3>1, <3>4, <3>5, ToolErrorGood DEF SameStarts
    <3> QED
      BY <1>t, <2>1, <3>6, QuietStep
  <2> QED
    BY <2>2, <2>3
<1>5. ASSUME NEW c \in Calls, ResolveQuestions(c)
      PROVE  AuthorityInv'
  <2> DEFINE u == [kern EXCEPT !.proj = RunResumed(kern.proj), !.log[c].done = "result",
                               !.state[c] = "terminal"]
             g == [kern.log[c] EXCEPT !.done = "result"]
  <2>1. kern' = u /\ starts' = starts /\ pc' = "launch"
    BY <1>5 DEF ResolveQuestions
  <2>2. /\ u.log = [kern.log EXCEPT ![c] = g] /\ u.state = [kern.state EXCEPT ![c] = "terminal"]
        /\ u.active = kern.active
    BY <1>0 DEF Transactions
  <2>3. /\ g.started = kern.log[c].started /\ g.proposed = kern.log[c].proposed
        /\ g.policy = kern.log[c].policy /\ g.approval = kern.log[c].approval
    BY <1>0 DEF Transactions, CallFacts
  <2> HIDE DEF u, g
  <2>4. \A x \in Calls : /\ u.log[x] = IF x = c THEN g ELSE kern.log[x]
                         /\ u.state[x] \in {kern.state[x], "terminal"}
    BY <1>0, <2>2 DEF Transactions
  <2>5. LogAgrees(u) /\ SameStarts(kern, u)
    BY <1>0, <2>3, <2>4 DEF Good, LogAgrees, FactsAgree, Authorised, SameStarts
  <2>6. kern.active.calls \in Seq(Calls)
    BY <1>0 DEF Transactions, ActiveRuns
  <2>7. Range(kern.active.calls) \subseteq Calls
    BY <2>6 DEF Range
  <2>8. StreamedCallsAreNew(u)
    BY <1>0, <2>2, <2>3, <2>4, <2>7 DEF Good, StreamedCallsAreNew
  <2> QED
    BY <1>t, <2>1, <2>5, <2>8, QuietStep DEF Good
<1> QED
  BY <1>1, <1>2, <1>3, <1>4, <1>5 DEF Surface

(* Settling interrupted paid tools changes no authority. *)
LEMMA SettleGood ==
  ASSUME NEW t \in Transactions, Good(t)
  PROVE  Good(SettleInterrupted(t)) /\ SameStarts(t, SettleInterrupted(t))
<1> DEFINE u == SettleInterrupted(t)
           g(c) == [t.log[c] EXCEPT !.spend = IF t.log[c].started THEN "reconcile"
                                              ELSE "released", !.done = "error"]
<1>1. /\ u.active = t.active /\ u.state = t.state
      /\ \A c \in Calls : u.log[c] = IF c \in Interrupted(t) THEN g(c) ELSE t.log[c]
  BY DEF SettleInterrupted, Transactions
<1>2. ASSUME NEW c \in Calls
      PROVE  /\ g(c).started = t.log[c].started /\ g(c).proposed = t.log[c].proposed
             /\ g(c).policy = t.log[c].policy /\ g(c).approval = t.log[c].approval
  BY DEF Transactions, CallFacts
<1> HIDE DEF u, g
<1>3. LogAgrees(u) /\ SameStarts(t, u)
  BY <1>1, <1>2 DEF Good, LogAgrees, FactsAgree, Authorised, SameStarts
<1>4. t.active.calls \in Seq(Calls)
  BY DEF Transactions, ActiveRuns
<1>5. Range(t.active.calls) \subseteq Calls
  BY <1>4 DEF Range
<1>6. StreamedCallsAreNew(u)
  BY <1>1, <1>2, <1>5 DEF Good, StreamedCallsAreNew
<1> QED
  BY <1>3, <1>6 DEF Good, u

(* open_durable authorises no call the log does not, and a call whose approval is
   asked for again waits for it. *)
LEMMA RecoverGood ==
  ASSUME NEW t \in Transactions, Good(t), ~ReplayRejects(t)
  PROVE  Good(Recover(t)) /\ SameStarts(t, Recover(t))
<1> DEFINE u == Recover(t)
           g(c) == [t.log[c] EXCEPT !.approval = "requested"]
<1>1. /\ u.active.calls = <<>>
      /\ \A c \in Calls :
           /\ u.log[c] = IF c \in Renewed(t) THEN g(c) ELSE t.log[c]
           /\ u.state[c] = IF c \in Range(t.order) THEN RecoveredState(t, c) ELSE "absent"
  BY DEF Recover, Transactions, NoActive
<1>2. ASSUME NEW c \in Calls
      PROVE  /\ g(c).started = t.log[c].started /\ g(c).proposed = t.log[c].proposed
             /\ g(c).policy = t.log[c].policy /\ g(c).approval = "requested"
  BY DEF Transactions, CallFacts
<1> HIDE DEF u, g
<1>3. ASSUME NEW c \in Calls
      PROVE  FactsAgree(u.log[c], u.state[c]) /\ u.log[c].started = t.log[c].started
  <2>1. FactsAgree(t.log[c], t.state[c])
    BY DEF Good, LogAgrees
  <2>2. CASE c \in Renewed(t)
    <3>1. /\ ~t.log[c].started /\ t.log[c].done = "no" /\ t.log[c].policy = "require"
          /\ t.log[c].approval = "approved"
          /\ c \in Range(t.order)
      BY <2>1, <2>2 DEF Renewed, Unstarted
    <3>2. u.log[c] = g(c) /\ u.state[c] = RecoveredState(t, c)
      BY <1>1, <2>2, <3>1
    <3>3. RecoveredState(t, c) \in {"awaiting_approval", "awaiting_input", "none"}
      BY <2>2, <3>1 DEF RecoveredState, BeyondRecovery
    <3> QED
      BY <1>2, <2>1, <3>1, <3>2, <3>3 DEF FactsAgree, Authorised
  <2>3. CASE c \notin Renewed(t)
    <3>1. u.log[c] = t.log[c]
      BY <1>1, <2>3
    <3>2. CASE c \notin Range(t.order)
      <4>1. u.state[c] = "absent"
        BY <1>1, <3>2
      <4> QED
        BY <2>1, <3>1, <4>1 DEF FactsAgree, Authorised
    <3>3. CASE c \in Range(t.order)
      <4>1. u.state[c] = RecoveredState(t, c)
        BY <1>1, <3>3
      <4>2. RecoveredState(t, c) \in {"terminal", "awaiting_input", "awaiting_approval",
                                      "allowed", "none"}
        BY RecoveredStateType
      <4>3. RecoveredState(t, c) = "allowed" =>
              /\ ~t.log[c].started
              /\ t.log[c].approval = "approved" \/ t.log[c].policy = "allow"
        BY DEF RecoveredState, BeyondRecovery
      <4>4. RecoveredState(t, c) = "awaiting_approval" =>
              ~t.log[c].started /\ t.log[c].policy = "require"
        BY <2>3 DEF RecoveredState, BeyondRecovery
      <4> QED
        BY <2>1, <3>1, <4>1, <4>2, <4>3, <4>4 DEF FactsAgree, Authorised
    <3> QED
      BY <3>2, <3>3
  <2> QED
    BY <2>2, <2>3
<1>4. Range(<<>>) = {}
  BY DEF Range
<1>5. Good(u) /\ SameStarts(t, u)
  BY <1>1, <1>3, <1>4 DEF Good, LogAgrees, StreamedCallsAreNew, SameStarts
<1> QED
  BY <1>5 DEF u

(* A stop and open_durable keep AuthorityInv. *)
LEMMA RestartAuthority ==
  ASSUME TypeOK, AuthorityInv, Reopen \/ \E how \in {"down", "unusable"} : KernelStops(how)
  PROVE  AuthorityInv'
<1>0. kern \in Transactions /\ Good(kern) /\ SameStarts(kern, kern)
  BY DEF TypeOK, AuthorityInv, Good, SameStarts
<1>t. TypeOK'
  BY RestartType
<1>1. ASSUME NEW how \in {"down", "unusable"}, KernelStops(how)
      PROVE  AuthorityInv'
  BY <1>0, <1>t, <1>1, ResetGood, QuietStep DEF KernelStops
<1>2. CASE Reopen
  <2> DEFINE t == SettleInterrupted(kern)
  <2>1. t \in Transactions /\ Good(t) /\ SameStarts(kern, t)
    BY <1>0, SettleType, SettleGood
  <2>2. ~ReplayRejects(t) => Good(Recover(t)) /\ SameStarts(t, Recover(t))
    BY <2>1, RecoverGood
  <2>3. /\ kern' \in {kern, t} \/ (~ReplayRejects(t) /\ kern' = Recover(t))
        /\ starts' = starts /\ pc' = pc
    BY <1>2 DEF Reopen
  <2> HIDE DEF t
  <2>4. Good(kern') /\ SameStarts(kern, kern')
    BY <1>0, <2>1, <2>2, <2>3 DEF SameStarts
  <2>5. pc # "spawn"
    BY <1>2 DEF AuthorityInv, StartsAreLogged, Reopen
  <2> QED
    BY <1>t, <2>3, <2>4, <2>5, QuietStep
<1> QED
  BY <1>1, <1>2

(* Every step keeps AuthorityInv. *)
LEMMA AuthorityStep == TypeOK /\ AuthorityInv /\ [Next]_vars => AuthorityInv'
<1> SUFFICES ASSUME TypeOK, AuthorityInv, [Next]_vars
             PROVE  AuthorityInv'
  OBVIOUS
<1>1. CASE kern' = kern /\ pc' = pc /\ starts' = starts /\ up' = up
  BY <1>1 DEF AuthorityInv, StartsAreLogged
<1>2. CASE Next
  <2>1. CASE BackendWorker \/ ToolWorker \/ DeadlineWorker
    BY <1>1, <2>1 DEF BackendWorker, BackendDelivers, BackendFails, BackendEnds,
                      ToolWorker, ToolDelivers, ToolFails, ToolEnds,
                      DeadlineWorker, DeadlinePasses, DeadlinePushes
  <2> QED
    BY <1>2, <2>1, DrainAuthority, SurfaceAuthority, RestartAuthority DEF Next
<1> QED
  BY <1>1, <1>2 DEF vars

(* Nothing is proposed, authorised or started at first. *)
LEMMA AuthorityInit == Init => AuthorityInv
<1> SUFFICES ASSUME Init
             PROVE  AuthorityInv
  OBVIOUS
<1>1. LogAgrees(kern)
  BY DEF Init, EmptyLog, Unproposed, NoInvocations, LogAgrees, FactsAgree, Authorised
<1>2. StreamedCallsAreNew(kern)
  BY DEF Init, EmptyLog, NoActive, StreamedCallsAreNew, Range
<1>3. StartsAreLogged
  BY DEF Init, StartsAreLogged
<1> QED
  BY <1>1, <1>2, <1>3 DEF AuthorityInv

(* The inductive invariant holds in every state. *)
LEMMA AuthorityInvariant == Spec => []AuthorityInv
<1>1. Spec => []TypeOK
  BY TypeCorrect
<1> QED
  BY <1>1, AuthorityInit, AuthorityStep, PTL DEF Spec

(* No executor is started twice for one call, through any number of restarts:
   ToolStarted is committed before the thread is created, and open_durable never
   makes a started call ready again. *)
THEOREM ExecutedAtMostOnce == Spec => []AtMostOnce
<1>1. ASSUME TypeOK, AuthorityInv
      PROVE  AtMostOnce
  <2>1. \A c \in Calls : starts[c] = 0 \/ starts[c] = 1
    BY <1>1 DEF AuthorityInv, StartsAreLogged
  <2> QED
    BY <2>1 DEF AtMostOnce
<1> QED
  BY <1>1, TypeCorrect, AuthorityInvariant, PTL
===============================================================================
