------------------------------ MODULE RunKernel ------------------------------
(***************************************************************************)
(* The run kernel (src/src/lib/run_kernel.cpp): one owner thread that      *)
(* starts a run, drains worker updates, launches tools and takes the       *)
(* user's decisions, and the workers that feed it through a bounded queue: *)
(* the backend worker (run_backend), the tool worker (run_tool) and the    *)
(* deadline worker of the running tool.  Every owner operation works on a  *)
(* copy of the kernel state, the Transaction, which commit() appends to    *)
(* the session store and then adopts; a process can die between any two    *)
(* commits, and open_durable rebuilds the kernel from what was stored.     *)
(*                                                                         *)
(* The session log is kept as the facts that replaying it yields: the      *)
(* projection of the current run, what was recorded of each tool call, the *)
(* order of the calls of the last inference, and the call the last         *)
(* RunAwaitingInput names.  Earlier runs of the session are over, or were  *)
(* left unrecoverable by a restart, and take no further part.              *)
(*                                                                         *)
(* Child runs, plans, Ops observations and summaries are other modules.    *)
(***************************************************************************)
EXTENDS Naturals, Sequences, FiniteSets, Functions, RunProjection

CONSTANTS
  Calls,            \* invocation ids the provider may use
  AskUser,          \* those that call ask_user
  Paid,             \* those whose declared effects include spend
  QueueCap,         \* limits.pending_updates
  BackendKinds,     \* what the backend stream may deliver
  ToolKinds,        \* what an ordinary executor may deliver
  PolicyOutcomes,   \* how policy->evaluate may come out
  Conforming,       \* whether the backend stream keeps to its protocol
  DrainModes,       \* the drain modes the surface uses
  ThreadFailures,   \* whether a worker thread may fail to start
  MaxRuns, MaxInferences, MaxBackendEvents, MaxToolEvents, MaxRestarts,
  None

BackendEvents == {"started", "delta", "call", "finish", "tool_finish", "cancelled"}
BackendFailures == {"failure", "failure_cancelled"}
ToolEvents == {"progress", "over_budget", "input", "result", "bad_artifact",
               "bad_spend"}
Outcomes == {"allow", "deny", "require", "error", "unpresentable", "malformed"}

ASSUME KernelAssumption ==
  /\ AskUser \subseteq Calls /\ Paid \subseteq Calls /\ AskUser \cap Paid = {}
  /\ None \notin Calls
  /\ QueueCap \in Nat \ {0}
  /\ BackendKinds \subseteq BackendEvents \cup BackendFailures
  /\ ToolKinds \subseteq ToolEvents /\ PolicyOutcomes \subseteq Outcomes
  /\ Conforming \in BOOLEAN /\ ThreadFailures \in BOOLEAN
  /\ DrainModes \subseteq {"dispatch_ready", "observe_only"}
  /\ {MaxRuns, MaxInferences, MaxBackendEvents, MaxToolEvents, MaxRestarts} \subseteq Nat

VARIABLES
  kern,      \* the committed Transaction: log facts and ActiveRun
  up,        \* "up", "unusable" (persistence_failure), "down", "rejected"
  pc,        \* owner thread: "ready", or the launch it is in the middle of
  mode,      \* RunDrainMode of the current drain
  queue,     \* worker updates not yet swapped out by drain
  batch,     \* updates swapped out and not yet processed
  backend,   \* backend worker: [at |-> "off" | "run" | "ending", sent |-> updates]
  worker,    \* tool worker: [at, sent |-> a count, call |-> the call it executes]
  deadline,  \* deadline worker: "off", "armed", "firing"
  count,     \* [runs, inferences, restarts]: bounds, and the update tags
  starts     \* history: how often an executor was started for each call

vars == <<kern, up, pc, mode, queue, batch, backend, worker, deadline, count, starts>>

(***************************************************************************)
(* The kernel state.                                                       *)
(***************************************************************************)
InvocationStates == {"absent", "proposed", "awaiting_approval", "allowed",
                     "running", "awaiting_input", "terminal"}

CallFacts ==
  [proposed: BOOLEAN,
   policy:   {"none", "allow", "deny", "require", "error"},
   approval: {"none", "requested", "approved", "refused"},
   spend:    {"none", "reserved", "released", "finalized", "reconcile"},
   started:  BOOLEAN,
   done:     {"no", "result", "error"}]
Unproposed == [proposed |-> FALSE, policy |-> "none", approval |-> "none",
               spend |-> "none", started |-> FALSE, done |-> "no"]

(* ActiveRun: live says that there is one. *)
ActiveRuns ==
  [live: BOOLEAN, inference: BOOLEAN, response: BOOLEAN, backendDone: BOOLEAN,
   ackExpected: BOOLEAN, cancelRequested: BOOLEAN, over: BOOLEAN,
   tool: Calls \cup {None}, calls: Seq(Calls), recovered: BOOLEAN]
NoActive ==
  [live |-> FALSE, inference |-> FALSE, response |-> FALSE, backendDone |-> FALSE,
   ackExpected |-> FALSE, cancelRequested |-> FALSE, over |-> FALSE,
   tool |-> None, calls |-> <<>>, recovered |-> FALSE]
NoInvocations == [c \in Calls |-> "absent"]

Transactions ==
  [proj: Projections(Calls), log: [Calls -> CallFacts], order: Seq(Calls),
   question: Calls \cup {None}, active: ActiveRuns, state: [Calls -> InvocationStates]]

EmptyLog == [proj |-> NotStarted, log |-> [c \in Calls |-> Unproposed],
             order |-> <<>>, question |-> None,
             active |-> NoActive, state |-> NoInvocations]

IdleBackend == [at |-> "off", sent |-> <<>>]
IdleWorker == [at |-> "off", sent |-> 0, call |-> None]

Update(k, c) == [k |-> k, call |-> c, inference |-> count.inferences]

Init ==
  /\ kern = EmptyLog /\ up = "up" /\ pc = "ready" /\ mode = "dispatch_ready"
  /\ queue = <<>> /\ batch = <<>>
  /\ backend = IdleBackend /\ worker = IdleWorker /\ deadline = "off"
  /\ count = [runs |-> 0, inferences |-> 0, restarts |-> 0]
  /\ starts = [c \in Calls |-> 0]

(***************************************************************************)
(* Transactions: functions of the kernel state t.                          *)
(***************************************************************************)
(* record_spend_disposition without a disposition: reconciliation. *)
Reconciled(facts) ==
  [facts EXCEPT !.spend = IF facts.spend = "reserved" THEN "reconcile" ELSE facts.spend]

(* record_tool_error, for every call in C. *)
RecordToolError(t, C) ==
  [t EXCEPT
     !.log = [c \in Calls |-> IF c \in C THEN [Reconciled(t.log[c]) EXCEPT !.done = "error"]
                                         ELSE t.log[c]],
     !.state = [c \in Calls |-> IF c \in C THEN "terminal" ELSE t.state[c]]]

(* active.reset(). *)
ResetActive(t) == [t EXCEPT !.active = NoActive, !.state = NoInvocations]

(* fail_live_run: RunFailed, and the running tool is closed without a result. *)
FailLiveRunAtOnce(t) == ResetActive([t EXCEPT !.proj = RunEnded(t.proj, "failed")])
FailLiveRun(t) ==
  [t EXCEPT
     !.proj = RunEnded(t.proj, "failed"),
     !.log = [c \in Calls |-> IF c = t.active.tool THEN Reconciled(t.log[c]) ELSE t.log[c]],
     !.active = [t.active EXCEPT !.backendDone = TRUE, !.ackExpected = TRUE, !.over = TRUE],
     !.state = [c \in Calls |-> IF c = t.active.tool THEN "terminal" ELSE t.state[c]]]

(* A handler that calls fail_live_run after a terminal run event returns an
   error, and drain drops its transaction. *)
FailAlways(t) == IF t.active.live THEN FailLiveRun(t) ELSE kern
FailOrDrop(t) ==
  IF t.active.live /\ ~t.active.over THEN FailLiveRun(t) ELSE kern

(***************************************************************************)
(* The workers.  push() blocks while the queue is full.                    *)
(***************************************************************************)
PushUnbounded(u) == up = "up" /\ queue' = Append(queue, u)
Push(u) ==
  /\ up = "up" /\ Len(queue) < QueueCap
  /\ queue' = Append(queue, u)

(* A conforming stream: started, then fresh tool calls, then one terminal event
   that agrees with them. *)
InProtocol(k, c) ==
  LET n == Len(backend.sent) IN
  IF n = 0 THEN k = "started"
  ELSE /\ backend.sent[n] \in {"started", "delta"} \cup Calls
       /\ CASE k = "started" -> FALSE
            [] k = "call" -> ~kern.log[c].proposed /\ c \notin Range(backend.sent)
            [] k = "finish" -> Calls \cap Range(backend.sent) = {}
            [] k = "tool_finish" -> Calls \cap Range(backend.sent) # {}
            [] OTHER -> TRUE

BackendDelivers(k, c) ==
  /\ backend.at = "run" /\ Len(backend.sent) < MaxBackendEvents
  /\ Conforming => InProtocol(k, c)
  /\ Push(Update(k, c))
  /\ backend' = [backend EXCEPT
                   !.sent = Append(@, IF Conforming /\ c # None THEN c
                                      ELSE IF Conforming THEN k ELSE "any")]
  /\ UNCHANGED <<kern, up, pc, mode, batch, worker, deadline, count, starts>>

BackendFails(k) ==
  /\ backend.at = "run"
  /\ Push(Update(k, None))
  /\ backend' = [backend EXCEPT !.at = "ending"]
  /\ UNCHANGED <<kern, up, pc, mode, batch, worker, deadline, count, starts>>

(* End of stream, or the BackendEnded that follows a failure. *)
BackendEndsSilently ==
  /\ backend.at # "off" /\ backend' = IdleBackend
  /\ UNCHANGED <<kern, up, pc, mode, queue, batch, worker, deadline, count, starts>>
BackendEnds ==
  /\ backend.at # "off"
  /\ Push(Update("backend_ended", None))
  /\ backend' = IdleBackend
  /\ UNCHANGED <<kern, up, pc, mode, batch, worker, deadline, count, starts>>

(* AskUserStream emits its questions once; other executors are external. *)
ToolDelivers(k) ==
  /\ worker.at = "run" /\ worker.sent < MaxToolEvents
  /\ IF worker.call \in AskUser THEN k = "input" /\ worker.sent = 0
                                ELSE k \in ToolKinds
  /\ Push(Update(k, worker.call))
  /\ worker' = [worker EXCEPT !.sent = @ + 1]
  /\ UNCHANGED <<kern, up, pc, mode, batch, backend, deadline, count, starts>>

(* AskUserStream fails only when asked to stop: by the deadline worker, after
   its push, or by an owner that has closed the call. *)
ToolFails ==
  /\ worker.at = "run"
  /\ worker.call \in AskUser => deadline = "off" \/ kern.state[worker.call] = "terminal"
  /\ Push(Update("tool_failure", worker.call))
  /\ worker' = [worker EXCEPT !.at = "ending"]
  /\ UNCHANGED <<kern, up, pc, mode, batch, backend, deadline, count, starts>>

ToolEndsSilently ==
  /\ worker.at # "off" /\ worker' = [worker EXCEPT !.at = "off"]
  /\ UNCHANGED <<kern, up, pc, mode, queue, batch, backend, deadline, count, starts>>
ToolEndsAndGoesOn ==
  /\ worker.at # "off" /\ Push(Update("tool_ended", worker.call))
  /\ UNCHANGED <<kern, up, pc, mode, batch, backend, worker, deadline, count, starts>>
ToolEnds ==
  /\ worker.at # "off"
  /\ Push(Update("tool_ended", worker.call))
  /\ worker' = [worker EXCEPT !.at = "off"]
  /\ UNCHANGED <<kern, up, pc, mode, batch, backend, deadline, count, starts>>

(* The timeout passes with no stop requested; the push follows. *)
DeadlinePasses ==
  /\ up = "up" /\ deadline = "armed"
  /\ deadline' = "firing"
  /\ UNCHANGED <<kern, up, pc, mode, queue, batch, backend, worker, count, starts>>

DeadlinePushes ==
  /\ deadline = "firing"
  /\ Push(Update("deadline", worker.call))
  /\ deadline' = "off"
  /\ UNCHANGED <<kern, up, pc, mode, batch, backend, worker, count, starts>>

(***************************************************************************)
(* drain().  The updates swapped out of the queue are processed in turn,   *)
(* each in a transaction of its own, and no other owner call runs between. *)
(***************************************************************************)
OwnerIdle == up = "up" /\ pc = "ready" /\ batch = <<>>

DrainSwap(m) ==
  /\ OwnerIdle /\ queue # <<>>
  /\ batch' = queue /\ queue' = <<>> /\ mode' = m
  /\ UNCHANGED <<kern, up, pc, backend, worker, deadline, count, starts>>

Update1 == Head(batch)
Processing(kinds) ==
  /\ up = "up" /\ pc = "ready" /\ batch # <<>> /\ Update1.k \in kinds
  /\ batch' = Tail(batch)
  /\ UNCHANGED <<up, mode, queue, backend, worker, count, starts>>

Inferring == kern.active.live /\ kern.active.inference
Streaming == Inferring /\ ~kern.active.backendDone

(* A terminal event of the inference that also ends the run. *)
RunStops(outcome) ==
  [kern EXCEPT !.proj = RunEnded(kern.proj, outcome),
               !.active = [kern.active EXCEPT !.backendDone = TRUE, !.over = TRUE]]

(* A tool call whose id no earlier call of the session has used. *)
FreshCall(c) == c \in Calls \ Range(kern.active.calls) /\ ~kern.log[c].proposed

(* Before the response started, every event but ResponseStarted fails the run;
   so do a second start and a finish whose reason disagrees with the calls. *)
ProcessBackendEvent ==
  /\ Processing({"started", "delta", "call", "finish"})
  /\ LET a == kern.active IN
     kern' =
       IF ~Inferring THEN kern
       ELSE IF ~Streaming THEN FailOrDrop(kern)
       ELSE CASE Update1.k = "started" /\ ~a.response ->
                   [kern EXCEPT !.active.response = TRUE]
              [] Update1.k = "delta" /\ a.response -> kern
              [] Update1.k = "call" /\ a.response /\ Update1.call \in Range(a.calls) ->
                   kern
              [] Update1.k = "call" /\ a.response /\ FreshCall(Update1.call) ->
                   [kern EXCEPT !.active.calls = Append(@, Update1.call)]
              [] Update1.k = "finish" /\ a.response /\ a.calls = <<>> ->
                   RunStops("completed")
              [] OTHER -> FailOrDrop(kern)
  /\ UNCHANGED <<pc, deadline>>

(* ResponseFinished with tool calls: each is proposed, and those whose
   arguments do not validate (bad) are closed with an error at once. *)
Proposed(new) ==
  [kern EXCEPT
     !.proj = InferenceEnded(kern.proj),
     !.log = [c \in Calls |-> IF c \in new THEN [kern.log[c] EXCEPT !.proposed = TRUE]
                                           ELSE kern.log[c]],
     !.order = kern.active.calls,
     !.active = [kern.active EXCEPT !.backendDone = TRUE],
     !.state = [c \in Calls |-> IF c \in new THEN "proposed" ELSE kern.state[c]]]
ProcessToolCallFinish ==
  /\ Processing({"tool_finish"})
  /\ \E bad \in SUBSET Range(kern.active.calls) :
       LET a == kern.active IN
       kern' =
         IF ~Inferring THEN kern
         ELSE IF ~Streaming \/ ~a.response \/ a.calls = <<>> THEN FailOrDrop(kern)
         ELSE RecordToolError(Proposed(Range(a.calls)), bad)
  /\ UNCHANGED <<pc, deadline>>

(* ResponseCancelled, and a BackendFailure (cancelled says of which kind). *)
Acknowledged == [kern EXCEPT !.active.ackExpected = FALSE]

ProcessBackendStop ==
  /\ Processing({"cancelled", "failure", "failure_cancelled"})
  /\ LET a == kern.active
         cancelled == Update1.k # "failure" IN
     kern' =
       IF ~Inferring THEN kern
       ELSE IF ~Streaming
            THEN IF a.ackExpected /\ cancelled THEN Acknowledged ELSE FailOrDrop(kern)
       ELSE IF Update1.k = "cancelled" \/ (cancelled /\ a.cancelRequested)
            THEN RunStops("cancelled")
       ELSE FailOrDrop(kern)
  /\ UNCHANGED <<pc, deadline>>

(* record_policy_failure and record_policy_resolution, for the calls of C. *)
Judged(facts, outcome) ==
  [facts EXCEPT
     !.policy = IF outcome = "unpresentable" THEN "error" ELSE outcome,
     !.approval = IF outcome = "require" THEN "requested" ELSE facts.approval]
ApplyPolicy(t, C, out) ==
  LET requested == {c \in C : out[c] = "require"}
      closed    == {c \in C : out[c] \in {"deny", "error", "unpresentable"}} IN
  RecordToolError(
    [t EXCEPT
       !.proj = ApprovalRequested(t.proj, requested),
       !.log = [c \in Calls |-> IF c \in C THEN Judged(t.log[c], out[c]) ELSE t.log[c]],
       !.state = [c \in Calls |-> IF c \in requested THEN "awaiting_approval"
                                 ELSE IF c \in C /\ out[c] = "allow" THEN "allowed"
                                 ELSE t.state[c]]],
    closed)

(* evaluate_pending_policies.  A malformed resolution fails the run, and the
   next proposed call, if any, then makes the whole transaction fail. *)
EvaluatePolicies(t, out) ==
  LET proposed == {i \in DOMAIN t.order : t.state[t.order[i]] = "proposed"}
      malformed == {i \in proposed : out[t.order[i]] = "malformed"}
      before == {t.order[i] : i \in {j \in proposed : \A m \in malformed : j < m}} IN
  IF malformed = {} THEN ApplyPolicy(t, before, out)
  ELSE IF \E m \in malformed, j \in proposed : m < j THEN kern
  ELSE FailLiveRun(ApplyPolicy(t, before, out))

(* The inference is behind us: process_backend_end clears its fields. *)
BetweenInferencesStillDone(t) ==
  [t EXCEPT !.active = [t.active EXCEPT !.inference = FALSE, !.response = FALSE,
                                        !.calls = <<>>]]
BetweenInferences(t) ==
  [t EXCEPT !.active = [t.active EXCEPT !.inference = FALSE, !.response = FALSE,
                                        !.backendDone = FALSE, !.ackExpected = FALSE,
                                        !.calls = <<>>]]

(* After BackendEnded or ToolEnded a dispatching drain goes on to launch. *)
LaunchIfDispatching(t) ==
  pc' = IF t # kern /\ mode = "dispatch_ready" THEN "launch" ELSE "ready"

ProcessBackendEnded ==
  /\ Processing({"backend_ended"})
  /\ \E out \in [Calls -> PolicyOutcomes] :
       LET t == IF Streaming THEN FailLiveRun(kern) ELSE kern
           done == IF ~Inferring THEN kern
                   ELSE IF t.active.over THEN ResetActive(t)
                   ELSE EvaluatePolicies(BetweenInferences(t), out) IN
       kern' = done /\ LaunchIfDispatching(done)
  /\ UNCHANGED deadline

(***************************************************************************)
(* Updates of the running tool.                                            *)
(***************************************************************************)
Dispositions(c) ==
  IF kern.log[c].spend = "reserved" THEN {"finalized", "released", "reconcile"}
                                    ELSE {kern.log[c].spend}

(* The update is for the active tool, and that tool is still open. *)
ForActiveTool == kern.active.live /\ kern.active.tool = Update1.call
ForOpenTool == ForActiveTool /\ kern.state[Update1.call] # "terminal"

ProcessToolUpdate ==
  /\ Processing({"progress", "over_budget", "input", "bad_artifact", "bad_spend"})
  /\ LET c == Update1.call IN
     kern' =
       IF ~ForActiveTool THEN kern
       ELSE IF ~ForOpenTool THEN FailOrDrop(kern)
       ELSE CASE Update1.k = "progress" -> kern
              [] Update1.k = "over_budget" -> RecordToolError(kern, {c})
              [] Update1.k = "bad_spend" -> FailOrDrop(RecordToolError(kern, {c}))
              [] Update1.k = "input" /\ c \in AskUser /\ kern.state[c] = "running" ->
                   IF AcceptsRunAwaitingInput(kern.proj)
                   THEN [kern EXCEPT !.proj = RunAwaitingInput(kern.proj), !.question = c,
                                     !.state[c] = "awaiting_input"]
                   ELSE kern
              [] OTHER -> FailOrDrop(kern)
  /\ UNCHANGED <<pc, deadline>>

RecordToolResult(t, c, disposition) ==
  [t EXCEPT !.log[c] = [t.log[c] EXCEPT !.spend = disposition, !.done = "result"],
            !.state[c] = "terminal"]
ProcessToolResult ==
  /\ Processing({"result"})
  /\ LET c == Update1.call IN
     \/ /\ ~ForOpenTool
        /\ kern' = IF ForActiveTool THEN FailOrDrop(kern) ELSE kern
     \/ /\ ForOpenTool
        /\ \E d \in Dispositions(c) :
             kern' = RecordToolResult(kern, c, d)
  /\ UNCHANGED <<pc, deadline>>

(* A failure may carry its own spend disposition, or an invalid one. *)
ProcessToolFailure ==
  /\ Processing({"tool_failure"})
  /\ LET c == Update1.call IN
     \/ ~ForOpenTool /\ kern' = kern
     \/ /\ ForOpenTool
        /\ \E d \in Dispositions(c) :
             kern' = RecordToolError([kern EXCEPT !.log[c].spend = d], {c})
     \/ /\ ForOpenTool /\ "bad_spend" \in ToolKinds
        /\ kern' = FailOrDrop(RecordToolError(kern, {c}))
  /\ UNCHANGED <<pc, deadline>>

ProcessDeadline ==
  /\ Processing({"deadline"})
  /\ kern' = IF ForOpenTool THEN RecordToolError(kern, {Update1.call}) ELSE kern
  /\ UNCHANGED <<pc, deadline>>

(* process_tool_end joins the deadline worker, which may be in its push. *)
ProcessToolEnded ==
  /\ Processing({"tool_ended"})
  /\ ForActiveTool => deadline # "firing"
  /\ LET c == Update1.call
         t == IF kern.state[c] \in {"terminal", "awaiting_input"} THEN kern
              ELSE RecordToolError(kern, {c})
         closed == [t EXCEPT !.active.tool = None]
         done == IF ~ForActiveTool THEN kern
                 ELSE IF closed.active.over THEN ResetActive(closed) ELSE closed IN
     /\ kern' = done /\ LaunchIfDispatching(done)
     /\ deadline' = IF ForActiveTool THEN "off" ELSE deadline

(***************************************************************************)
(* Launching tools: the first call of the order that is not terminal runs, *)
(* if it is allowed.                                                       *)
(***************************************************************************)
Open(t) == {i \in DOMAIN t.order : t.state[t.order[i]] # "terminal"}
ReadyToolOutOfOrder(t) ==
  IF t.active.live /\ ~t.active.over /\ ~t.active.inference /\ t.active.tool = None
       /\ \E i \in Open(t) : t.state[t.order[i]] = "allowed"
  THEN t.order[CHOOSE i \in Open(t) : t.state[t.order[i]] = "allowed"] ELSE None
ReadyTool(t) ==
  IF t.active.live /\ ~t.active.over /\ ~t.active.inference /\ t.active.tool = None
       /\ \E i \in Open(t) : t.state[t.order[i]] = "allowed" /\ \A j \in Open(t) : i <= j
  THEN t.order[CHOOSE i \in Open(t) : \A j \in Open(t) : i <= j]
  ELSE None

(* drain() launches what is ready, or what a restart left to launch, before it
   swaps the queue. *)
DrainLaunch ==
  /\ OwnerIdle /\ kern.active.live /\ "dispatch_ready" \in DrainModes
  /\ kern.active.recovered \/ ReadyTool(kern) # None
  /\ kern' = [kern EXCEPT !.active.recovered = FALSE]
  /\ pc' = "launch"
  /\ UNCHANGED <<up, mode, queue, batch, backend, worker, deadline, count, starts>>

(* launch_next_tool: reserve_tool_spend may refuse a paid call (no ceiling, an
   expired quote, a ceiling that would be passed); ToolStarted is committed
   before the executor's thread exists. *)
Launched(t, c) ==
  [t EXCEPT !.log[c] = [t.log[c] EXCEPT
                          !.started = TRUE,
                          !.spend = IF c \in Paid THEN "reserved" ELSE t.log[c].spend],
            !.active.tool = c, !.state[c] = "running"]
LaunchNextTool ==
  /\ up = "up" /\ pc = "launch"
  /\ LET c == ReadyTool(kern) IN
     \/ c = None /\ pc' = "ready" /\ kern' = kern
     \/ c \in Paid /\ pc' = "ready" /\ kern' = RecordToolError(kern, {c})
     \/ /\ c # None
        /\ pc' = "spawn"
        /\ kern' = Launched(kern, c)
  /\ UNCHANGED <<up, mode, queue, batch, backend, worker, deadline, count, starts>>

SpawnTool ==
  /\ up = "up" /\ pc = "spawn"
  /\ worker' = [at |-> "run", sent |-> 0, call |-> kern.active.tool]
  /\ deadline' = "armed" /\ pc' = "ready"
  /\ starts' = [starts EXCEPT ![kern.active.tool] = @ + 1]
  /\ UNCHANGED <<kern, up, mode, queue, batch, backend, count>>

(* The thread cannot be created: nothing ran, so a reservation is released. *)
SpawnToolFails ==
  /\ ThreadFailures /\ up = "up" /\ pc = "spawn"
  /\ LET c == kern.active.tool IN
     kern' = RecordToolError(
               [kern EXCEPT
                  !.log[c].spend = IF kern.log[c].spend = "reserved" THEN "released"
                                   ELSE kern.log[c].spend,
                  !.active.tool = None], {c})
  /\ pc' = "ready"
  /\ UNCHANGED <<up, mode, queue, batch, backend, worker, deadline, count, starts>>

(***************************************************************************)
(* Calls of the surface.                                                   *)
(***************************************************************************)
BeginInference(t) ==
  [t EXCEPT !.proj = InferenceStarted(t.proj), !.order = <<>>, !.state = NoInvocations,
            !.active = [t.active EXCEPT !.inference = TRUE, !.cancelRequested = FALSE]]

Start ==
  /\ OwnerIdle /\ ~kern.active.live
  /\ count.runs < MaxRuns /\ count.inferences < MaxInferences
  /\ kern' = BeginInference([kern EXCEPT !.proj = RunStarted, !.question = None,
                                         !.active = [NoActive EXCEPT !.live = TRUE]])
  /\ count' = [count EXCEPT !.runs = @ + 1, !.inferences = @ + 1]
  /\ pc' = "backend"
  /\ UNCHANGED <<up, mode, queue, batch, backend, worker, deadline, starts>>

(* continue_run; the projection rejects the inference of a run that waits. *)
ContinuableEarly ==
  /\ kern.active.live /\ ~kern.active.inference /\ kern.active.tool = None
  /\ kern.order # <<>> /\ ~kern.active.over
Continuable ==
  /\ kern.active.live /\ ~kern.active.inference /\ kern.active.tool = None
  /\ kern.order # <<>> /\ ~kern.active.over
  /\ Open(kern) = {}
ContinueRun ==
  /\ OwnerIdle /\ Continuable /\ count.inferences < MaxInferences
  /\ AcceptsInferenceStarted(kern.proj)
  /\ kern' = BeginInference(kern)
  /\ count' = [count EXCEPT !.inferences = @ + 1]
  /\ pc' = "backend"
  /\ UNCHANGED <<up, mode, queue, batch, backend, worker, deadline, starts>>

(* launch_backend, and what start and continue_run do when it fails. *)
SpawnBackend ==
  /\ up = "up" /\ pc = "backend"
  /\ backend' = [at |-> "run", sent |-> <<>>] /\ pc' = "ready"
  /\ UNCHANGED <<kern, up, mode, queue, batch, worker, deadline, count, starts>>
SpawnBackendFails ==
  /\ ThreadFailures /\ up = "up" /\ pc = "backend"
  /\ kern' = FailLiveRun(kern) /\ pc' = "ready"
  /\ UNCHANGED <<up, mode, queue, batch, backend, worker, deadline, count, starts>>

(* cancel_run.  During an inference it is a request; between inferences every
   open call is closed and the run ends, or ends with its running tool. *)
CancelRun ==
  /\ OwnerIdle
  /\ kern.active.live /\ ~kern.active.over /\ ~kern.active.backendDone
  /\ ~kern.active.cancelRequested
  /\ LET requested == [kern EXCEPT !.active.cancelRequested = TRUE]
         open == {kern.order[i] : i \in Open(kern)}
         ended == [RecordToolError(requested, open) EXCEPT
                     !.proj = RunEnded(kern.proj, "cancelled"),
                     !.active = [requested.active EXCEPT !.over = TRUE]] IN
     kern' = IF kern.active.inference THEN requested
             ELSE IF kern.active.tool = None THEN ResetActive(ended) ELSE ended
  /\ UNCHANGED <<up, pc, mode, queue, batch, backend, worker, deadline, count, starts>>

(* decide_approval, when policy->approve grants it; a refusal closes the call. *)
DecideApproval(c, approved) ==
  /\ OwnerIdle /\ kern.active.live /\ kern.state[c] = "awaiting_approval"
  /\ AcceptsApprovalDecided(kern.proj, c)
  /\ LET decided(verdict) == [kern EXCEPT !.proj = ApprovalDecided(kern.proj, c),
                                          !.log[c].approval = verdict] IN
     kern' = IF approved THEN [decided("approved") EXCEPT !.state[c] = "allowed"]
             ELSE RecordToolError(decided("refused"), {c})
  /\ pc' = "launch"
  /\ UNCHANGED <<up, mode, queue, batch, backend, worker, deadline, count, starts>>

(* answer_questions and cancel_questions both record the tool's result. *)
ResolveQuestions(c) ==
  /\ OwnerIdle /\ kern.active.live /\ kern.state[c] = "awaiting_input"
  /\ AcceptsRunResumed(kern.proj)
  /\ kern' = [kern EXCEPT !.proj = RunResumed(kern.proj), !.log[c].done = "result",
                          !.state[c] = "terminal"]
  /\ pc' = "launch"
  /\ UNCHANGED <<up, mode, queue, batch, backend, worker, deadline, count, starts>>

(***************************************************************************)
(* Failure and restart.                                                    *)
(***************************************************************************)
(* The process dies, or an append fails and persistence_failure closes the
   queue, stops the workers and drops the run.  What a failed append left in
   the store is the state before or after some commit, so this is a step of
   its own. *)
KernelStops(how) ==
  /\ up = "up" /\ count.restarts < MaxRestarts
  /\ up' = how /\ kern' = ResetActive(kern) /\ pc' = "ready"
  /\ queue' = <<>> /\ batch' = <<>>
  /\ backend' = IdleBackend /\ worker' = IdleWorker /\ deadline' = "off"
  /\ count' = [count EXCEPT !.restarts = @ + 1]
  /\ UNCHANGED <<mode, starts>>

(* open_durable first settles paid tools that were running, and fails their
   run; the projection would refuse that of a run that is over. *)
Interrupted(t) == {c \in Calls : t.log[c].spend = "reserved"}
SettleInterrupted(t) ==
  [t EXCEPT
     !.proj = IF Interrupted(t) = {} THEN t.proj ELSE RunEnded(t.proj, "failed"),
     !.log = [c \in Calls |->
                IF c \in Interrupted(t)
                THEN [t.log[c] EXCEPT
                        !.spend = IF t.log[c].started THEN "reconcile" ELSE "released",
                        !.done = "error"]
                ELSE t.log[c]]]

Unstarted(t, c) ==
  /\ ~t.log[c].started /\ t.log[c].done = "no"
  /\ t.log[c].policy = "allow" \/ t.log[c].approval = "approved"
UnstartedAuthority(t) ==
  t.proj.status = "running" /\ \E c \in Range(t.order) : Unstarted(t, c)
Recoverable(t) ==
  t.proj.status \in {"awaiting_input", "awaiting_approval"} \/ UnstartedAuthority(t)

(* Approvals that were consumed and must be asked for again. *)
RenewedNever(t) == {}
Renewed(t) ==
  IF UnstartedAuthority(t)
  THEN {c \in Range(t.order) : Unstarted(t, c) /\ t.log[c].policy = "require"}
  ELSE {}

(* A call whose executor had started, or was refused, cannot be taken up again. *)
BeyondRecoveryRefused(f) == f.approval = "refused"
BeyondRecovery(f) == f.started \/ f.approval = "refused"

(* The state open_durable gives a call of the last batch; "none" rejects. *)
RecoveredState(t, c) ==
  LET f == t.log[c] IN
  CASE f.done # "no" -> "terminal"
    [] f.done = "no" /\ c = t.question ->
         IF f.policy = "allow" THEN "awaiting_input" ELSE "none"
    [] f.done = "no" /\ c # t.question /\ BeyondRecovery(f) -> "none"
    [] f.done = "no" /\ c # t.question /\ ~BeyondRecovery(f) ->
         IF c \in Renewed(t) THEN "awaiting_approval"
         ELSE IF f.approval = "approved" \/ f.policy = "allow" THEN "allowed"
         ELSE IF f.policy = "require" /\ f.approval = "requested" THEN "awaiting_approval"
         ELSE "none"

ReplayRejects(t) ==
  \/ t.question # None
       /\ (\/ t.question \notin Range(t.order)
           \/ ~t.log[t.question].started
           \/ t.log[t.question].done # "no")
  \/ \E c \in Range(t.order) : RecoveredState(t, c) = "none"
  \/ /\ t.proj.status = "awaiting_approval"
     /\ \A c \in Range(t.order) : RecoveredState(t, c) # "awaiting_approval"

Recover(t) ==
  LET states == [c \in Calls |-> IF c \in Range(t.order) THEN RecoveredState(t, c)
                                                         ELSE "absent"] IN
  [t EXCEPT !.proj = ApprovalRequested(t.proj, Renewed(t)),
            !.log = [c \in Calls |-> IF c \in Renewed(t)
                                     THEN [t.log[c] EXCEPT !.approval = "requested"]
                                     ELSE t.log[c]],
            !.active = [NoActive EXCEPT
                          !.live = TRUE,
                          !.recovered = UnstartedAuthority(t)
                            /\ \E c \in Range(t.order) : states[c] = "allowed"],
            !.state = states]

SettleRefused ==
  Interrupted(kern) # {} /\ kern.proj.status \in RunOver

Reopen ==
  /\ up \in {"down", "unusable", "rejected"}
  /\ LET t == SettleInterrupted(kern) IN
     \/ SettleRefused /\ up' = "rejected" /\ kern' = kern
     \/ /\ ~SettleRefused /\ Recoverable(t) /\ ReplayRejects(t)
        /\ up' = "rejected" /\ kern' = t
     \/ /\ ~SettleRefused /\ Recoverable(t) /\ ~ReplayRejects(t)
        /\ up' = "up" /\ kern' = Recover(t)
     \/ ~SettleRefused /\ ~Recoverable(t) /\ up' = "up" /\ kern' = t
  /\ UNCHANGED <<pc, mode, queue, batch, backend, worker, deadline, count, starts>>

(***************************************************************************)
(* The specification.                                                      *)
(***************************************************************************)
BackendWorker ==
  \/ \E k \in BackendKinds \cap (BackendEvents \ {"call"}) : BackendDelivers(k, None)
  \/ \E c \in Calls : "call" \in BackendKinds /\ BackendDelivers("call", c)
  \/ \E k \in BackendKinds \cap BackendFailures : BackendFails(k)
  \/ BackendEnds
ToolWorker == (\E k \in ToolEvents : ToolDelivers(k)) \/ ToolFails \/ ToolEnds
DeadlineWorker == DeadlinePasses \/ DeadlinePushes

ProcessUpdate ==
  \/ ProcessBackendEvent \/ ProcessToolCallFinish \/ ProcessBackendStop
  \/ ProcessBackendEnded \/ ProcessToolUpdate \/ ProcessToolResult
  \/ ProcessToolFailure \/ ProcessDeadline \/ ProcessToolEnded
Drain ==
  \/ \E m \in DrainModes : DrainSwap(m)
  \/ DrainLaunch \/ ProcessUpdate \/ LaunchNextTool
  \/ SpawnTool \/ SpawnToolFails \/ SpawnBackend \/ SpawnBackendFails
Surface ==
  \/ Start \/ ContinueRun \/ CancelRun
  \/ \E c \in Calls : ResolveQuestions(c) \/ \E b \in BOOLEAN : DecideApproval(c, b)

Next ==
  \/ BackendWorker \/ ToolWorker \/ DeadlineWorker \/ Drain \/ Surface
  \/ \E how \in {"down", "unusable"} : KernelStops(how)
  \/ Reopen

Spec == Init /\ [][Next]_vars

(* The streams end, the deadline worker finishes its push, and the owner keeps
   draining: the surface calls drain whenever it is woken.  Nothing is assumed
   of the user, of the events a stream delivers, or of restarts. *)
Fairness ==
  /\ WF_vars(Drain)
  /\ WF_vars(BackendEnds) /\ WF_vars(ToolEnds) /\ WF_vars(DeadlinePushes)

(***************************************************************************)
(* Properties.                                                             *)
(***************************************************************************)
Updates == [k: BackendEvents \cup BackendFailures \cup ToolEvents \cup
               {"backend_ended", "tool_failure", "tool_ended", "deadline"},
            call: Calls \cup {None}, inference: Nat]

(* Every variable has its type; kern is a Transaction. *)
TypeOK ==
  /\ kern \in Transactions
  /\ up \in {"up", "unusable", "down", "rejected"}
  /\ pc \in {"ready", "launch", "spawn", "backend"}
  /\ mode \in {"dispatch_ready", "observe_only"}
  /\ queue \in Seq(Updates) /\ Len(queue) <= QueueCap /\ batch \in Seq(Updates)
  /\ backend \in [at: {"off", "run", "ending"},
                 sent: Seq(BackendEvents \cup Calls \cup {"any"})]
  /\ worker \in [at: {"off", "run", "ending"}, sent: Nat, call: Calls \cup {None}]
  /\ deadline \in {"off", "armed", "firing"}
  /\ count \in [runs: Nat, inferences: Nat, restarts: Nat]
  /\ starts \in [Calls -> Nat]

(* The flags of the active run and the projection of its events agree, also
   after a restart: a run the kernel holds open is one that takes events, its
   inference is the projection's, and the approvals it waits for are those the
   projection has pending. *)
KernelMatchesProjection ==
  kern.active.live =>
    IF kern.active.over THEN kern.proj.status \in RunOver
    ELSE /\ RequireRunning(kern.proj)
         /\ kern.proj.inferring <=> (kern.active.inference /\ ~kern.active.backendDone)
         /\ kern.proj.pending = {c \in Calls : kern.state[c] = "awaiting_approval"}

(* What a transaction records, the projection accepts: record() is never refused
   half way through a transaction, where only the whole of it can be dropped, and
   a terminal run event is the last event of its run.
   (The surface's own calls are guarded by the projection, and the start of an
   inference by continue_run.) *)
RecordedEventsAreAccepted ==
  [][count'.runs = count.runs =>
       LET p == kern.proj
           q == kern'.proj IN
       /\ p.inferring /\ ~q.inferring => AcceptsInferenceEnded(p)
       /\ q.status = "completed" /\ p # q => AcceptsRunCompleted(InferenceEnded(p))
       /\ q.status \in RunOver /\ p # q => RequireRunning(p)
       /\ AcceptsApprovalRequested(p, q.pending \ p.pending)
       /\ p.status \in RunOver => q = p /\ kern'.log = kern.log]_vars

(* An update in the queue or in the batch being drained belongs to the inference
   or the tool that is active now: nothing a worker said in an earlier run,
   inference or tool call is applied to a later one.  A late deadline is the one
   exception, and process_tool_deadline ignores it. *)
BackendUpdate(u) ==
  u.k \in BackendEvents \cup BackendFailures \cup {"backend_ended"}
NoCrossTalk ==
  /\ \A u \in Range(queue) \cup Range(batch) :
       IF BackendUpdate(u)
       THEN kern.active.live /\ kern.active.inference /\ u.inference = count.inferences
       ELSE u.k # "deadline" => kern.active.live /\ kern.active.tool = u.call
  /\ backend.at # "off" => kern.active.live /\ kern.active.inference
  /\ worker.at # "off" => kern.active.live /\ kern.active.tool = worker.call

(* No executor is started twice for a call, whatever is cancelled, times out,
   or is lost and recovered in between. *)
AtMostOnce == \A c \in Calls : starts[c] <= 1

(* Tools run in provider order: a started call has every earlier call of its
   batch closed with a result or an error. *)
ProviderOrder ==
  \A i, j \in DOMAIN kern.order :
    i < j /\ kern.log[kern.order[j]].started => kern.log[kern.order[i]].done # "no"

(* Policy allowed the call, or it needs an approval and has one. *)
Authorised(f) ==
  f.policy = "allow" \/ (f.policy = "require" /\ f.approval = "approved")

(* Why at most one executor is started for a call, as an invariant that every step
   keeps: what the log says of a call, by the state the kernel has it in; calls still being
   streamed have not been proposed; and an executor has been started for a call
   only if its ToolStarted was committed, once. *)
FactsAgree(f, state) ==
  /\ f.started => Authorised(f)
  /\ f.approval # "none" => f.policy = "require"
  /\ ~f.proposed => ~f.started /\ f.policy = "none" /\ f.approval = "none"
  /\ state \in {"proposed", "awaiting_approval", "allowed"} => ~f.started
  /\ state = "proposed" => f.proposed /\ f.policy = "none" /\ f.approval = "none"
  /\ state = "awaiting_approval" => f.policy = "require"
  /\ state = "allowed" => Authorised(f)
LogAgrees(t) == \A c \in Calls : FactsAgree(t.log[c], t.state[c])
StreamedCallsAreNew(t) ==
  ~t.active.backendDone => \A c \in Range(t.active.calls) : ~t.log[c].proposed
StartsAreLogged ==
  /\ \A c \in Calls : starts[c] # 0 => starts[c] = 1 /\ kern.log[c].started
  /\ pc = "spawn" => /\ up = "up" /\ kern.active.tool \in Calls
                     /\ kern.log[kern.active.tool].started
                     /\ starts[kern.active.tool] = 0
AuthorityInv == LogAgrees(kern) /\ StreamedCallsAreNew(kern) /\ StartsAreLogged

(* A run continues only when every call the model made has been closed: the
   next inference sees a result for each. *)
ContinuationComplete ==
  [][count'.inferences # count.inferences /\ count'.runs = count.runs
       => \A c \in Range(kern.order) : kern.log[c].done # "no"]_vars

(* The phase of a call, read off the log and the active run. *)
Phase(c) ==
  LET f == kern.log[c] IN
  IF f.done # "no" THEN "closed"
  ELSE IF f.started
       THEN IF kern.question = c /\ kern.proj.status = "awaiting_input" THEN "waiting"
            ELSE IF kern.state[c] = "running" THEN "running" ELSE "abandoned"
  ELSE IF f.policy = "allow" \/ f.approval = "approved" THEN "authorised"
  ELSE IF f.proposed THEN "proposed" ELSE "idle"

Lifecycle == INSTANCE ToolLifecycle WITH phase <- [c \in Calls |-> Phase(c)]

(* The kernel, its workers, the user and restarts together implement the
   lifecycle of ToolLifecycle: every step of theirs is one of its steps, or
   changes no phase. *)
ImplementsLifecycle == Lifecycle!Spec

(* A tool that runs is closed: by its result, its error, its deadline or a
   cancellation, through whatever backlog the queue has. *)
RunningToolCloses ==
  \A c \in Calls : (kern.state[c] = "running") ~> (kern.state[c] # "running")

(* Once ToolEnded is being processed the owner joins the deadline worker, whose
   push must not then be waiting for the queue the owner alone can empty. *)
JoinCompletes ==
  batch # <<>> /\ Update1.k = "tool_ended" /\ deadline = "firing"
    => Len(queue) < QueueCap

(* A run that is over lets go of the kernel, so that another can start, if a worker
   of its still runs or has said that it ends.  Only the end of a worker makes the
   kernel let go, so a run that failed when it had none is not spoken of. *)
Served ==
  \/ backend.at # "off" \/ worker.at # "off"
  \/ \E u \in Range(queue) \cup Range(batch) : u.k \in {"backend_ended", "tool_ended"}
TerminalRunReleased ==
  (kern.active.live /\ kern.active.over /\ Served) ~> ~kern.active.live

(***************************************************************************)
(* What the documentation says of the kernel and the code does not do.     *)
(***************************************************************************)
(* A session whose run waits for an approval reopens, unless an executor was cut
   off: the calls of its last batch are closed or not yet started. *)
PendingApprovalReopens ==
  up = "rejected" /\ kern.proj.status = "awaiting_approval" =>
    \E c \in Range(kern.order) : kern.log[c].started /\ kern.log[c].done = "no"
=============================================================================
