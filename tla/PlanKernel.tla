----------------------------- MODULE PlanKernel -----------------------------
(***************************************************************************)
(* Plans, their session tasks and the child runs that execute them, as the  *)
(* run kernel drives them (src/src/lib/run_kernel.cpp).                     *)
(*                                                                          *)
(* One owner thread calls the kernel.  Every child has a worker thread that *)
(* asks the child runner and a deadline thread; both push updates into the  *)
(* kernel's one bounded queue, which the worker of a conversation that runs *)
(* beside them fills too, and drain applies the updates one transaction at  *)
(* a time.  When an update ends a child, drain joins the two threads before *)
(* it goes on, so drain is a sequence of steps here and every other call    *)
(* waits for it.                                                            *)
(*                                                                          *)
(* runs is the sequence of the session's runs in the order of their start;  *)
(* what is in runs and plan is stored, because memory adopts a transaction  *)
(* after the store took it.                                                 *)
(* A conversation run is kept as the occupant of active and as the stream   *)
(* of updates its backend and tool workers push; RunKernel is about what    *)
(* those updates do.                                                        *)
(***************************************************************************)
EXTENDS PlanGraph

CONSTANTS MaxPending,    \* RunKernelLimits.pending_updates
          RunnerCapacity,\* ChildRunner::maximum_concurrency
          Reports,       \* how a child runner may report the end of a child
          Launches,      \* whether the threads of a child can be created
          Stores,        \* whether the store takes a transaction
          MaxRuns,       \* bound: runs of the session
          MaxChildren,   \* bound: child runs among them
          MaxRestarts    \* bound: restarts of the process

\* A worker reports an outcome, a result that is over its budget or malformed,
\* or that the runner failed: for good, or busy and to be asked again.
ReportKinds ==
  (TaskOutcomes \ {"retry"}) \cup
  {"over_budget", "malformed", "protocol_failure", "internal_failure",
   "runner_busy"}

ASSUME KernelAssumption ==
  /\ MaxPending \in Nat \ {0}
  /\ RunnerCapacity \in 1..16
  /\ Launches \subseteq BOOLEAN
  /\ Stores \subseteq BOOLEAN
  /\ Reports \subseteq ReportKinds
  /\ Nil \notin Nat

VARIABLES runs, plan,                 \* the stored session
          active, children, unusable, \* RunKernel::Impl
          ops, stream,                \* threads of children and conversation
          queue, batch, joining,      \* the queue, the drain
          restarts

durable == <<runs, plan>>
threads == <<ops, stream, queue, batch, joining>>
vars == <<runs, plan, active, children, unusable, ops, stream, queue, batch,
          joining, restarts>>

\* the occupant of active that is not one of runs
Conversation == 0

Init ==
  /\ runs = <<>> /\ plan = <<>>
  /\ active = Nil /\ children = [c \in {} |-> FALSE] /\ unusable = FALSE
  /\ ops = [c \in {} |-> Nil] /\ stream = "off"
  /\ queue = <<>> /\ batch = <<>> /\ joining = Nil
  /\ restarts = 0

-----------------------------------------------------------------------------
(* What the owner thread needs before it calls, and a failing store. *)

\* drain returned and no persistence failure occurred
Idle == batch = <<>> /\ joining = Nil /\ ~unusable

NextRun == Len(runs) + 1

\* active is empty, and the identity of the run to start is new
CanStartRun == Idle /\ active = Nil /\ NextRun <= MaxRuns

\* a map with one more entry
With(f, x, y) == [z \in (DOMAIN f) \cup {x} |-> IF z = x THEN y ELSE f[z]]

NoChildren == [c \in {} |-> FALSE]

NoThreads ==
  /\ ops' = [c \in {} |-> Nil] /\ stream' = "off"
  /\ queue' = <<>> /\ batch' = <<>>

\* commit when the store refuses: persistence_failure closes the queue, stops
\* the workers, whose updates have nowhere to go, and makes the kernel refuse
\* every later call.
PersistenceFailure ==
  /\ FALSE \in Stores
  /\ unusable' = TRUE
  /\ active' = Nil
  /\ children' = NoChildren
  /\ NoThreads
  /\ UNCHANGED <<joining, restarts>>

Refused == PersistenceFailure /\ UNCHANGED durable

-----------------------------------------------------------------------------
(* Plans. *)

\* the conversation's worker has ended and its last update was applied
Quiet == stream = "off" /\ \A i \in DOMAIN queue : queue[i].child # Conversation

\* start of a conversation, whatever children run, and what the owner does with
\* one that has no worker: an approval, an answer or a continuation starts one
\* again, a refusal or a cancellation may end the run
Converse ==
  /\ Idle
  /\ \/ /\ active \in {Nil, Conversation} /\ Quiet
        /\ active' = Conversation /\ stream' = "on"
        /\ UNCHANGED <<durable, children, unusable, ops, queue, batch, joining,
                       restarts>>
     \/ /\ active = Conversation /\ Quiet
        /\ active' = Nil
        /\ UNCHANGED <<durable, children, unusable, threads, restarts>>
     \/ active \in {Nil, Conversation} /\ Refused

StartRun(kind, status) == Append(runs, [kind |-> kind, status |-> status])

\* Variant: the planning run that awaits a decision is not looked for.
StartPlanUnchecked(r) ==
  /\ Idle /\ NextRun <= MaxRuns /\ r \in Proposable(plan)
  /\ \/ Refused
     \/ /\ TRUE \in Stores
        /\ runs' = StartRun("plan", "awaiting_plan_decision")
        /\ plan' = Propose(plan, r)
        /\ active' = NextRun
        /\ UNCHANGED <<children, unusable, threads, restarts>>

StartPlan(r) ==
  /\ CanStartRun /\ r \in Proposable(plan)
  /\ \/ Refused
     \/ /\ TRUE \in Stores
        /\ runs' = StartRun("plan", "awaiting_plan_decision")
        /\ plan' = Propose(plan, r)
        /\ active' = NextRun
        /\ UNCHANGED <<children, unusable, threads, restarts>>

IsPlanning == active \notin {Nil, Conversation}

RevisePlan(r) ==
  /\ Idle /\ IsPlanning
  /\ State(plan) \in {"revision_requested", "invalidated"}
  /\ r \in Proposable(plan)
  /\ \/ Refused
     \/ /\ TRUE \in Stores
        /\ runs' = [runs EXCEPT ![active].status = "awaiting_plan_decision"]
        /\ plan' = Propose(plan, r)
        /\ UNCHANGED <<active, children, unusable, threads, restarts>>

\* plan_basis_drift: moved says whether the repository left the snapshot
BasisDrift(moved) == moved /\ Revisions[Current(plan).id].basis

Invalidate == [plan EXCEPT ![Len(plan)].invalidated = TRUE]

\* decide_plan with an approval of a revision whose basis moved
DecideOnMovedBasis ==
  /\ Idle /\ IsPlanning /\ State(plan) = "proposed"
  /\ BasisDrift(TRUE)
  /\ \/ Refused
     \/ /\ TRUE \in Stores
        /\ plan' = Invalidate
        /\ runs' = [runs EXCEPT ![active].status = "awaiting_plan_revision"]
        /\ UNCHANGED <<active, children, unusable, threads, restarts>>

DecidePlan(decision) ==
  LET decided == [plan EXCEPT ![Len(plan)].decision = decision]
      ends == decision \in {"approved", "rejected"} IN
  /\ Idle /\ IsPlanning /\ State(plan) = "proposed"
  /\ \/ Refused
     \/ /\ TRUE \in Stores
        /\ plan' = IF decision = "approved" THEN Materialize(decided, active)
                   ELSE decided
        /\ runs' = [runs EXCEPT ![active].status =
                      IF ends THEN "completed" ELSE "awaiting_plan_revision"]
        /\ active' = IF ends THEN Nil ELSE active
        /\ UNCHANGED <<children, unusable, threads, restarts>>

\* revalidate_plan_approval when the basis drifted
RevalidatePlanApproval ==
  /\ CanStartRun /\ IsMaterialized(plan)
  /\ BasisDrift(TRUE)
  /\ \/ Refused
     \/ /\ TRUE \in Stores
        /\ runs' = StartRun("control", "completed")
        /\ plan' = Invalidate
        /\ UNCHANGED <<active, children, unusable, threads, restarts>>

-----------------------------------------------------------------------------
(* Child runs. *)

\* the revision and the task a child was dispatched for
DispatchOf(c) ==
  CHOOSE d \in [rev : DOMAIN Revisions,
                task : UNION {TaskIds(r) : r \in DOMAIN Revisions}] :
    \E i \in DOMAIN plan :
      /\ plan[i].id = d.rev
      /\ d.task \in DOMAIN plan[i].exec
      /\ \E k \in DOMAIN plan[i].exec[d.task] :
           plan[i].exec[d.task][k].child = c

IsCompleted(attempts) == attempts # <<>> /\ Last(attempts).result = "completed"

DispatchCapacity ==
  IF RunnerCapacity < MaxConcurrency THEN RunnerCapacity ELSE MaxConcurrency

\* the refusals of dispatch_child that read the kernel's state; the context,
\* the effects and the scopes of the start are valid
CanDispatch(t) ==
  LET r == Current(plan).id IN
  /\ active = Nil
  /\ Cardinality(DOMAIN children) < DispatchCapacity
  /\ CanCreateChild(plan, r, t)
  /\ Len(Current(plan).exec[t]) + 1 <= MaxAttempts
  /\ \A d \in Task(r, t).deps : IsCompleted(Current(plan).exec[d])
  /\ \A c \in DOMAIN children :
       /\ DispatchOf(c).task \in TaskIds(r)
       /\ ~TaskResourceConflict(Task(r, t), Task(r, DispatchOf(c).task))

Dispatchable == {t \in ActiveTasks(plan) : CanDispatch(t)}

\* A child that was created and whose threads could not be: the worker's
\* failure is recorded by a second transaction, which may be refused.
LaunchFailed(t) ==
  LET created == CreateChild(plan, t, NextRun) IN
  /\ FALSE \in Launches
  /\ \/ /\ TRUE \in Stores
        /\ runs' = StartRun("child", "failed")
        /\ plan' = RecordResult(created, t, "unavailable")
        /\ UNCHANGED <<active, children, unusable, threads, restarts>>
     \/ /\ runs' = StartRun("child", "running")
        /\ plan' = created
        /\ PersistenceFailure

Launched(t) ==
  /\ TRUE \in Launches
  /\ runs' = StartRun("child", "running")
  /\ plan' = CreateChild(plan, t, NextRun)
  /\ children' = With(children, NextRun, FALSE)
  /\ ops' = With(ops, NextRun, [worker |-> "running", deadline |-> "armed",
                                stop |-> FALSE, halt |-> FALSE])
  /\ UNCHANGED <<active, unusable, stream, queue, batch, joining, restarts>>

DispatchChild(t) ==
  /\ Idle /\ NextRun <= MaxRuns
  /\ Cardinality({i \in DOMAIN runs : runs[i].kind = "child"}) < MaxChildren
  /\ t \in Dispatchable
  /\ \/ Refused
     \/ TRUE \in Stores /\ Launched(t)
     \/ TRUE \in Stores /\ LaunchFailed(t)

\* cancel_run of a child: its worker is asked to stop, its deadline runs on
CancelChild(c) ==
  /\ Idle /\ c \in DOMAIN children /\ ~children[c]
  /\ \/ Refused
     \/ /\ TRUE \in Stores
        /\ children' = [children EXCEPT ![c] = TRUE]
        /\ ops' = [ops EXCEPT ![c].stop = TRUE]
        /\ UNCHANGED <<durable, active, unusable, stream, queue, batch, joining,
                       restarts>>

\* push: it waits for space
Push(update) ==
  /\ Len(queue) < MaxPending
  /\ queue' = Append(queue, update)

\* run_child: the runner's stream ends and one update is pushed
WorkerReports(c) ==
  /\ ops[c].worker = "running"
  /\ \E report \in Reports : Push([child |-> c, report |-> report])
  /\ ops' = [ops EXCEPT ![c].worker = "ended"]
  /\ UNCHANGED <<durable, active, children, unusable, stream, batch, joining,
                 restarts>>

\* the deadline thread's wait is over: it was stopped, or it will push
DeadlineWakes(c) ==
  /\ ops[c].deadline = "armed"
  /\ ops' = [ops EXCEPT ![c].deadline =
               IF ops[c].halt THEN "ended" ELSE "expired"]
  /\ UNCHANGED <<durable, active, children, unusable, stream, queue, batch,
                 joining, restarts>>

DeadlinePushes(c) ==
  /\ ops[c].deadline = "expired"
  /\ Push([child |-> c, report |-> "deadline"])
  /\ ops' = [ops EXCEPT ![c].deadline = "ended", ![c].stop = TRUE]
  /\ UNCHANGED <<durable, active, children, unusable, stream, batch, joining,
                 restarts>>

\* run_backend, run_tool: the conversation's worker pushes what it was sent, as
\* long as it is sent something, and its end
StreamPushes ==
  /\ stream = "on"
  /\ \/ Push([child |-> Conversation, report |-> "event"]) /\ UNCHANGED stream
     \/ Push([child |-> Conversation, report |-> "ended"]) /\ stream' = "off"
  /\ UNCHANGED <<durable, active, children, unusable, ops, batch, joining,
                 restarts>>

-----------------------------------------------------------------------------
(* drain. *)

Drain ==
  /\ Idle /\ queue # <<>>
  /\ batch' = queue
  /\ queue' = <<>>
  /\ UNCHANGED <<durable, active, children, unusable, ops, stream, joining,
                 restarts>>

\* The result of a report: a result keeps its outcome with a redacted error,
\* so only the runner's own failure can ask for a retry; a result that breaks
\* its budget or the contract is none.
OutcomeOf(report) ==
  CASE report = "over_budget" -> "budget_exhausted"
    [] report \in {"malformed", "protocol_failure", "internal_failure"}
         -> "failed"
    [] report = "runner_busy" -> "retry"
    [] report = "deadline" -> "timed_out"
    [] OTHER -> report

RunStatusOf(outcome) ==
  CASE outcome = "completed" -> "completed"
    [] outcome \in {"cancelled", "timed_out"} -> "cancelled"
    [] OTHER -> "failed"

\* an update whose child is over, or whose result the plan rejects because a
\* superseding revision is current, changes nothing
Ignored(u) ==
  u.child \notin {c \in DOMAIN children :
                   CanRecordResult(plan, DispatchOf(c).rev, DispatchOf(c).task, c)}

\* Variant: the child's threads are stopped and left to end by themselves.
EndChildDetached(c, outcome) ==
  /\ runs' = [runs EXCEPT ![c].status = RunStatusOf(outcome)]
  /\ plan' = RecordResult(plan, DispatchOf(c).task, outcome)
  /\ children' = [d \in DOMAIN children \ {c} |-> children[d]]
  /\ ops' = [ops EXCEPT ![c].stop = TRUE, ![c].halt = TRUE]
  /\ joining' = Nil

\* record_child_terminal, and finish_child_operation begins to join
EndChild(c, outcome) ==
  /\ runs' = [runs EXCEPT ![c].status = RunStatusOf(outcome)]
  /\ plan' = RecordResult(plan, DispatchOf(c).task, outcome)
  /\ children' = [d \in DOMAIN children \ {c} |-> children[d]]
  /\ ops' = [ops EXCEPT ![c].stop = TRUE, ![c].halt = TRUE]
  /\ joining' = c

\* process_child_result, process_child_failure, process_child_deadline
ProcessUpdate ==
  /\ batch # <<>> /\ joining = Nil /\ Head(batch).child # Conversation
  /\ LET u == Head(batch) IN
     \/ /\ Ignored(u)
        /\ batch' = Tail(batch)
        /\ UNCHANGED <<durable, active, children, unusable, ops, stream, queue,
                       joining, restarts>>
     \/ ~Ignored(u) /\ Refused
     \/ /\ ~Ignored(u) /\ TRUE \in Stores
        /\ EndChild(u.child, IF children[u.child] THEN "cancelled"
                             ELSE OutcomeOf(u.report))
        /\ batch' = Tail(batch)
        /\ UNCHANGED <<active, unusable, stream, queue, restarts>>

\* an update of the conversation: its end may be that of the run, or drain
\* launches the next tool's worker
ProcessConversation ==
  /\ batch # <<>> /\ joining = Nil /\ Head(batch).child = Conversation
  /\ \/ Refused
     \/ /\ TRUE \in Stores
        /\ \/ UNCHANGED <<active, stream>>
           \/ /\ Head(batch).report = "ended" /\ active = Conversation
              /\ \/ active' = Nil /\ UNCHANGED stream
                 \/ stream' = "on" /\ UNCHANGED active
        /\ batch' = Tail(batch)
        /\ UNCHANGED <<durable, children, unusable, ops, queue, joining, restarts>>

\* the operation is erased: both of its threads have ended
FinishChildOperation ==
  /\ joining # Nil
  /\ ops[joining].worker = "ended" /\ ops[joining].deadline = "ended"
  /\ ops' = [c \in DOMAIN ops \ {joining} |-> ops[c]]
  /\ joining' = Nil
  /\ UNCHANGED <<durable, active, children, unusable, stream, queue, batch,
                 restarts>>

-----------------------------------------------------------------------------
(* open_durable after the process ended, however it ended. *)

AwaitingRuns ==
  {i \in DOMAIN runs : runs[i].status \in {"awaiting_plan_decision",
                                           "awaiting_plan_revision"}}

\* what open_durable requires of the stored plans
CanReopen ==
  /\ Cardinality(AwaitingRuns) <= 1
  /\ AwaitingRuns # {} =>
       State(plan) \in {"proposed", "revision_requested", "invalidated"}

Restart ==
  /\ restarts < MaxRestarts
  /\ CanReopen
  /\ active' = IF AwaitingRuns = {} THEN Nil
               ELSE CHOOSE i \in AwaitingRuns : TRUE
  /\ children' = NoChildren /\ unusable' = FALSE
  /\ NoThreads /\ joining' = Nil
  /\ restarts' = restarts + 1
  /\ UNCHANGED durable

-----------------------------------------------------------------------------

Next ==
  \/ Converse
  \/ \E r \in DOMAIN Revisions : StartPlan(r) \/ RevisePlan(r)
  \/ DecideOnMovedBasis
  \/ \E d \in Decisions : DecidePlan(d)
  \/ RevalidatePlanApproval
  \/ \E t \in ActiveTasks(plan) : DispatchChild(t)
  \/ \E c \in DOMAIN children : CancelChild(c)
  \/ \E c \in DOMAIN ops :
       WorkerReports(c) \/ DeadlineWakes(c) \/ DeadlinePushes(c)
  \/ StreamPushes
  \/ Drain \/ ProcessUpdate \/ ProcessConversation \/ FinishChildOperation
  \/ Restart

Spec == Init /\ [][Next]_vars

\* The runner's stream ends once its stop token is set, the deadline thread's
\* wait ends, and the owner drains.  A thread that waits in push gets the space
\* some time if there is space again and again: every waiter is notified, and
\* the conversation's worker does not win the mutex for ever.
Fairness ==
  /\ \A c \in 1..MaxRuns :
       /\ SF_vars(c \in DOMAIN ops /\ ops[c].stop /\ WorkerReports(c))
       /\ WF_vars(c \in DOMAIN ops /\ DeadlineWakes(c))
       /\ SF_vars(c \in DOMAIN ops /\ DeadlinePushes(c))
  /\ WF_vars(Drain)
  /\ WF_vars(ProcessUpdate)
  /\ WF_vars(ProcessConversation)
  /\ WF_vars(FinishChildOperation)

FairSpec == Spec /\ Fairness

-----------------------------------------------------------------------------
(* Properties. *)

\* The three records of a child agree: every attempt but the last of a task
\* asked for a retry, an attempt has a result exactly when its run is over and
\* with the status that result gives, and the children the kernel serves are
\* open attempts whose threads it owns (dispatch_child, record_child_terminal,
\* finish_child_operation, the plan projection).
ChildrenMatchAttempts ==
  /\ \A i \in DOMAIN plan : \A t \in DOMAIN plan[i].exec :
       LET attempts == plan[i].exec[t] IN
       \A k \in DOMAIN attempts :
         /\ k < Len(attempts) => attempts[k].result = "retry"
         /\ runs[attempts[k].child].status =
              IF attempts[k].result = Nil THEN "running"
              ELSE RunStatusOf(attempts[k].result)
  /\ \A c \in DOMAIN children : runs[c].status = "running"
  /\ ~unusable => DOMAIN children = DOMAIN ops \ {joining}

\* Two workers that run at the same time for the current revision are of tasks
\* that do not conflict, also while one of them is over and only its thread is
\* still running (dispatch_child against the join in drain).
WorkersAreIndependent ==
  \A c, d \in {e \in DOMAIN ops : ops[e].worker = "running"} :
    LET x == DispatchOf(c)  y == DispatchOf(d) IN
    c # d /\ x.rev = Current(plan).id /\ y.rev = x.rev =>
      ~TaskResourceConflict(Task(x.rev, x.task), Task(y.rev, y.task))

\* The session can always be opened again: at most one planning run awaits, its
\* plan can still be decided or revised, and until a failure of the store it is
\* the run that start_plan, decide_plan and dispatch_child see as active.
AwaitingPlanIsServed ==
  /\ CanReopen
  /\ ~unusable => AwaitingRuns = IF IsPlanning THEN {active} ELSE {}

\* the kernel serves nothing but children of the current revision
ServesCurrentRevision ==
  /\ IsMaterialized(plan)
  /\ Idle /\ active = Nil
  /\ \A c \in DOMAIN children : DispatchOf(c).rev = Current(plan).id

\* Every task the schedule offers is one dispatch_child accepts: the two count
\* attempts, capacity, dependencies and conflicts the same way
\* (analyze_task_schedule against dispatch_child).
ScheduleIsAdmissible ==
  ServesCurrentRevision =>
    \A t \in ToSet(AnalyzeTaskSchedule(Current(plan)).dispatchable) :
      t \in Dispatchable

\* the tasks that can never run: they depend, over tasks that have not run, on
\* one that failed for good
Doomed(p) ==
  LET own == Own(p)
      Closed(S) == \A t \in TaskIds(p.id) :
        /\ own[t] = "failed" => t \in S
        /\ own[t] = "ready" /\ Task(p.id, t).deps \cap S # {} => t \in S
  IN  {t \in TaskIds(p.id) : own[t] = "ready" /\
         \A S \in SUBSET TaskIds(p.id) : Closed(S) => t \in S}

\* The schedule neither stalls nor gives up early: a task is called blocked
\* exactly when a failed task is among the ones it waits for, however far, and
\* while nothing runs some task is offered unless all are over or blocked
\* (validate_plan_revision, analyze_task_schedule).
ScheduleNeverStalls ==
  IsMaterialized(plan) =>
    LET p == Current(plan)
        schedule == AnalyzeTaskSchedule(p)
        In(states) == {t \in TaskIds(p.id) : schedule.states[t] \in states} IN
    /\ In({"blocked"}) = Doomed(p)
    /\ In({"running"}) = {} /\ schedule.dispatchable = <<>> =>
         In({"completed", "failed", "blocked"}) = TaskIds(p.id)

\* No child is lost: whatever order its result, its deadline and a cancellation
\* arrive in, one that holds a slot is being joined, or has a thread that will
\* still report or an update on its way, unless a superseding revision was
\* proposed while it ran (process_child_result, process_child_deadline,
\* finish_child_operation).  An update that is dropped with nothing behind it
\* would leave the slot taken for good.
InFlight(c) == \E u \in Range(queue) \cup Range(batch) : u.child = c
NoChildIsLost ==
  \A c \in DOMAIN ops :
    \/ DispatchOf(c).rev # Current(plan).id
    \/ joining = c
    \/ ops[c].worker = "running" \/ ops[c].deadline # "ended"
    \/ InFlight(c)

\* drain returns to its caller, as its contract and every test of a bounded
\* queue have it: the worker of a conversation does not keep the owner from a
\* child (drain, finish_child_operation, push).
DrainReturns == (batch # <<>> \/ joining # Nil) ~> (batch = <<>> /\ joining = Nil)
=============================================================================
