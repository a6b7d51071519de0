----------------------------- MODULE PlanGraph -----------------------------
(***************************************************************************)
(* Plan revisions, their projection from the event log                      *)
(* (src/src/lib/plan.cpp) and the schedule of their tasks                   *)
(* (src/src/lib/task_scheduler.cpp), as operators: PlanKernel keeps the     *)
(* state.                                                                   *)
(*                                                                          *)
(* What a planner may propose is the constant Revisions, a function from    *)
(* revision identities to                                                   *)
(*   [supersedes, basis, order, task]                                       *)
(* where basis says whether the revision is bound to a repository snapshot, *)
(* order lists the task identities as the plan does, and task maps each to  *)
(*   [deps, parent, effects, intents].                                      *)
(* An intent is [effect, kind, value]; the value of a path is the sequence  *)
(* of its segments and the empty one stands for a path that is not valid.   *)
(* There is one plan.                                                       *)
(***************************************************************************)
EXTENDS Naturals, FiniteSets, Functions, SequencesExt

CONSTANTS Revisions,        \* what may be proposed
          Nil,
          MaxConcurrency,   \* TaskSchedulingPolicy.maximum_concurrency
          MaxAttempts       \* TaskSchedulingPolicy.maximum_attempts

\* PlanDecision and SessionTaskOutcome; "retry" is an unavailable runner that
\* may be asked again
Decisions == {"approved", "revision_requested", "rejected"}
TaskOutcomes ==
  {"completed", "failed", "cancelled", "timed_out", "budget_exhausted",
   "unavailable", "retry"}

ASSUME PlanAssumption ==
  /\ Nil \notin DOMAIN Revisions \cup Decisions \cup TaskOutcomes
  /\ \A r \in DOMAIN Revisions :
       /\ Revisions[r].basis \in BOOLEAN
       /\ Revisions[r].order \in Seq(DOMAIN Revisions[r].task)
  /\ MaxConcurrency \in 1..16
  /\ MaxAttempts \in 1..8

TaskIds(r) == ToSet(Revisions[r].order)
Task(r, t) == Revisions[r].task[t]

-----------------------------------------------------------------------------
(* Validation of a revision. *)

\* has_cycle, negated: every nonempty set of tasks has a member with no edge
\* into the set.
Acyclic(edges) ==
  \A S \in (SUBSET DOMAIN edges) \ {{}} : \E t \in S : edges[t] \cap S = {}

TaskIsValid(r, t) ==
  LET task == Task(r, t) IN
  /\ task.deps \subseteq TaskIds(r) \ {t}
  /\ task.parent \in (TaskIds(r) \ {t}) \cup {Nil}
  /\ \A i \in task.intents : i.effect \in task.effects

\* validate_plan_revision
ValidatePlanRevision(r) ==
  /\ Revisions[r].supersedes # r
  /\ Revisions[r].order # <<>>
  /\ IsInjective(Revisions[r].order)
  /\ \A t \in TaskIds(r) : TaskIsValid(r, t)
  /\ Acyclic([t \in TaskIds(r) |-> {Task(r, t).parent}])
  /\ Acyclic([t \in TaskIds(r) |-> Task(r, t).deps])

-----------------------------------------------------------------------------
(* PlanGraphProjection: plan is the sequence of projected revisions, the    *)
(* last one current.  An attempt is [child, result]; the result "retry" is  *)
(* an unavailable runner that may be asked again, and every other result    *)
(* is the outcome.                                                          *)

Current(plan) == plan[Len(plan)]

\* PlanGraphProjection::state
State(plan) ==
  IF plan = <<>> THEN "not_started"
  ELSE IF Current(plan).invalidated THEN "invalidated"
  ELSE IF Current(plan).decision = Nil THEN "proposed"
  ELSE Current(plan).decision

IsMaterialized(plan) == State(plan) = "approved" /\ Current(plan).by # Nil

\* active_tasks, task_executions
ActiveTasks(plan) ==
  IF IsMaterialized(plan) THEN TaskIds(Current(plan).id) ELSE {}

CanPropose(plan, r) ==
  /\ ValidatePlanRevision(r)
  /\ Revisions[r].supersedes = IF plan = <<>> THEN Nil ELSE Current(plan).id
  /\ \A i \in DOMAIN plan : plan[i].id # r

Proposable(plan) == {r \in DOMAIN Revisions : CanPropose(plan, r)}

Propose(plan, r) ==
  Append(plan, [id |-> r, decision |-> Nil, invalidated |-> FALSE, by |-> Nil,
                exec |-> [t \in {} |-> <<>>]])

Materialize(plan, run) ==
  [plan EXCEPT ![Len(plan)].by = run,
               ![Len(plan)].exec =
                 [t \in TaskIds(Current(plan).id) |-> <<>>]]

\* Variant: a runner that is unavailable for good is asked again.
AwaitsAttemptUnavailable(attempts) ==
  attempts = <<>> \/ Last(attempts).result \in {"retry", "unavailable"}

\* the attempt history that lets ChildRunCreated follow
AwaitsAttempt(attempts) == attempts = <<>> \/ Last(attempts).result = "retry"

CanCreateChild(plan, r, t) ==
  /\ IsMaterialized(plan)
  /\ Current(plan).id = r
  /\ t \in DOMAIN Current(plan).exec
  /\ AwaitsAttempt(Current(plan).exec[t])

CreateChild(plan, t, child) ==
  [plan EXCEPT ![Len(plan)].exec[t] =
     Append(@, [child |-> child, result |-> Nil])]

\* Variant: a result is taken only while the revision is approved.
CanRecordResultWhileApproved(plan, r, t, child) ==
  /\ IsMaterialized(plan)
  /\ Current(plan).id = r
  /\ t \in DOMAIN Current(plan).exec
  /\ Current(plan).exec[t] # <<>>
  /\ Last(Current(plan).exec[t]) = [child |-> child, result |-> Nil]

CanRecordResult(plan, r, t, child) ==
  /\ plan # <<>>
  /\ Current(plan).id = r
  /\ t \in DOMAIN Current(plan).exec
  /\ Current(plan).exec[t] # <<>>
  /\ Last(Current(plan).exec[t]) = [child |-> child, result |-> Nil]

RecordResult(plan, t, outcome) ==
  [plan EXCEPT ![Len(plan)].exec[t][Len(Current(plan).exec[t])].result =
     outcome]

-----------------------------------------------------------------------------
(* Conflicts between tasks. *)

Mutates(task) == task.effects \ {"read"} # {}

PathsOverlap(p, q) == IsPrefix(p, q) \/ IsPrefix(q, p)

IntentRelation(x, y) ==
  CASE x.kind = "repository_path" /\ y.kind = "repository_path"
         -> IF x.value = <<>> \/ y.value = <<>> THEN "ambiguous"
            ELSE IF PathsOverlap(x.value, y.value) THEN "overlaps"
            ELSE "disjoint"
    [] x.kind = "repository_component" /\ y.kind = "repository_component"
         -> IF x.value = <<>> \/ y.value = <<>> THEN "ambiguous"
            ELSE IF x.value = y.value THEN "overlaps" ELSE "disjoint"
    [] OTHER -> "ambiguous"

\* task_resource_conflict
TaskResourceConflict(x, y) ==
  /\ Mutates(x) \/ Mutates(y)
  /\ \/ Mutates(x) /\ x.intents = {}
     \/ Mutates(y) /\ y.intents = {}
     \/ \E i \in x.intents, j \in y.intents :
          /\ ~(i.effect = "read" /\ j.effect = "read")
          /\ IntentRelation(i, j) # "disjoint"

-----------------------------------------------------------------------------
(* analyze_task_schedule of a projected revision p. *)

\* Variant: one attempt more than dispatch_child takes.
RetryableOnceMore(attempts) ==
  /\ attempts # <<>>
  /\ Len(attempts) <= MaxAttempts
  /\ Last(attempts).result = "retry"

Retryable(attempts) ==
  /\ attempts # <<>>
  /\ Len(attempts) < MaxAttempts
  /\ Last(attempts).result = "retry"

\* what the attempts alone say of a task
OwnState(attempts) ==
  IF attempts = <<>> \/ Retryable(attempts) THEN "ready"
  ELSE IF Last(attempts).result = Nil THEN "running"
  ELSE IF Last(attempts).result = "completed" THEN "completed"
  ELSE "failed"

Settle(r, states, t) ==
  IF states[t] \in {"running", "completed", "failed"} THEN states
  ELSE LET blockers == {d \in Task(r, t).deps : states[d] # "completed"} IN
       [states EXCEPT ![t] =
          IF blockers = {} THEN "ready"
          ELSE IF \E d \in blockers : states[d] \in {"failed", "blocked"}
               THEN "blocked"
               ELSE "waiting_for_dependencies"]

Pass(r, states) ==
  LET order == Revisions[r].order
      after[i \in 0 .. Len(order)] ==
        IF i = 0 THEN states ELSE Settle(r, after[i - 1], order[i])
  IN  after[Len(order)]

\* Variant: one pass over the tasks.
SettledOnce(r, states) == Pass(r, states)

\* The loop makes as many passes as there are tasks and stops at the first that
\* changes nothing, because a later one would change nothing either.
Settled(r, states) ==
  LET last == Len(Revisions[r].order)
      after[i \in 0 .. last] ==
        IF i = 0 THEN states ELSE Pass(r, after[i - 1])
  IN  after[last]

Select(r, states, running, chosen, t) ==
  IF /\ states[t] = "ready"
     /\ \A u \in running \cup ToSet(chosen) :
          ~TaskResourceConflict(Task(r, t), Task(r, u))
     /\ Len(chosen) + Cardinality(running) < MaxConcurrency
  THEN Append(chosen, t) ELSE chosen

\* the tasks to dispatch now, chosen in the order of the plan
Chosen(r, states) ==
  LET order == Revisions[r].order
      running == {t \in TaskIds(r) : states[t] = "running"}
      after[i \in 0 .. Len(order)] ==
        IF i = 0 THEN <<>>
        ELSE Select(r, states, running, after[i - 1], order[i])
  IN  after[Len(order)]

\* what the attempts alone say of every task
Own(p) ==
  [t \in TaskIds(p.id) |->
     IF t \in DOMAIN p.exec THEN OwnState(p.exec[t]) ELSE "ready"]

\* The readiness of every task by its dependencies, and the tasks to
\* dispatch now.
AnalyzeTaskSchedule(p) ==
  LET states == Settled(p.id, Own(p))
  IN  [states |-> states, dispatchable |-> Chosen(p.id, states)]
=============================================================================
