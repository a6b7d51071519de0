# AIForge: models, checks and proofs

AIForge is a C++23 terminal client for AI providers. A *session* is an
append-only log of run events, kept in memory and in a SQLite store. A *run* is
one user turn: it alternates *inferences* (a provider stream) and the *tool
calls* the model proposed, which a policy, and sometimes the user, must allow
before they execute. Some tools cost money, some ask the user a question, and a
process may stop at any point and reopen the session later.

This directory models the parts of that system whose correctness depends on the
order of concurrent, failing or interrupted steps, checks them with TLC and proves
the central safety properties with TLAPS.

## 1. The system

| Component | State it keeps | Operations | Interacts with |
|---|---|---|---|
| Run kernel (`run_kernel.cpp`) | event log, run projections, the active run and its invocations, a bounded queue of worker updates, backend / tool / deadline threads | `start`, `continue_run`, `drain`, `cancel_run`, `decide_tool_approval`, `answer_questions`, `cancel_questions`, `open_durable` | backend stream, tool executors, policy, session store, surface |
| Run projection (`run_projection.cpp`) | status, active inference, pending approvals of a run, as a reducer of events | `apply` | kernel (every recorded event passes through it), replay |
| Paid-tool spend (`tool_spend.cpp`, `usage_ledger.cpp`, `inference_spend.cpp`, parts of the kernel) | ledgers derived from the log: reservations, ceilings, inference costs | reserve, settle, set ceiling, preflight, recover an ambiguous append | kernel, store, other processes on the same session |
| Session store (`sqlite_session_store.cpp`) | sessions and events in SQLite | create, append (sequence check), replay, list, migrate | every durable component |
| Chat session (`chat_session.cpp`) | surface-side owner of kernel, context, persona, evidence permits | `submit`, `continue_if_ready`, `drain`, decisions | kernel, context builder, surfaces |
| Plans and tasks (`plan.cpp`, `plan_task_controller.cpp`, `task_scheduler.cpp`, `project_backlog.cpp`, parts of the kernel) | plan revisions with their decisions, tasks and attempts, derived from the log; the backlog | `start_plan`, `revise_plan`, `decide_plan`, `revalidate_plan_approval`, `promote_project_task`, `update_project_task_status`, `analyze_task_schedule` | kernel, repository snapshot |
| Child runs (`child_run.cpp`, kernel) | one worker and one deadline thread per child, the active children | `dispatch_child`, `drain`, `cancel_run` | child runner, plan projection |
| Conversation context and summaries | selected history, summary publications and activations | admit, select, publish, edit, activate, disable | kernel log |
| Ops observations (`ops_observation_broker.cpp`, `ops_log_consent.cpp`, `admin_controller.cpp`, parts of chat session and kernel) | the broker's mailbox, authority and source; the log consent; the controller's selection, preparation and current run; the recorded history | select, read, enable and disable logs, cancel, switch session, `pump` | source worker, executor threads, kernel, store |
| Local sources (`local_source_worker.cpp`, `local_source_browser.cpp`, `local_source_grants.cpp`, `local_context_controller.cpp`) | a bounded pool of jobs with two threads each; leases of granted folders and who borrows them; the browser's listing, selection and pending work | add and remove folder, read, prepare context, poll, cancel, activate session | file system, chat session, Ops observations |
| Video lifecycle (`video_coordinator.cpp`, `video.cpp`) | a projection of the run's events, rebuilt by every call | `generate` (quote, queue, retrieve, publish, cleanup), `transcribe`, `replay` | provider, session store, artifact store, run projection |
| Audio devices and media formats | a device gate | capture, play, validate | files, devices |
| Tool policy and automatic approval | profiles, scope grants, compiled rules | evaluate, match | kernel |
| Process tool and launcher | a child process, its pipes, timers and restrictions | launch, drain, time out, kill, reap | kernel executor threads |
| Review gate, memory, repository knowledge, agent JSONL protocol, providers, configuration, artifacts, terminal surfaces | see `PROJECT.json` | | |

What is hard in it:

- **Threads and a queue.** The kernel has one owner thread and up to three workers
  that push into a bounded queue. Updates arrive late, in any order, and while the
  owner is joining a worker.
- **Restarts.** Everything a run did must be rebuilt from the events that were
  stored; a process may die between the commit that starts a tool and the thread
  that executes it.
- **Deadlines.** A tool's deadline races its result, its question and its end.
- **Ambiguous writes.** An append may fail after it was written, and two processes
  may have the same session open.
- **Money.** A provider may charge after the process has given up on the call.
- **Detached work.** Reads of folders and of observed systems run on threads that
  cannot be interrupted; their results arrive after the user has moved on, and
  what they hold must be given back all the same.
- **Authority.** A tool may run only with a permission that is still valid, once,
  and in the order the provider asked.

For each component the properties that make it correct are listed in `PROJECT.json`
under `hazards`, with the line at which each hazard bites.

## 2. Modules

| Module | What it is |
|---|---|
| `RunProjection` | the run reducer as functions `Accepts…` / `…ed` of a projection (no state of its own) |
| `ToolLifecycle` | abstract specification of a tool call: idle, proposed, authorised, running, waiting, closed, abandoned |
| `RunKernel` | the kernel with its workers, user, store failures and restarts; uses `RunProjection`, implements `ToolLifecycle` |
| `RunKernelApprovals` | `RunKernel` with a history of the user's approvals |
| `MCRunKernelApprovals` | the module TLC runs for the kernel |
| `RunKernelProofs` | theorems about `RunKernel`: types, what the log says of each call, at most one start |
| `RunKernelProtocol` | theorems about `RunKernel`: the transaction against the projection, the order of the calls, accepted records, and the authority of `RunKernelApprovals` |
| `RunKernelFlight` | theorems about `RunKernel`: the threads and the updates in flight, and the refinement of `ToolLifecycle` |
| `ToolSpend` | spend ledger, reservation, settlement, ambiguous appends, several processes |
| `MCToolSpend` | quotes and symmetry for TLC |
| `ToolSpendProofs` | theorems about `ToolSpend` |
| `VideoProjection` | the video reducer: which event is accepted in which state, and what it changes; instantiates `RunProjection` |
| `VideoCoordinator` | the calls of `generate` and `transcribe` on the runs of one session, with the provider, the stores and the clock around them |
| `MCVideoCoordinator` | sets of requests and symmetry for TLC |
| `VideoCoordinatorProofs` | theorems about `VideoCoordinator` |
| `LocalSourceWorker` | the worker: jobs, the relay and the source thread of each, submit, poll, cancel |
| `LocalSourceGrants` | the registry of leases: reserve, accept, revoke, borrow, reclaim |
| `LocalSourceBrowser` | the browser over both, with context preparation and the ports the threads call |
| `MCLocalSources` | model values for TLC |
| `LocalSourceProofs` | theorems about `LocalSourceBrowser` |
| `OpsBroker` | the mailbox between executor and owner, the authority and the log consent; on `LocalSourceWorker` |
| `AdminOps` | the admin controller composed with broker, chat session, kernel, executor and worker |
| `MCAdminOps` | model values for TLC |
| `AdminOpsProofs` | theorems about `AdminOps` |
| `PlanGraph` | plan revisions: validation, projection, conflicts and schedule, as operators |
| `PlanKernel` | plans, session tasks, child runs and the queue they share with the conversation, as the kernel drives them |
| `MCPlanKernel` | the plans of the run |
| `PlanKernelProofs` | theorems about `PlanKernel` |

A definition whose name extends another's (`ConflictNever`, `SettledOnce`) and which no
action uses is a faulty variant of it: `PROJECT.json`, `mutants`, says which property
catches it.

### RunKernel and the code

`kern` is the committed `Transaction` of the code: `log` holds what the events say
of each call (proposed, policy, approval, spend, started, done), `proj` the
projection of the current run, `order` the calls of the last inference, `question`
the call the last `RunAwaitingInput` names, `active` the flags of `ActiveRun` and
`state` each `InvocationState`. The log is kept as these facts and not as a
sequence because replay only ever uses them; earlier runs of a session are over or
unrecoverable and take no further part.

Each owner operation in the code copies the state, records events in the copy,
appends them to the store and adopts the copy. In the model that is one action,
whose new `kern` is the adopted transaction; `KernelStops` may take the place of
any commit (`persistence_failure`, or the process dying), and `Reopen` is
`open_durable`: it settles interrupted paid calls, classifies the run as recoverable
or not, renews consumed approvals, and rejects a history it does not accept. Where
the code commits twice in one call (launching a tool: commit `ToolStarted`, then
create the thread) there are two actions and `pc` says which is next.

`queue` is the worker queue, `batch` what a drain has swapped out and is processing;
one action per update kind (`ProcessBackendEvent`, `ProcessToolResult`,
`ProcessDeadline`, …) takes the head. `backend`, `worker` and `deadline` are the
threads. `count` and `starts` are bounds and history that no guard of the code reads,
except that `count.inferences` tags updates so that cross-talk can be stated.

The backend stream, the executors and the policy are inputs: which kinds of event
they may deliver is a constant, and `Conforming` says whether the stream keeps its
protocol. Text, arguments, artifacts and usage numbers are left out; `delta`,
`bad_artifact`, `bad_spend` and `over_budget` stand for the checks on them. The
code evaluates the policy again when a session is reopened, but only accepts a
policy with the same recorded provenance, so the model keeps the first outcome.

Whether an approval was given to the process that uses it is not in the kernel's
state: the log keeps it as long as it keeps the run. `RunKernelApprovals` therefore adds
a variable, `granted`, to every step of `RunKernel`; no guard reads it. It forgets an
approval at a restart that finds the run running, where `open_durable` asks again
(`recovering_unstarted_authority`, `run_kernel.cpp:4791-4817`), and marks it as kept at
one that finds the run waiting, where the code keeps it (5259-5284).

### ToolSpend and the code

Here the log is a sequence, because the store's sequence check and the comparison of
replayed logs in `recover_paid_terminal_persistence` are what is studied. Each
process holds a `log`, the step it is `at`, and, while it recovers a failed
settlement, the `batch` it tried and where it would go on (`then`). Only events the
ledgers read are kept. `Status`, `Accepts`, `Charged`, `Accounted` and `Ceiling` are
the ledgers as functions of a log. `Commit` is the kernel's `commit`; `Verify`,
`Retry` and `VerifyRetry` are the recovery, one action per access to the store, so
that another process can act in between. `Contact` and `ExecutorEnds` are the paid executor
(`image_tool.cpp:235-403`); the provider behind it is external: it is contacted at most once,
charges at most the quote, and no less is reported than was charged.

### VideoCoordinator and the code

`durable` is the projection of each stored run and `seq` the length of the stored log:
these are all that `load_state`, `rebuild` and the sequence check read. `inv[c]` is one
call of `generate` or `transcribe`: its copy of the run (`video`) and of the log length
(`seq`), the `batch` it is about to append and what comes `next`. A call goes round the
loop of `generate`; each branch of the loop is an action that makes the provider call and
takes its answer, and the append that records it is another action, so a crash, a stop, a
second caller or another writer can come between. `AppendFails` covers a store that wrote
the batch and one that did not. `MayRetry` is the reload after a conflict.

The job of an operation is named by the operation, because the provider promises to return
the same job for the same operation (`backend/video.hpp`); it may do what was asked and
report an error all the same, may report any status in any order, and has no media for a
job it has cleaned up. The prompt, the quote, the media and the text are outcomes (valid or
not). Opening a session and replaying it are one step: an append between the two makes the
code refuse, which the model counts as any other refusal. The clock may be set to any time.

### Local sources and the code

A job of the worker has two threads: the relay, which turns a cancellation into a stop
request to the reader, and the source thread, which calls the port and publishes. Both are
detached, and a job occupies its slot until both are over (`Retired`). `worker` is the
worker's table of jobs, `grants` the registry's records and `browser` the state the owner
thread sees. The owner's calls are operators on a record of all three, because one call of
the browser performs several of them; the threads are actions of their own.

The readers, the folder factory and the repository controller are ports: a port call begins
in one step and returns in another with any answer. The generation of a lease is the
identity of the request that created it, since both only grow together. Releasing the
factory is part of reclaiming, and a port's return and the publication of its result are
one step: nothing reads the state between them. A selected source is its root and digest.
`Launches` says which of a job's two threads can be created, `Purposes` which reads are made.

The application gives the local browser and the admin controller one `LocalSourceWorker`
(`process_interactive.cpp:1668`). `LocalSourceBrowser` and `AdminOps` give each its own. The
two sets of jobs have no state in common but the worker's capacity and its counter of
identities: a job is named by its own identity, and each client polls, claims and cancels
only its own. What is lost is a worker that is full with the other's jobs. To a client that
is the refusal it meets when its own jobs fill the worker, which both models have, but it may
then last longer.

### Ops observations and the code

`broker` is the broker with its mailbox and the consent of the activation, `exec` the
executor thread of the observation under way, `session` the chat session and its kernel as
far as observations are concerned, `history` what each session recorded, and `admin` the
controller. Every handler of the owner takes the record `Here` through the calls the code
makes and ends in `Becomes`; `ok` and `why` are the outcome of the last call, so that the
error paths (`report`, `fail_closed`, `close_observation_admission`) are the code's.
`Service` visits the entries in the order they came in, which is that of their tickets.

Abstractions: one log source per target, which every authority may permit; only the health
slot of the snapshots, because it is the evidence for a log source; a ticket is the number of
the invocation. Each commit of a handler has its own outcome of the store: the run may be
recorded and its launch fail, and a cancellation may be stored and the new selection not.
What was not stored is not adopted, except that a result once taken from the broker is gone
from it. A preparation's deadline may pass before the controller looks at the clock, between
its look and the worker's, or not at all (`Lateness`). A model run only proposes
observations, waits for decisions and ends. Exceptions, the mailbox's `failed` latch, the
closing of the application, and the texts of phases, freshness and problems are left out;
threads that cannot be created are `RunKernel`'s subject. A call that is refused without an
effect is no step.

### Plans, child runs and the code

`runs` and `plan` are what the stored events say of the session's runs and of the plan;
`plan` is the sequence of projected revisions, each with its decision, its invalidation and
the attempts of its tasks. `active` and `children` are the kernel's fields, `ops` the two
threads of each child, `queue` the kernel's queue, and `batch` and `joining` the place
`drain` has come to: it applies one update per transaction, and after an update that ends a
child it joins that child's threads before it goes on. The loops of `analyze_task_schedule`
are recursive functions over the positions of the plan's task list.

There is one plan. Of a conversation two things are kept: that it occupies `active`, and its
worker (`stream`), which pushes any number of updates into the queue of the children
(`run_kernel.cpp:2130-2143`) and may run while they do, since `start` refuses only another
active run (5793). When its worker has ended, the owner may give it another, for a tool, an
answer or a continuation (`Converse`); what its updates say is `RunKernel`'s subject. The
context, effects and scopes of a dispatch are valid. The draft and verdict of a review
receipt are recorded with the attempt or the result and not kept. After a persistence
failure no update reaches the kernel, so its threads are dropped. The project backlog is not
modelled: promoting a task and setting its status touch neither plan nor children. `start_plan`, `revise_plan`, `revalidate_plan_approval`
and `dispatch_child` are called by tests only in this version; the terminal surface decides,
promotes and inspects.

## 3. Runs

Passing runs:

| Run | Question | Properties |
|---|---|---|
| `kernel_recovery` | Two calls (a question and a paid one), approvals, deadlines, cancellation, failing threads, malformed answers of the policy, and a crash or storage failure at any commit, then a restart. Does the kernel stay consistent and implement the lifecycle, on whose approval is an executor started, does every running tool close, and does every finished run that has a worker release the kernel? | `TypeOK`, `KernelMatchesProjection`, `AtMostOnce`, `ProviderOrder`, `ContinuationComplete`, `ImplementsLifecycle`, `NoToolWithoutAuthority`, `RunningToolCloses`, `TerminalRunReleased` |
| `kernel_protocol` | A provider and executors that break their protocols in every order, a one-slot queue, both drain modes, two runs that reuse call ids. | `NoCrossTalk`, `RecordedEventsAreAccepted`, and `JoinCompletes`: the owner never joins a deadline worker that waits for the owner |
| `spend_ledger` | Two processes on one session, appends that may lie and retries that fail, crashes, executors that outlive their call, continued runs, inferences cut off before their cost is known. | `StoreReplays`, `MemoryIsStored`, `CeilingHolds`, `ChargesAreAccounted` |
| `video_recovery` | One caller that dies, loses appends, is stopped or runs out of time at any step, and resumes. | `StoredRunsRebuild`, `JobsMatchRuns`, `PublishedIsNotRepeated`, `CallsReturn` |
| `video_callers` | Two callers with copies of different age, on one run or on two runs that name one operation. | `OneRunPerOperation`, `AnswersAreStored`, `PublishedIsKept` |
| `local_sources` | Folders added and removed, sessions switched, reads and preparations cancelled at any step, threads that cannot be created. | `LeaseOutlivesReaders`, `LiveWorkIsPending`, `GrantsMatchFolders`, `ContextIsCurrent` |
| `local_reclaim` | Is every revoked lease destroyed and every cancelled job retired, whatever the owner does and after it has ended? | `RevokedLeasesAreReclaimed`, `CancelledWorkRetires` |
| `admin_ops` | Session switches, consent given and withdrawn, cancellations, deadlines, lost sources and a store that refuses, in every order. | `NothingIsStranded`, `ControllerMatchesBroker`, `SourceIsOfThisSession`, `HistoryIsCoherent`, `LogsNeedConsent` |
| `plan_tasks` | Plans proposed, decided, revised, superseded and invalidated while their tasks run as children; retries, cancellations, deadlines, failing threads and stores, a restart. | `ChildrenMatchAttempts`, `WorkersAreIndependent`, `AwaitingPlanIsServed`, `ScheduleIsAdmissible`, `ScheduleNeverStalls`, `NoChildIsLost` |

Every property is falsified by at least one mutant of a mapped definition
(`PROJECT.json`, `mutants`): a dropped guard, a missing reset, a skipped settlement,
a sequence check that always passes.

**Bounds.** Two calls are the least for which provider order, a batch with one call
running and one waiting, and a reused id can happen. Two inferences are the least for
a continuation and for facts left over from an earlier batch; one restart reaches
every crash point once; a queue of one slot makes every push block, one of two lets
updates of two workers be queued together. `MaxBackendEvents = 4` lets a stream
start, name two calls and finish. `kernel_recovery` leaves out the policy's outcomes `error`
and `unpresentable`, which close the call as `deny` does, and progress updates, whose
event no fact of the model depends on; `kernel_protocol` has `error` and progress.

In `spend_ledger` a call is quoted what an inference costs, and the ceilings are one and two of
these: a reservation can meet the ceiling exactly or pass it by one, two processes can want the
same remainder, and the ceiling can be narrowed between two calls; two faults let both the
first append and its retry fail; two openings let two processes meet, or one reopen
after a crash.

In the video runs two polls allow a status to repeat, advance or regress and then meet the
limit; an attempt number of at most 2 or 3 stands for the largest `uint32`, so that its end
is reached; one reload and one event of another writer allow a retry that works and one
that does not; a clock of two or three values around a timeout of
one or two has a time before the start, in time and too late. Two callers suffice for a
stale copy, because every conflict is between one copy and the store; both runs of `video_callers` name
one operation, so that each can claim it.

In the local runs three requests are the least for a grant, a read under it and a preparation
at the same time, and also for a folder that is removed and added again with a read of the
first lease under way; two slots are the least for a full worker and a full registry; two
activations let work of one session end in the next. One root suffices for a duplicate,
because a second grant may turn out to be the root of the first. The liveness run has two
requests.

In `admin_ops` three requests are a preparation and two observations, three generations a
selection and two changes of the consent, and two runs one that is stopped and one after it;
the policy always asks, which reaches every other path through the decision. The source
may answer or disconnect, which is the answer the session does not survive; an ordinary
failure is the same step without the loss. Threads start (`Launches`), and one target
suffices because selecting it again changes generation and revision like another would.
The sessions are symmetric: nothing tells one from another but its name.

In `plan_tasks` the first plan is a chain of three tasks listed last first, so that one pass
over them is not enough, beside an independent task; a second plan has two tasks that
conflict; one revision supersedes the first plan, and one must be refused because it has a
cycle. Three runs with two children allow two children at once, a retry, and a plan
that supersedes a running child. `MaxPending = 2` lets the conversation fill the queue, alone
or together with a child, so that every push can block. The runner completes or is busy; the other reports differ only in
the outcome that is recorded. There are two attempts per task and one restart.

**Deadlock** is not checked except in the video runs (`CHECK_DEADLOCK FALSE`): an owner that waits for the user,
and a model that has used up its bounds, may stop.

**Fairness.** In `kernel_recovery`: Weak fairness of `Drain` says that the surface
keeps draining (`process_interactive` does so on every loop turn while a run is
active); of `BackendEnds` and `ToolEnds` that a stream or executor that was asked to
stop ends (they are bounded by their stop token and deadline); of `DeadlinePushes`
that a thread blocked on a queue with room runs. No fairness is assumed of the user. `video_recovery` assumes that a call takes its next step:
every provider call carries a timeout, and the store and the artifact store return.
`local_reclaim` assumes only that some thread of the worker or the reclaimer takes its next
step as long as one can: ports return, because they are bounded by the budget they are given.
`child_join_wedged` assumes that a child's stream ends once its stop token is set, that the
deadline thread's wait ends, and that the surface drains. The pushes of a child's two threads
are strongly fair: the conversation's worker may take the room again and again, but each
drain wakes all that wait (`notify_all`), and it does not win the mutex for ever. Nothing is assumed of a worker that
was not asked to stop, of the user or of the planner.

### Disagreements with the documentation

Three runs each state what the repository's documentation says and show that the code does
something else (`PROJECT.json`, `findings`, quotes the lines):

| Run | Property | What happens |
|---|---|---|
| `resume_answered_question` | `PendingApprovalReopens` | A run that asked a question, was answered, and now waits for an approval cannot be reopened, because `open_durable` keeps the question of the earlier batch. |
| `resume_consumed_approval` | `ConsumedApprovalIsRenewed` | One call is approved, another of its batch still waits, and the process dies before the first starts. After the restart the first is `allowed` again and starts on the old approval. |
| `child_join_wedged` | `DrainReturns` | `drain` joins the threads of a finished child whose deadline thread waits in `push`, with a queue that the conversation's worker has filled again. Only `drain` empties the queue. |

The passing properties beside them say what does hold. `NoToolWithoutAuthority` accepts an
approval kept by a run that was left waiting, and no other old one. `NoChildIsLost` says that
a child of the current revision that holds a slot always has a thread or an update that will
end it, so a child is not lost in any other way than by the wait of `DrainReturns` (or a
thread that does not end).

The following were met while modelling and are described here without a run of their own.
In the kernel and the spend ledger:

- A deadline that fires between a published question and the end of `ask_user` closes the
  call, and the run waits for an answer nothing accepts (`run_kernel.cpp:3539`;
  `src/README.md:700-703`).
- A cancellation accepted while a finished response with tool calls is queued does not keep
  those tools from starting, and a second cancellation returns at once
  (`run_kernel.cpp:7303`; `src/README.md:324`, `src/test/72tools/test.cpp:3218`).
- The ceiling is checked before a run starts and not before the inference that continues it
  after its tools (`chat_session.cpp:4085`; `src/README.md:469-475`).
- A run whose backend thread cannot be created (`run_kernel.cpp:6095-6115`), or whose policy
  answers malformed at the end of a stream (3236-3251, 3743-3744), fails and stays active with
  no worker. Nothing is queued that would release it, `start` refuses another run, and
  `cancel_run` answers `already_terminal` (7291), where `src/README.md:324` says that an active
  run can be cancelled. The model has these states; `TerminalRunReleased` speaks of the
  runs that have a worker or whose worker's last update is not yet applied (`Served`).
- A result that arrives after its deadline fails the whole run.

In the observations: disabling the logs while a manual log read runs withdraws the consent
and cancels the run, but the run stays active until its thread has ended, so the kernel
refuses the new selection and the controller fails closed for good
(`admin_controller.cpp:897-944`, whose comment says that disabling is allowed while an
observation runs). The consent is withdrawn in any case: `LogsNeedConsent` and
`ControllerMatchesBroker` hold.

In plans and child runs:

- `start_plan` may supersede a plan whose children run. Neither their results nor their
  deadlines can be recorded then, their slots are held until the process ends, and
  `dispatch_child` looks their tasks up in the new revision. `NoChildIsLost` and
  `WorkersAreIndependent` are stated for the current revision for this reason.
- The wait of `child_join_wedged` needs no conversation if the queue is small: with
  concurrency n the children alone fill one of fewer than 2n - 1 slots, and `valid_limits`
  requires one. The default of 256 excludes this, but not a conversation's stream.
- The terminal surface names a backlog item after the last sequence number of its session
  (`process_interactive.cpp:3797-3803`), and the backlog is read over all sessions of the
  repository (`run_kernel.cpp:7942`), where a repeated identity is refused
  (`project_backlog.cpp:145`): two sessions of one length give one identity to two items. The
  backlog is not modelled.

In the video lifecycle, a stop
that arrives while an expired deadline is recorded is answered "cancelled" though the run
is stored as failed; a second caller with an older copy repeats provider calls after the
run was published or completed (`PublishedIsNotRepeated` holds for callers that take turns),
which the provider's idempotency makes harmless; once `total_timeout` has passed, no
call with the same limits cleans up a published run; and a clean-up call whose outcome was
not recorded is repeated under its own attempt number, as the test "completed cleanup is
idempotent across terminal append failure" expects, where ADR 0017 speaks of appending the
next number before every retry.

## 4. Proofs

Each theorem holds for every value of the constants that the named assumptions of its
component allow; a run of section 3 checks the same property on a small instance. None of
the properties is inductive. Each proof module therefore defines the invariant it needs as
a conjunction of named parts, shows that `Init` gives it and that every action keeps it,
and derives the properties from it. TLC checked each of these invariants on the
configurations of the component's runs before it was proved.

| Property | Theorem | Module |
|---|---|---|
| `TypeOK` | `TypeCorrect` | `RunKernelProofs` |
| `AtMostOnce` | `ExecutedAtMostOnce` | `RunKernelProofs` |
| `NoToolWithoutAuthority` (action) | `ToolsHaveAuthority` | `RunKernelProtocol` |
| `KernelMatchesProjection` | `FlagsMatchProjection` | `RunKernelProtocol` |
| `ProviderOrder` | `ToolsKeepOrder` | `RunKernelProtocol` |
| `ContinuationComplete` (action) | `EveryCallIsAnswered` | `RunKernelProtocol` |
| `RecordedEventsAreAccepted` (action) | `RecordsAreAccepted` | `RunKernelProtocol` |
| `NoCrossTalk` | `UpdatesStayWithTheirWork` | `RunKernelFlight` |
| `JoinCompletes` | `JoinNeverBlocks` | `RunKernelFlight` |
| `ImplementsLifecycle` (refinement) | `LifecycleIsImplemented` | `RunKernelFlight` |
| `MemoryIsStored` | `LogsAreStored` | `ToolSpendProofs` |
| `StoreReplays` | `SessionsReplay` | `ToolSpendProofs` |
| `ChargesAreAccounted` | `ChargesAreCovered` | `ToolSpendProofs` |
| `StoredRunsRebuild` | `RunsRebuild` | `VideoCoordinatorProofs` |
| `OneRunPerOperation` | `OperationsAreOwned` | `VideoCoordinatorProofs` |
| `JobsMatchRuns` | `JobsAreRecorded` | `VideoCoordinatorProofs` |
| `AnswersAreStored` | `AnswersAreTrue` | `VideoCoordinatorProofs` |
| `PublishedIsKept` (action) | `PublicationIsKept` | `VideoCoordinatorProofs` |
| `ChildrenMatchAttempts` | `RecordsOfChildrenAgree` | `PlanKernelProofs` |
| `WorkersAreIndependent` | `WorkersNeverConflict` | `PlanKernelProofs` |
| `AwaitingPlanIsServed` | `SessionReopens` | `PlanKernelProofs` |
| `ScheduleIsAdmissible` | `OffersAreAccepted` | `PlanKernelProofs` |
| `ScheduleNeverStalls` | `SchedulesNeverStall` | `PlanKernelProofs` |
| `LeaseOutlivesReaders` | `LeasesOutliveReaders` | `LocalSourceProofs` |
| `LiveWorkIsPending` | `LiveWorkIsAlwaysPending` | `LocalSourceProofs` |
| `GrantsMatchFolders` | `GrantsAlwaysMatchFolders` | `LocalSourceProofs` |
| `ContextIsCurrent` | `PreparedContextIsCurrent` | `LocalSourceProofs` |
| `NothingIsStranded` | `NothingIsStrandedHolds` | `AdminOpsProofs` |
| `ControllerMatchesBroker` | `ControllerMatchesBrokerHolds` | `AdminOpsProofs` |
| `SourceIsOfThisSession` | `SourceIsOfThisSessionHolds` | `AdminOpsProofs` |
| `HistoryIsCoherent` | `HistoryIsCoherentHolds` | `AdminOpsProofs` |
| `LogsNeedConsent` (action) | `LogsNeedConsentHolds` | `AdminOpsProofs` |

### Run kernel

A call may start only when the kernel has it as `allowed`, so one needs to know what
`allowed` says about the log; a call may be started again only if the log does not show
the first start, so one needs to know that every start was logged before it happened.
`AuthorityInv` says both:

- `LogAgrees`: for every call, what its facts are by the `state` it is in. A call that is
  proposed, waiting or allowed has not started; an allowed one is authorised; one that was
  never proposed has no policy, approval or start;
- `StreamedCallsAreNew`: while a response is streamed, its calls have not been proposed
  (a provider that reuses an id fails the run);
- `StartsAreLogged`: an executor started only if its `ToolStarted` is in the log, and
  between the commit and the thread (`pc = "spawn"`) it has not started yet.

The argument has one lemma per operator on transactions (what `FailLiveRun`,
`RecordToolError`, `EvaluatePolicies`, `Launched`, `SettleInterrupted`, `Recover`, …
preserve) and one per group of actions; steps that touch neither `kern` nor `starts` fall
to one lemma (`QuietStep`). `starts` counts the executor threads of each call; it is the
only history variable of `RunKernel`.

`RunKernelProtocol` adds `ProtocolInv`, which ties the flags of `ActiveRun` and the
`InvocationState` of each call to the status of the projection and to `order`: which calls
are open in which phase, that the calls before the current one are answered and the ones
after it have not begun, and that a question belongs to a call of the current inference.
`KernelInv` is its conjunction with the invariants above. `RecordedEventsAreAccepted` is an
action property: each step either leaves the projection as it is or changes it by events
the reducer accepts there, so the log the kernel writes can always be replayed.

`ToolsHaveAuthority` is about `RunKernelApprovals`. Every step of it is a step of `RunKernel`
(`ApprovalsAreSteps`), so `KernelInv` is there to use; `ApprovalsCount` adds that an approval which is in the
log of a run that can go on, and not used yet, is one that `granted` counts, and that so is the
one of the call about to be spawned. A restart keeps this because it closes or renews
exactly the approvals that `granted` forgets.

`RunKernelFlight` adds `FlightInv`, about the threads: an update in flight, other than a
late deadline, belongs to the inference or the tool that is active, and so does a worker
that has not ended; the end of a stream is the last update of its worker; and while the end
of a tool is being processed and its deadline worker has not ended, the queue is empty. The
last part is what makes the owner's join safe: a worker blocked on a full queue that only
the joining owner drains would never end.

The same module proves that `RunKernel` implements `ToolLifecycle`. The phase of a call
depends on facts the invariants above say nothing of, so `LifeInv` adds them:

- `QuestionHeld`: the question the log names is one of a started `ask_user`, and a run is
  `awaiting_input` exactly while the question of its current batch has no answer. This is
  what keeps a question asked through a crash, and keeps the question of an earlier
  inference from being taken for one;
- `ReservedHeld`, `Reserves`: money is reserved only for a paid call that was started and has
  no outcome, and in a kernel that is up only for its active tool. Settling interrupted spend
  on reopening therefore closes calls that were cut off, never one that waits for an
  answer: only one call of a batch can be started and open, and `ask_user` is not paid;
- `AskingAgrees`: in an open run a call that is executing has no question yet, and one
  that waits is the one the log asks about;
- `AskedOnce`: `ask_user` publishes once. At most one of its updates is in flight, its call
  is not waiting yet, and a worker whose update is in flight has nothing more to say. A
  second publication would be a step from `waiting` that `ToolLifecycle` does not have.

`LifeStep` writes the steps of `ToolLifecycle` as relations between two transactions;
`LifeStepIsStep` shows that they are its steps under the refinement mapping. One lemma per
action shows that the action keeps `Held` and is a `LifeStep` (`BackendEventLives`,
`ToolUpdateLives`, …, `StopsHeld`, `ReopenHeld`), from lemmas about the operators on
transactions (`ClosedHeld` for recorded errors, `EndHeld` for the ends of a run, `PolicyHeld`,
`SettleHeld`, `RecoverHeld`).

### Spend ledger

`SpendInv` is `TypesInv /\ LedgerInv /\ ChargeInv`. The key fact is that an append which is not
a conflict is made by a process whose log is the whole stored log, so it extends the log
that everybody else reads a prefix of. From there: at most one call is open in any log, a
process recovering a failed settlement settles only the call it holds, a tool in execution
has one process that holds it, a released reservation has no executor that could have
contacted the provider, and a finalized amount is at least the charge.

### Video lifecycle

`VideoInv` is `TypesInv /\ RunsInv /\ OneRunPerOperation /\ JobsMatchRuns /\ CallsInv`. Projections
are ordered (`Later`: the operation is kept, what has begun stays begun, an artifact stays, a
terminal run is frozen), every stored projection is a whole number of batches (`Whole`),
and a call's copy of a run is behind the stored one and equal to it when nothing was
appended since (`CopyOK`). So an append that meets no conflict is made on the stored run
itself, and its batch is one of those the call may offer there (`Offers`). One lemma per batch
says what it does to the projection.

### Plans

`PlanInv` is `TypeInv /\ AttemptsInv /\ AwaitingInv /\ FailureInv /\ ChildrenInv /\
IndependentInv`. Attempts have distinct children and revisions distinct ids, an attempt determines
its dispatch, and the conflict of two tasks is symmetric, so a worker admitted next to the
running ones is independent of each.

The two theorems on the schedule also need `GroundedInv`: every revision of the plan passed
`validate_plan_revision`, and an approved one has all its tasks. `Verdict` says what the state of
a task must come to by its own attempts and the verdicts of its dependencies. `Reached` is
said of a set of tasks, closed under dependencies, whose states have come to the verdict; a pass
keeps it. Since dependencies are acyclic, the tasks outside such a set include one all of whose
dependencies are inside, so each pass adds at least one task, and as many passes as there
are tasks reach them all. A task that is blocked then has a failed one among those it waits for, and a task that
waits has one that is ready or running. `OffersAreAccepted` counts: children inject into
running tasks, so a task chosen within the policy's concurrency is within the capacity of a
runner that has at least as much. That hypothesis is needed, since a runner may declare less;
`plan_task_controller.cpp:98` and the kernel's limits use the default policy, which has
concurrency one (`task_scheduler.hpp:14-15`).

These two proofs and the ones of `AdminOps` use induction over numbers. It is done
with the least element of a set (`WFMin`), stated once for sets of natural numbers, since the
induction rules with an operator parameter cannot be instantiated.

### Local sources

One handler of the browser makes several calls on the worker, the registry and its own
state, so the invariant is an operator on a record of the three, `Ok(s)`, and `LocalInv` is
`Ok(Here)`. Its parts:

- `Core`: types, identities that only grow, and for every job (`JobOK`) that the leases it
  borrows are there and that a grant in the making has a running slot;
- `PendingOK`: the live jobs are those the browser waits for, and each field waits for a job of its
  own kind, so that cancelling one never cancels the work of another;
- `ScopeOK` and `ActiveOK`: the registry's scope is the browser's session and activation, and the
  active grants are those of the listed folders;
- `ShownOK` and `SelectedOK`: what is shown or selected belongs to a listed folder and, if it is
  shown, to its generation;
- `ContextOK`: the leases a preparation has checked are active, and its sources are the
  selection.

`ContextIsCurrent` speaks only of a finished preparation; the invariant also covers one that is under
way, for which only the leases checked so far are known to be active. A handler that removes a
folder breaks `SelectedOK` and restores it last (`OkBut` is the rest). Three relations say
what calls in the middle of a handler do: `Ends` (jobs were discarded, consumed or reaped and
nothing else changed), `RegStep` (no active grant was touched) and `Drops` (some of the
browser's work was cancelled). There is a lemma per operation that puts it into one of them,
and one per handler and thread step.

### Ops observations

A handler of the owner takes one record through a dozen calls, and what the controller shows
agrees with the broker only at its ends. So the invariant is layered: `AdminInv` is
`Good(Here)`, where `Good` is `Base` and `Matches`, and `Base` is `Loose` and `SettledOK`.

- `Loose` is kept by every call: types; `WorkerOK` and `BrokerOK` (identities only grow, an
  entry is sent once, a source is bound with its authority); `RunOK` (the executor belongs to
  the run of the kernel); `MailboxOK` and `SeenOK` (every entry is that of the executor or
  already rejected, and what the executor waits for is there); `SlotsOK` (a live job is the one
  of an entry or of the preparation); `PlaceOK` (controller and broker are in one activation,
  and sources are of it);
- `SettledOK`: a run that is over runs its tool to the end and is dropped by the commit that
  ends it; inside a commit this does not hold yet;
- `Matches`: the controller's selection, generation, consent and log state are those of the broker
  and of the session; broken between the broker's change and the controller's.

There is a lemma per call that says which layer it keeps, and one per handler that puts the
layers together again, on its error paths too. `LogsNeedConsent` is an action property: `HistoryStep` says of each
call that what it records passed the broker's preflight, and the calls of a handler are chained.

### Assumptions

The assumptions on the constants are those the modules declare and TLC evaluates: the bounds
are natural numbers, the queue has room for at least one update, the set of calls is finite,
`ask_user` is not a paid tool (its definition declares no effect that spends),
and the value for "none" is none of the values it stands beside (a null optional in
the code). `PlanKernel` also assumes that the reports a child may send are among the codes
of the code's enum, that the tasks of a plan are a sequence, and `OffersAreAccepted` has the
hypothesis on the capacity described above. No assumption restricts the order of events, the failures or the number of
processes.

### Only model-checked

- The liveness properties (`CallsReturn` and the others listed under section 3), which the
  prover does not handle.
- `NoChildIsLost`: the invariants of `PlanKernelProofs` do not yet speak of the queue.
- `CeilingHolds`: a sum over the calls of a log, which every append changes.
- `PublishedIsNotRepeated`, which depends on callers taking turns.

## 5. Not modelled, and the plan

Not modelled in the kernel: conversation summaries, memory and review events, which share
its event log but have their own states. Not modelled in the spend ledger: decimal
arithmetic, expiry as a clock (an expired quote is a choice of `Launch`), and the basis of a
finalization. Of the session store only appending and replaying are modelled, as the other
components use them; its schema and migrations are SQL. `PROJECT.json` lists every other
component with the reason it is left out: parsing, rendering, remote clients and file
formats, which make up most of the repository, have no protocol of their own.

What could still be modelled, in order: the rest of `ChatSession` (the admission steps around
`start` and `continue_run`, evidence permits, context after a restart); the process launcher
(drain, time out, kill, reap); tool policy and automatic approval (scope intersection,
grants); summaries, the review gate and memory as reducers of their events.
