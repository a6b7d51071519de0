----------------------------- MODULE AdminOps -----------------------------
(***************************************************************************)
(* The admin controller (src/src/lib/admin_controller.cpp) composed with    *)
(* the broker, the worker that prepares and reads sources, and the part of  *)
(* a chat session and of its run kernel that carries observations           *)
(* (src/src/lib/chat_session.cpp, src/src/lib/run_kernel.cpp).              *)
(*                                                                          *)
(* Everything the controller and the session do happens on the owner        *)
(* thread; beside it run the executor of the observation, two threads per   *)
(* worker job and the clock.  A run is at most one observation at a time:   *)
(* one the user asked for (manual), or one a model run proposes.            *)
(***************************************************************************)
EXTENDS OpsBroker

CONSTANTS Policies,       \* what the policy says of an observation
          Stores,         \* whether an append to the session store succeeds
          Preparations,   \* how preparing a source may end
          MaxEpoch, MaxGeneration, MaxRuns

\* ActiveRun, with the observation it is at
Runs ==
  [manual : BOOLEAN, request : Requests \cup {Nil}, terminal : BOOLEAN,
   phase : {"thinking", "proposed", "approval", "running"}]

\* ManualObservationProjection: the last manual run, and the last one that succeeded
Manuals ==
  [run : Nat, status : {"running", "completed", "failed", "cancelled"}]
Successes == [run : Nat, request : Requests]

\* AdminController::Impl::Preparation
PreparationWork ==
  [id : Nat, session : Sessions, epoch : Nat, target : Targets,
   discarded : BOOLEAN, claimed : Sources \cup {Nil}]

ASSUME AdminAssumption ==
  /\ {MaxEpoch, MaxGeneration, MaxRuns} \subseteq Nat \ {0}
  /\ Policies \subseteq {"allow", "ask", "deny"}
  /\ Stores \subseteq BOOLEAN
  /\ Preparations \subseteq {"ok", "failed", "exhausted"}
  /\ Nil \notin Runs \cup Manuals \cup Successes \cup PreparationWork

VARIABLES
  session,   \* the chat session and its kernel, as far as Ops is concerned
  history,   \* what each session has recorded durably
  admin      \* AdminController::Impl and AdminState

vars == <<worker, broker, exec, session, history, admin>>

Terminal == {"completed", "failed", "cancelled"}

\* `problem' closes observation admission; `tool' is the authority of the
\* registered observe_target; `manual' and `success' are the projection.
NewSession(id) ==
  [id |-> id, run |-> Nil, runs |-> 0, unusable |-> FALSE, problem |-> Nil,
   available |-> FALSE, busy |-> FALSE, tool |-> Nil,
   manual |-> Nil, success |-> Nil]

\* What is left of AdminState without an authority.
WithoutAuthority(a) ==
  [a EXCEPT !.consent = FALSE, !.source = Nil, !.bound = FALSE,
            !.active = Nil, !.logs = "unavailable", !.rev = 0,
            !.evidence = FALSE, !.current = Nil, !.status = "not_started"]

Init ==
  /\ InitWorker /\ InitBroker
  /\ session = NewSession(Nil)
  /\ history = [s \in Sessions |-> [gen |-> 0, health |-> Nil, latest |-> Nil]]
  /\ admin = [session |-> Nil, epoch |-> 0, gen |-> 0, health |-> Nil,
              prep |-> Nil, fatal |-> FALSE, consent |-> FALSE, source |-> Nil,
              bound |-> FALSE, active |-> Nil, logs |-> "unavailable", rev |-> 0,
              evidence |-> FALSE, current |-> Nil, status |-> "not_started"]

\* A handler of the owner: the whole state taken through the calls it makes,
\* with the outcome of the last one (ok, why) and whether service saw a source
\* disconnect (lost).
Here == [w |-> worker, b |-> broker, x |-> exec, k |-> session, h |-> history,
         a |-> admin, ok |-> TRUE, why |-> Nil, lost |-> FALSE]

Becomes(s) ==
  /\ worker' = s.w /\ broker' = s.b /\ exec' = s.x
  /\ session' = s.k /\ history' = s.h /\ admin' = s.a

Ok(s) == [s EXCEPT !.ok = TRUE, !.why = Nil]
Fail(s, why) == [s EXCEPT !.ok = FALSE, !.why = why]

\* The failures the controller and the session do not survive.
FatalFailures == {"storage", "history", "internal"}

-----------------------------------------------------------------------------
(* The run kernel. *)

\* persistence_failure: the workers are stopped and joined, the run is gone.
PersistenceFailure(s) ==
  Fail([JoinExec(s) EXCEPT !.k.run = Nil, !.k.unusable = TRUE], "storage")

\* commit drops a run that is over and runs no tool.
Settle(s) ==
  IF s.k.run # Nil /\ s.k.run.terminal /\ s.k.run.phase # "running"
  THEN [s EXCEPT !.k.run = Nil] ELSE s

\* commit: what was not stored is not adopted.
Commit(s, done, stored) ==
  IF stored THEN Ok(Settle(done)) ELSE PersistenceFailure(s)

\* record_tool_error: a manual run ends with its observation, a model run
\* goes on thinking once the tool is over.
RecordToolError(s) ==
  LET run == s.k.run
  IN IF run.manual
     THEN StopExec([s EXCEPT !.k.run.terminal = TRUE,
                             !.k.manual.status = "failed"])
     ELSE IF run.phase = "running" THEN s
     ELSE [s EXCEPT !.k.run.phase = "thinking"]

\* launch_next_tool
Launch(s, stored) ==
  IF ~Preflight(s.b, s.k.run.request) THEN Commit(s, RecordToolError(s), stored)
  ELSE IF ~stored THEN PersistenceFailure(s)
  ELSE Ok([s EXCEPT !.k.run.phase = "running",
                    !.x = NewExec(s.k.runs, s.k.run.request)])

\* evaluate_pending_policies and what follows it, for a proposal that is
\* recorded.
Evaluate(s, policy, stored) ==
  IF policy = "deny" \/ ~Preflight(s.b, s.k.run.request)
  THEN Commit(s, RecordToolError(s), stored)
  ELSE IF policy = "ask"
       THEN Commit(s, [s EXCEPT !.k.run.phase = "approval"], stored)
  ELSE Launch(s, stored)

\* The proposal of an observation, through policy to its launch: the proposal
\* is one commit (stored), what becomes of it another (launched).
Propose(s, run, policy, stored, launched) ==
  IF ~stored THEN PersistenceFailure(s)
  ELSE Evaluate([s EXCEPT !.k.run = run, !.k.runs = @ + 1], policy, launched)

Run(manual, request) ==
  [manual |-> manual, request |-> request, phase |-> "proposed",
   terminal |-> FALSE]

\* OpsObservationTool::prepare, with the authority of the registration
CanPrepare(k, target, gen, op) ==
  /\ k.tool # Nil /\ k.tool.target = target /\ k.tool.gen = gen
  /\ op = "logs" => k.tool.logs

Request(spec, op) ==
  [session |-> spec.session, target |-> spec.target, gen |-> spec.gen,
   rev |-> spec.rev, op |-> op]

\* start_observation_control
StartObservation(s, target, gen, op, policy, stored, launched) ==
  IF s.k.unusable THEN Fail(s, "storage")
  ELSE IF s.k.run # Nil \/ ~CanPrepare(s.k, target, gen, op) THEN Fail(s, "other")
  ELSE IF ~stored THEN PersistenceFailure(s)
  ELSE LET begun == [s EXCEPT !.k.manual =
                       [run |-> s.k.runs + 1, status |-> "running"]]
       IN Propose(begun, Run(TRUE, Request(s.k.tool, op)), policy, TRUE, launched)

\* cancel_run, between inferences
CancelRun(s, stored) ==
  IF s.k.run.terminal THEN Fail(s, "other")
  ELSE Commit(s, StopExec([s EXCEPT !.k.run.terminal = TRUE,
                                    !.k.manual = IF s.k.run.manual
                                      THEN [@ EXCEPT !.status = "cancelled"]
                                      ELSE @]), stored)

\* publish_observation; `take' is what take_for_publication gave.
PublishTaken(take, run, success) ==
  IF ~take.taken THEN RecordToolError(take.s)
  ELSE [take.s EXCEPT
          !.k.success = IF run.manual THEN success ELSE @,
          !.h[run.request.session].health =
             IF run.request.op = "health" THEN run.request ELSE @,
          !.h[run.request.session].latest = success,
          !.k.manual = IF run.manual THEN [@ EXCEPT !.status = "completed"]
                       ELSE @,
          !.k.run.terminal = run.manual]

Publish(s) ==
  IF s.x.stop \/ ~Preflight(s.b, s.k.run.request) THEN RecordToolError(s)
  ELSE PublishTaken(TakeForPublication(s, s.x.ticket), s.k.run,
                    [run |-> s.x.ticket, request |-> s.k.run.request])

\* take_for_publication erases the entry whether or not the commit that was
\* to publish it succeeds.
Redeemed(s) ==
  IF s.x.receipt /\ ~s.x.stop /\ Preflight(s.b, s.k.run.request)
  THEN TakeForPublication(s, s.x.ticket).s ELSE s

\* drain: the update of the executor, if it is queued, and its end.
DrainUpdate(s, stored) ==
  IF s.x = Nil \/ s.x.pc \notin {"posted", "ended"} \/ s.x.seen THEN Ok(s)
  ELSE LET seen == [s EXCEPT !.x.seen = TRUE]
       IN IF s.k.run.terminal THEN Ok(seen)
          ELSE IF ~stored THEN PersistenceFailure(Redeemed(s))
          ELSE Ok(IF s.x.receipt THEN Publish(seen) ELSE RecordToolError(seen))

DrainEnd(s) ==
  IF ~s.ok \/ s.x = Nil \/ s.x.pc # "ended" THEN s
  ELSE [s EXCEPT !.x = Nil,
                 !.k.run = IF @.terminal THEN Nil
                           ELSE [@ EXCEPT !.phase = "thinking"]]

Drain(s, stored) == DrainEnd(DrainUpdate(s, stored))

\* bind_ops_observation
Registered(s, spec, stored) ==
  IF stored
  THEN Ok([s EXCEPT !.h[spec.session].gen = spec.gen, !.k.tool = spec])
  ELSE Fail(DeactivateBroker(PersistenceFailure(s)), "storage")

BindKernel(s, spec, source, stored) ==
  IF s.k.unusable THEN Fail(s, "storage")
  ELSE IF s.k.run # Nil THEN Fail(s, "other")
  ELSE IF s.b.closed THEN Fail(s, "internal")
  ELSE IF ~ValidSelection(s.b, spec, source) THEN Fail(s, "other")
  ELSE Registered(SelectSource(s, spec, source), spec, stored)

-----------------------------------------------------------------------------
(* The chat session. *)

ManualActive(k) == k.run # Nil /\ k.run.manual

CloseAdmission(s) ==
  LET k == s.k
      why == IF k.problem = Nil \/ (k.problem # "storage" /\ s.why = "storage")
             THEN s.why ELSE k.problem
  IN Fail([s EXCEPT !.k.problem = why, !.k.available = FALSE], why)

\* report_observation_kernel_failure
ReportKernelFailure(s) ==
  IF ~s.ok /\ s.why \in FatalFailures THEN CloseAdmission(s) ELSE s

CloseIfFailed(s) == IF s.ok THEN s ELSE CloseAdmission(s)

Synchronize(s) == [s EXCEPT !.k.busy = (s.k.run # Nil)]

Available(s) ==
  IF s.ok THEN [s EXCEPT !.k.available = TRUE, !.k.busy = FALSE] ELSE s

BindSession(s, spec, source, stored) ==
  IF s.k.problem # Nil THEN Fail(s, "other")
  ELSE ReportKernelFailure(Available(
         BindKernel(Synchronize(s), spec, source, stored)))

\* submit_observation.  A run that was recorded and then failed to start
\* closes admission too.
SynchronizeIfOk(s) == IF s.ok THEN Synchronize(s) ELSE s

SubmitObservation(s, target, gen, op, policy, stored, launched) ==
  IF s.k.problem # Nil \/ ~s.k.available THEN Fail(s, "other")
  ELSE IF s.k.run # Nil THEN Fail(Synchronize(s), "other")
  ELSE ReportKernelFailure(SynchronizeIfOk(
         StartObservation(Synchronize(s), target, gen, op, policy, stored,
                          launched)))

CancelObservation(s, run, stored) ==
  IF ~ManualActive(s.k) \/ s.k.manual.run # run THEN Fail(s, "other")
  ELSE CloseIfFailed(SynchronizeIfOk(CancelRun(s, stored)))

\* pump_observations: service, drain, service; a failure cancels the manual
\* run and closes admission.
NoteLoss(s) == IF s.lost /\ s.ok THEN Fail(s, "other") ELSE s

ServiceAndNote(s, launch) == NoteLoss(Service([s EXCEPT !.lost = FALSE], launch))

\* The failure that was being handled stays, unless cancelling fails too.
KeepFailure(s, why) == IF s.ok THEN Fail(s, why) ELSE s

CancelFailed(s, stored) ==
  IF s.ok \/ ~ManualActive(s.k) THEN s
  ELSE KeepFailure(CancelRun(s, stored), s.why)

KeepOutcome(s, ok, why) ==
  IF s.ok THEN [s EXCEPT !.ok = ok, !.why = why] ELSE s

DrainManual(s, stored) ==
  IF ~ManualActive(s.k) THEN s ELSE KeepOutcome(Drain(s, stored), s.ok, s.why)

ServiceSession(s, launch, stored) ==
  CancelFailed(ServiceAndNote(s, launch), stored)

PumpSession(s, launch, stored) ==
  LET begun == IF s.k.problem = Nil THEN Ok(s) ELSE Fail(s, s.k.problem)
  IN CloseIfFailed(Synchronize(ServiceSession(
       DrainManual(ServiceSession(Synchronize(begun), launch, stored), stored),
       launch, stored)))

-----------------------------------------------------------------------------
(* The controller. *)

\* revoke_current_authority
RevokeAuthority(s) ==
  [s EXCEPT !.a = WithoutAuthority(@),
            !.b = IF s.a.consent THEN RevokeConsent(@) ELSE @]

\* Variant: the failure is latched and the authority kept.
FailClosedLatching(s) == [s EXCEPT !.a.fatal = TRUE, !.ok = FALSE]

\* fail_closed
FailClosed(s) ==
  [RevokeAuthority(s) EXCEPT !.a.fatal = TRUE, !.ok = FALSE]

\* report
Report(s) == IF ~s.ok /\ s.why \in FatalFailures THEN FailClosed(s) ELSE s

Refuse(s) == Report(Fail(s, "other"))

\* synchronize and cache: the status of the run the controller waits for, and
\* what it observed.
CacheMismatch(s) ==
  LET request == s.k.success.request
  IN \/ s.k.manual.status # "completed"
     \/ s.a.session # request.session
     \/ s.a.active # request.target
     \/ s.a.gen # request.gen
     \/ s.a.rev # request.rev

SynchronizeAdmin(s) ==
  LET a == s.a
      succeeded == s.k.success # Nil /\ s.k.success.run = a.current
      known == [s EXCEPT !.a.status = s.k.manual.status]
  IN IF a.session = Nil THEN s
     ELSE IF s.k.problem \in FatalFailures THEN Report(Fail(s, s.k.problem))
     ELSE IF a.current = Nil THEN s
     ELSE IF s.k.manual = Nil THEN Report(Fail(s, "history"))
     ELSE IF s.k.manual.run # a.current \/ (succeeded /\ CacheMismatch(s))
          THEN Report(Fail(s, "history"))
     ELSE IF succeeded /\ s.k.success.request.op = "health"
          THEN [known EXCEPT !.a.health = s.k.success.request]
     ELSE known

\* eligible
Eligible(s, allowBusy) ==
  /\ ~s.a.fatal /\ s.a.session # Nil /\ s.a.bound
  /\ s.k.problem = Nil
  /\ allowBusy \/ ~s.k.busy

\* What an ineligible call does: a fatal problem of the session is fatal here.
Ineligible(s) ==
  IF ~s.a.fatal /\ s.a.bound /\ s.k.problem \in FatalFailures
  THEN FailClosed(Fail(s, s.k.problem)) ELSE Fail(s, "other")

\* preparation_state
Outstanding(s) ==
  Known(s.w, s.a.prep.id) /\ ~Retired(s.w.jobs[s.a.prep.id])

PreparationReady(s) == PollStatus(s.w, s.a.prep.id) = "delivered"

\* Variant: a source that was claimed already is not given up.
CancelPreparationUnclaimed(s) ==
  IF s.a.prep = Nil \/ s.a.prep.claimed # Nil THEN s
  ELSE IF Outstanding(s)
       THEN [s EXCEPT !.a.prep.discarded = TRUE, !.w = Cancel(@, s.a.prep.id)]
  ELSE [s EXCEPT !.a.prep = Nil]

\* cancel_preparation: a claimed source goes with the preparation, which stays
\* until its job has retired.
CancelPreparation(s) ==
  IF s.a.prep = Nil THEN s
  ELSE IF ~Outstanding(s) THEN [s EXCEPT !.a.prep = Nil]
  ELSE [s EXCEPT !.a.prep.discarded = TRUE,
                 !.w = IF s.a.prep.claimed = Nil THEN Cancel(@, s.a.prep.id)
                       ELSE @]

SynchronizeAdminIfOk(s) == IF s.ok THEN SynchronizeAdmin(s) ELSE Report(s)

CancelCurrent(s, stored) ==
  IF s.a.session = Nil \/ s.a.current = Nil \/ s.a.status \in Terminal THEN Ok(s)
  ELSE IF s.k.manual = Nil THEN Refuse(s)
  ELSE IF s.k.manual.run # s.a.current THEN Refuse(s)
  ELSE IF s.k.manual.status \in Terminal
       THEN Ok([s EXCEPT !.a.status = s.k.manual.status])
  ELSE SynchronizeAdminIfOk(CancelObservation(s, s.a.current, stored))

\* Variant: the run the controller waited for stays current.
BoundConsentKeepingRun(s, spec) ==
  IF ~s.ok THEN FailClosed(s)
  ELSE [s EXCEPT !.a.gen = spec.gen, !.a.rev = spec.rev,
                 !.a.logs = IF spec.logs THEN "enabled" ELSE "disabled"]

\* bind_consent_authority, and what its callers do once it has succeeded.
BoundConsent(s, spec) ==
  IF ~s.ok THEN FailClosed(s)
  ELSE [s EXCEPT !.a.gen = spec.gen, !.a.rev = spec.rev,
                 !.a.logs = IF spec.logs THEN "enabled" ELSE "disabled",
                 !.a.current = Nil, !.a.status = "not_started"]

BindConsent(s, spec, source, stored) ==
  BoundConsent(BindSession(s, spec, source, stored), spec)

\* The change of the log policy that change_logs and revoke_selected_logs
\* share: the consent first, then the run under way (stored), then the
\* binding (bound).
BindChanged(s, stored) ==
  IF ~s.ok THEN FailClosed(s)
  ELSE BindConsent(s, s.b.consent.current, s.a.source, stored)

ChangeConsent(s, enabled, stored, bound) ==
  LET changed == [s EXCEPT !.b = ApplyConsent(@, enabled)]
  IN IF ~CanApplyConsent(s.b, s.a.session, s.a.active, enabled) THEN FailClosed(s)
     ELSE BindChanged(IF enabled THEN Ok(changed)
                      ELSE CancelCurrent(changed, stored), bound)

RevokeSelectedLogs(s, stored, bound) ==
  IF s.a.logs # "enabled" THEN Ok(s) ELSE ChangeConsent(s, FALSE, stored, bound)

\* The rest of select, once the target may be prepared.
SubmitPreparation(s, target, launch) ==
  LET id == NextRequest(s.w)
      allocated == Allocate(s.w)
      job == NewJob(s.a.session, [kind |-> "preparation", target |-> target], {})
      sent == [s EXCEPT !.w = Submit(allocated, id, job, launch)]
  IN IF Admission(allocated, id) # "launched" THEN Refuse(sent)
     ELSE IF launch # "started" THEN Report(Fail(sent, "internal"))
     ELSE Ok([sent EXCEPT !.a.prep =
            [id |-> id, session |-> s.a.session, epoch |-> s.a.epoch,
             target |-> target, discarded |-> FALSE, claimed |-> Nil]])

\* make_selection_authority: [s, spec], with spec = Nil when it failed.
MakeSelection(s, target) ==
  LET held == s.b.consent.current
      first == [session |-> s.a.session, target |-> target,
                gen |-> s.a.gen + 1, rev |-> 1, logs |-> FALSE]
      next == [first EXCEPT !.gen = held.gen + 1, !.rev = held.rev + 1]
      use(spec) == [s |-> [s EXCEPT !.b = SetConsent(@, spec),
                                    !.a.consent = TRUE], spec |-> spec]
      none(state) == [s |-> state, spec |-> Nil]
  IN IF ~s.a.consent
     THEN IF CanStartConsent(s.b) THEN use(first) ELSE none(Refuse(s))
     ELSE IF ConsentInForce(s.b) /\ CanReplaceConsent(s.b, next) THEN use(next)
     ELSE none(FailClosed(s))

\* bind_prepared
Shown(s, source) ==
  IF s.ok THEN [s EXCEPT !.a.active = source.target, !.a.source = source,
                         !.a.evidence = FALSE]
  ELSE s

BindMade(made, source, stored) ==
  IF made.spec = Nil THEN made.s
  ELSE Shown(BindConsent(made.s, made.spec, source, stored), source)

BindPrepared(s, stored) ==
  IF ~Eligible(s, FALSE) THEN Ineligible(s)
  ELSE BindMade(MakeSelection(s, s.a.prep.claimed.target), s.a.prep.claimed,
                stored)

\* claim_prepared, of a preparation that is ready.  When its deadline passes
\* just before the poll, the source stays with the thread that prepared it.
ClaimPrepared(s, expired) ==
  LET id == s.a.prep.id
      answer == s.w.jobs[id].result
      left == expired /\ answer = "ok"
      taken == [s EXCEPT !.w = Poll(@, id, left)]
      failed == [taken EXCEPT !.a.prep.discarded = TRUE]
  IN IF s.k.problem # Nil THEN Refuse(CancelPreparation(s))
     ELSE IF s.k.busy THEN s
     ELSE CASE answer = "ok" /\ ~expired ->
                 [taken EXCEPT !.a.prep.claimed =
                    [id |-> id, target |-> s.a.prep.target,
                     epoch |-> s.a.prep.epoch]]
            [] answer = "exhausted" -> Report(Fail(failed, "internal"))
            [] OTHER -> Refuse(failed)

\* When the deadline of a preparation passes: not yet, between the controller's
\* look at the clock and the worker's, or before both.
Lateness == {"no", "polled", "yes"}

\* pump_preparation
PumpPreparation(s, late, stored) ==
  LET prep == s.a.prep
  IN IF prep = Nil THEN s
     ELSE IF prep.discarded
          THEN IF Outstanding(s) THEN s ELSE [s EXCEPT !.a.prep = Nil]
     ELSE IF prep.session # s.a.session \/ prep.epoch # s.a.epoch \/ s.a.fatal
          THEN CancelPreparation(s)
     ELSE IF late = "yes" THEN Refuse(CancelPreparation(s))
     ELSE IF prep.claimed = Nil
          THEN IF PreparationReady(s) THEN ClaimPrepared(s, late = "polled") ELSE s
     ELSE IF Outstanding(s) \/ s.k.busy THEN s
     ELSE [BindPrepared(s, stored) EXCEPT !.a.prep = Nil]

\* detach
Detach(s, stored) ==
  LET left == CancelCurrent(CancelPreparation(s), stored)
  IN [RevokeAuthority(left) EXCEPT !.a.session = Nil, !.a.gen = 0]

-----------------------------------------------------------------------------
(* What the user does.  A call the code refuses without changing anything is  *)
(* no step.                                                                   *)

\* switch_session, detach_admin and attach_admin: the session that is left has
\* no run.
SwitchSession(id, stored) ==
  /\ id # session.id
  /\ session.run = Nil
  /\ broker.epoch < MaxEpoch
  /\ LET left == CancelPreparation(Detach(Here, stored))
         active == ActivateBroker(left, id)
     IN Becomes([active EXCEPT
          !.k = NewSession(id),
          !.a.session = id, !.a.epoch = @ + 1, !.a.bound = TRUE,
          !.a.gen = history[id].gen, !.a.health = history[id].health,
          !.a.fatal = FALSE])

\* select
SelectPrepared(s, target, launch) ==
  IF ~s.ok THEN s
  ELSE IF ~Eligible(s, FALSE) THEN Ineligible(s)
  ELSE SubmitPreparation(s, target, launch)

SelectCleared(s, target, launch, stored, bound) ==
  IF s.a.prep # Nil THEN Refuse(s)
  ELSE SelectPrepared(RevokeSelectedLogs(s, stored, bound), target, launch)

SelectTarget(target, launch, stored, bound) ==
  /\ CanAllocate(worker)
  /\ admin.gen + 2 <= MaxGeneration
  /\ Becomes(IF ~Eligible(Here, TRUE) THEN Ineligible(Here)
             ELSE SelectCleared(CancelPreparation(Here), target, launch, stored,
                                bound))

\* read: the run that was started becomes the one the controller waits for.
Follow(s) ==
  IF ~s.ok THEN s
  ELSE [s EXCEPT !.a.current = s.k.manual.run, !.a.status = "running"]

Read(op, policy, stored, launched) ==
  /\ session.runs < MaxRuns
  /\ Eligible(Here, FALSE)
  /\ admin.prep = Nil /\ admin.active # Nil /\ session.available
  /\ op = "logs" => admin.logs = "enabled" /\ admin.evidence
  /\ Becomes(SynchronizeAdminIfOk(Follow(SubmitObservation(
       Here, admin.active, admin.gen, op, policy, stored, launched))))

\* validate_log_source: the source is the one in use, or an observation made
\* under the present selection shows it.
SourceIsShown ==
  \/ admin.evidence
  \/ /\ admin.health # Nil
     /\ admin.health.session = admin.session
     /\ admin.health.target = admin.active
     /\ admin.health.gen = admin.gen
     /\ admin.health.rev = admin.rev

WithEvidence(s) == IF s.ok THEN [s EXCEPT !.a.evidence = TRUE] ELSE s

\* change_logs
ChangeLogs(enabled, stored, bound) ==
  /\ admin.gen + 1 <= MaxGeneration
  /\ ~admin.fatal /\ admin.session # Nil /\ admin.bound
  /\ admin.active # Nil /\ admin.consent
  /\ admin.prep = Nil
  /\ IF enabled THEN SourceIsShown ELSE admin.evidence
  /\ enabled # (admin.logs = "enabled")
  /\ enabled => admin.current = Nil \/ admin.status \in Terminal
  /\ Becomes(WithEvidence(ChangeConsent(Here, enabled, stored, bound)))

\* AdminCancel, AdminCloseView
CancelAdmin(stored) ==
  /\ admin.session # Nil
  /\ Becomes(CancelCurrent(CancelPreparation(Here), stored))

\* cancel_active
Interrupt(stored) ==
  /\ session.run # Nil
  /\ Becomes(IF session.run.manual
             THEN CancelObservation(Here, session.manual.run, stored)
             ELSE CancelRun(Here, stored))

\* decide_observation_approval, or decide_approval for a model run
Decided(s, manual) ==
  IF manual THEN Synchronize(ReportKernelFailure(s)) ELSE s

Decide(approved, stored) ==
  /\ session.run # Nil /\ session.run.phase = "approval"
  /\ session.run.manual => session.problem = Nil
  /\ Becomes(Decided(IF approved THEN Launch(Here, stored)
                     ELSE Commit(Here, RecordToolError(Here), stored),
                     session.run.manual))

-----------------------------------------------------------------------------
(* What the owner's loop does. *)

\* AdminController::pump
PumpedAndSynced(s, pumped, late, bound) ==
  IF pumped /\ s.ok THEN PumpPreparation(s, late, bound)
  ELSE CancelPreparation(s)

Pumped(s, late, bound) ==
  PumpedAndSynced(SynchronizeAdmin(Ok(Report(s))), s.ok, late, bound)

Pump(launch, late, stored, bound) ==
  /\ admin.session # Nil
  /\ late # "no" => admin.prep # Nil
  /\ Becomes(Pumped(PumpSession(Here, launch, stored), late, bound))

\* ChatSession::drain without a manual run
DrainPumped(s, stored) == IF s.why = "storage" THEN s ELSE Drain(s, stored)

DrainChat(launch, stored) ==
  /\ session.id # Nil
  /\ ~ManualActive(session)
  /\ Becomes(DrainPumped(PumpSession(Here, launch, stored), stored))

-----------------------------------------------------------------------------
(* A model run, as far as it concerns observations. *)

StartModelRun ==
  /\ session.id # Nil /\ session.run = Nil /\ ~session.unusable
  /\ session.runs < MaxRuns
  /\ session' = [session EXCEPT !.run = [Run(FALSE, Nil) EXCEPT !.phase = "thinking"]]
  /\ UNCHANGED <<worker, broker, exec, history, admin>>

Thinking ==
  session.run # Nil /\ ~session.run.manual /\ session.run.phase = "thinking"

ProposeObservation(op, policy, stored, launched) ==
  /\ Thinking
  /\ session.runs < MaxRuns
  /\ session.tool # Nil
  /\ CanPrepare(session, session.tool.target, session.tool.gen, op)
  /\ Becomes(Propose(Here, Run(FALSE, Request(session.tool, op)), policy, stored,
                     launched))

EndModelRun ==
  /\ Thinking
  /\ session' = [session EXCEPT !.run = Nil]
  /\ UNCHANGED <<worker, broker, exec, history, admin>>

-----------------------------------------------------------------------------
(* The threads of the worker. *)

WorkerStep(i) ==
  /\ Relay(i) \/ WorkerThread(i)
  /\ UNCHANGED <<broker, exec, session, history, admin>>

SourcePort(i) ==
  /\ \/ /\ Calling(i, "preparation")
        /\ \E answer \in Preparations : Return(i, answer, {})
     \/ /\ Calling(i, "observe")
        /\ \E answer \in Answers : Return(i, answer, {})
  /\ UNCHANGED <<broker, exec, session, history, admin>>

Executor ==
  /\ (\E late \in BOOLEAN : Observe(late)) \/ Wake \/ EndExec
  /\ UNCHANGED <<session, history, admin>>

Clock ==
  /\ \E t \in DOMAIN broker.entries : Expire(t)
  /\ UNCHANGED <<session, history, admin>>

User ==
  \E stored \in Stores :
    \/ \E id \in Sessions : SwitchSession(id, stored)
    \/ CancelAdmin(stored)
    \/ Interrupt(stored)
    \/ \E approved \in BOOLEAN : Decide(approved, stored)
    \/ \E second \in Stores :
         \/ \E target \in Targets, launch \in Launches :
              SelectTarget(target, launch, stored, second)
         \/ \E op \in Operations, policy \in Policies :
              Read(op, policy, stored, second)
         \/ \E enabled \in BOOLEAN : ChangeLogs(enabled, stored, second)

Model ==
  \/ StartModelRun
  \/ \E op \in Operations, policy \in Policies, stored, launched \in Stores :
       ProposeObservation(op, policy, stored, launched)
  \/ EndModelRun

Loop ==
  \E launch \in Launches, stored \in Stores :
    \/ \E late \in Lateness, bound \in Stores : Pump(launch, late, stored, bound)
    \/ DrainChat(launch, stored)

Threads == Executor \/ \E i \in Ids : WorkerStep(i) \/ SourcePort(i)

Next == User \/ Model \/ Loop \/ Threads \/ Clock

Spec == Init /\ [][Next]_vars

-----------------------------------------------------------------------------
(* Properties. *)

\* Nothing is stranded in the worker or the mailbox.  A slot whose work could
\* still be delivered belongs to an entry or is the preparation the controller
\* waits for (discard, cancel_preparation); and an entry is waited for by its
\* executor, or the next service throws it out.
NothingIsStranded ==
  /\ {i \in DOMAIN worker.jobs : Live(worker.jobs[i])}
       \subseteq Tokens(broker) \cup
         (IF admin.prep = Nil \/ admin.prep.discarded THEN {} ELSE {admin.prep.id})
  /\ \A t \in DOMAIN broker.entries :
       (exec # Nil /\ exec.ticket = t) \/ Rejected(broker, t)

\* What the controller shows is what the broker enforces: while a target is
\* active, the broker's authority, the consent and the registered tool are the
\* selection the controller believes in, over the source it retains.
ControllerMatchesBroker ==
  admin.active # Nil =>
    /\ broker.authority =
         [session |-> admin.session, target |-> admin.active, gen |-> admin.gen,
          rev |-> admin.rev, logs |-> (admin.logs = "enabled")]
    /\ ConsentMatches(broker, broker.authority)
    /\ session.tool = broker.authority
    /\ broker.source = admin.source

\* A source is bound only for the session it was prepared for, and one that is
\* on its way belongs to the session that is attached, however far its
\* preparation had come when the session changed.
SourceIsOfThisSession ==
  /\ broker.source # Nil => broker.source.epoch = broker.epoch
  /\ admin.prep # Nil /\ ~admin.prep.discarded =>
       admin.prep.session = admin.session /\ admin.prep.epoch = admin.epoch

\* The history never contradicts the controller: what it reads back for the
\* run it waits for was observed under the selection in force (cache).
HistoryIsCoherent ==
  admin.current # Nil /\ session.success # Nil =>
    (session.success.run = admin.current => ~CacheMismatch(Here))

\* Log text is recorded only under a consent in force, given for the very
\* selection the request named: whatever the executor, the worker or a model
\* run still hold, nothing is published once the consent is withdrawn.
LogsNeedConsent ==
  [][\A id \in Sessions :
       LET new == history'[id].latest
       IN (new # history[id].latest /\ new.request.op = "logs") =>
            /\ ConsentInForce(broker)
            /\ broker.consent.current.logs
            /\ broker.consent.current.session = id
            /\ broker.consent.current.gen = new.request.gen]_vars
=============================================================================
