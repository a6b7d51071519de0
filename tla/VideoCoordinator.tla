-------------------------- MODULE VideoCoordinator --------------------------
(***************************************************************************)
(* Durable video work (src/src/lib/video_coordinator.cpp, ADR 0017): the   *)
(* invocations of VideoCoordinator::generate and transcribe on the runs of *)
(* one session.  Each invocation reads the session once, then goes round a *)
(* loop: it looks at its copy of the run, calls the provider, and appends  *)
(* what it saw.  Invocations of several processes may work on one run, any *)
(* of them may die between two steps, and an append may fail before or     *)
(* after it was written.                                                   *)
(*                                                                         *)
(* Of the session log the model keeps its length, seq, and the projection  *)
(* of each video run; the job of an operation is named by the operation.   *)
(* A provider call and its answer are one step, the append that records    *)
(* it another.  Open and replay are one step.                              *)
(***************************************************************************)
EXTENDS VideoProjection, FiniteSets

CONSTANTS
  Coordinators,      \* callers of generate and transcribe
  Runs,
  Requests,          \* [run, op, kind]: what they may ask for
  MaximumPolls,      \* VideoCoordinatorLimits::maximum_polls
  TotalTimeout,      \* VideoCoordinatorLimits::total_timeout
  MaximumReloads,    \* maximum_conflict_reloads
  MaxClock, MaxOther \* bounds on the clock and on the events of other writers

ASSUME VideoAssumption ==
  /\ Requests \subseteq
       [run: Runs, op: Operations, kind: {"generation", "transcription"}]
  /\ {MaxNumber, MaximumPolls, TotalTimeout} \subseteq Nat \ {0}
  /\ MaximumPolls <= MaxNumber
  /\ {MaximumReloads, MaxClock, MaxOther} \subseteq Nat
  /\ NoOperation \notin Operations

VARIABLES
  durable,    \* run: the projection of its stored events
  seq,        \* the number of stored events; 0: there is no session
  inv,        \* coordinator: its invocation
  clock,      \* the wall clock
  job,        \* operation: "none", "live" or "cleaned", at the provider
  artifacts,  \* operations whose media is in the artifact store
  others      \* events written by other writers

vars == <<durable, seq, inv, clock, job, artifacts, others>>

Idle(q, answer) ==
  [at |-> "idle", req |-> q, url |-> FALSE, stop |-> FALSE, video |-> Blank,
   seq |-> 0, batch |-> <<>>, next |-> "none", reloads |-> 0, cleanups |-> 0,
   answer |-> answer]

Init ==
  /\ durable = [r \in Runs |-> Blank] /\ seq = 0
  /\ \E q \in Requests : inv = [c \in Coordinators |-> Idle(q, "none")]
  /\ clock \in 0..MaxClock
  /\ job = [o \in Operations |-> "none"] /\ artifacts = {}
  /\ others = 0

Provider == <<job, artifacts>>
Log == <<durable, seq, others>>

Return(c, answer) == inv' = [inv EXCEPT ![c] = Idle(inv[c].req, answer)]

(* Go on to append events; next is "loop" or what is answered afterwards. *)
Persist(c, events, next) ==
  inv' = [inv EXCEPT ![c].at = "append", ![c].batch = events, ![c].next = next,
                     ![c].reloads = 0]

(***************************************************************************)
(* Opening.                                                                *)
(***************************************************************************)
LoadableForAnyOwner(q) == seq # 0 /\ ~IncompleteAtomicTail(durable[q.run])
(* load_state accepts the session for a request. *)
Loadable(q) ==
  /\ seq # 0
  /\ \A r \in Runs \ {q.run} : durable[r].op # q.op
  /\ \A r, s \in Runs : r # s /\ durable[r].op \in Operations => durable[r].op # durable[s].op
  /\ ~IncompleteAtomicTail(durable[q.run])
HasHistory(r) == durable[r].last # 0
Matches(q) == durable[q.run].op = q.op /\ durable[q.run].workflow = q.kind

Requested(q) ==
  <<Plain("RunStarted"),
    Event(IF q.kind = "generation" THEN "VideoGenerationRequested"
          ELSE "VideoTranscriptionRequested", q.op, 0, "none")>>

(* An invocation with the session as it is now. *)
Opened(q, url, stopped) ==
  [Idle(q, "none") EXCEPT !.url = url, !.stop = stopped,
                          !.video = durable[q.run], !.seq = seq]
WithInitialEvents(i) ==
  [i EXCEPT !.at = "append", !.batch = Requested(i.req), !.next = "loop"]

(* The checks made before the session is opened. *)
Admissible(q, mode, url, stopped) ==
  mode = "resume" \/ (~stopped /\ (q.kind = "transcription" => url))

CreateSession(c, q, url) ==
  /\ inv[c].at = "idle" /\ Admissible(q, "create", url, FALSE)
  /\ inv' = [inv EXCEPT ![c] =
       [WithInitialEvents(Opened(q, url, FALSE)) EXCEPT
          !.at = "create", !.video = Blank, !.seq = 0]]
  /\ UNCHANGED <<Log, Provider, clock>>

StartRun(c, q, url) ==
  /\ inv[c].at = "idle" /\ Admissible(q, "start", url, FALSE)
  /\ Loadable(q) /\ ~HasHistory(q.run)
  /\ inv' = [inv EXCEPT ![c] = WithInitialEvents(Opened(q, url, FALSE))]
  /\ UNCHANGED <<Log, Provider, clock>>

ResumeRun(c, q, url, stopped) ==
  /\ inv[c].at = "idle"
  /\ Loadable(q) /\ HasHistory(q.run) /\ Matches(q)
  /\ inv' = [inv EXCEPT ![c] = [Opened(q, url, stopped) EXCEPT !.at = "loop"]]
  /\ UNCHANGED <<Log, Provider, clock>>

Refuse(c, q, mode, url, stopped) ==
  /\ inv[c].at = "idle"
  /\ \/ ~Admissible(q, mode, url, stopped)
     \/ mode = "start" /\ ~(Loadable(q) /\ ~HasHistory(q.run))
     \/ mode = "resume" /\ ~(Loadable(q) /\ HasHistory(q.run) /\ Matches(q))
  /\ inv' = [inv EXCEPT ![c] = Idle(q, "refused")]
  /\ UNCHANGED <<Log, Provider, clock>>

(***************************************************************************)
(* Appending.                                                              *)
(***************************************************************************)
Accepted(i) == AcceptsAll(i.video, i.batch, i.seq, clock)

ConflictNever(i) == FALSE
(* The store refuses a batch whose first event does not pass its last one. *)
Conflict(i) == i.seq + 1 <= seq

(* The batch is in the store. *)
Stored(c) ==
  LET i == inv[c] IN
  /\ durable' = [durable EXCEPT ![i.req.run] = ApplyAll(i.video, i.batch, i.seq, clock)]
  /\ seq' = i.seq + Len(i.batch)
  /\ UNCHANGED others

AfterAppendOldCopy(c) ==
  LET i == inv[c] IN
  IF i.next = "loop"
  THEN inv' = [inv EXCEPT ![c].at = "loop", ![c].batch = <<>>, ![c].next = "none",
                          ![c].seq = i.seq + Len(i.batch)]
  ELSE Return(c, i.next)
(* After the append: once more round the loop, or the answer.  A call that *)
(* was stopped or out of time reads its stop token again for its answer.   *)
AfterAppend(c) ==
  LET i == inv[c] IN
  CASE i.next = "loop" ->
         inv' = [inv EXCEPT ![c].at = "loop", ![c].batch = <<>>,
                            ![c].next = "none", ![c].reloads = 0,
                            ![c].video = ApplyAll(i.video, i.batch, i.seq, clock),
                            ![c].seq = i.seq + Len(i.batch)]
    [] i.next = "halted" -> Return(c, IF i.stop THEN "cancelled" ELSE "failed")
    [] OTHER -> Return(c, i.next)

(* A batch the projections reject is not sent to the store. *)
AppendWorks(c) ==
  /\ inv[c].at \in {"append", "create"}
  /\ IF Accepted(inv[c]) THEN ~Conflict(inv[c]) /\ Stored(c) /\ AfterAppend(c)
     ELSE Return(c, "protocol_failure") /\ UNCHANGED Log
  /\ UNCHANGED <<Provider, clock>>

AppendFailsUnnoticed(c) ==
  /\ inv[c].at \in {"append", "create"} /\ Accepted(inv[c])
  /\ AfterAppend(c) /\ UNCHANGED <<Log, Provider, clock>>
(* The store reports a failure, whether or not it wrote the batch; or the  *)
(* reload after a conflict fails.                                          *)
AppendFails(c) ==
  /\ inv[c].at \in {"append", "create"} /\ Accepted(inv[c])
  /\ \/ ~Conflict(inv[c]) /\ Stored(c)
     \/ UNCHANGED Log
  /\ Return(c, "storage_failure")
  /\ UNCHANGED <<Provider, clock>>

(* Another writer was first: reload, and go on only if it wrote nothing to *)
(* this run.                                                               *)
MayRetry(i) ==
  /\ i.reloads < MaximumReloads
  /\ Loadable(i.req)
  /\ durable[i.req.run].last = i.video.last

AppendConflicts(c) ==
  LET i == inv[c] IN
  /\ i.at = "append" /\ Accepted(i) /\ Conflict(i)
  /\ IF MayRetry(i)
     THEN inv' = [inv EXCEPT ![c].video = durable[i.req.run], ![c].seq = seq,
                             ![c].reloads = i.reloads + 1]
     ELSE Return(c, "storage_failure")
  /\ UNCHANGED <<Log, Provider, clock>>

CreateConflicts(c) ==
  /\ inv[c].at = "create" /\ Accepted(inv[c]) /\ Conflict(inv[c])
  /\ Return(c, "storage_failure")
  /\ UNCHANGED <<Log, Provider, clock>>

(***************************************************************************)
(* The loop.                                                               *)
(***************************************************************************)
(* call_options: the deadline counts from the stored start of the run; a   *)
(* clock that was set back is past it.                                     *)
InTime(v) == clock >= v.started /\ clock - v.started < TotalTimeout
Halted(c) == inv[c].stop \/ ~InTime(inv[c].video)

CancelEvents == <<Plain("RunCancelRequested"), Plain("RunCancelled")>>
FailEvents == <<Plain("RunFailed")>>

(* At the top of the loop, with the run in one of these states. *)
LoopAt(c, kind, states) ==
  inv[c].at = "loop" /\ inv[c].req.kind = kind /\ inv[c].video.state \in states
Working(c, kind, states) == LoopAt(c, kind, states) /\ ~Halted(c)

(* A provider error ends the run; a cancelled call cancels it. *)
ProviderError(c) == Persist(c, CancelEvents, "cancelled") \/ Persist(c, FailEvents, "failed")

HaltEvents(c) ==
  Persist(c, IF inv[c].stop THEN CancelEvents ELSE FailEvents, "halted")

AnswerAtOnce(c) ==
  LET v == inv[c].video IN
  /\ inv[c].at = "loop"
  /\ \/ v.state = "completed" /\ Return(c, "completed")
     \/ /\ v.state \in {"failed", "cancelled", "job_failed", "cleanup_completed",
                        "transcription_observed"}
        /\ Return(c, "refused")
     \/ /\ LoopAt(c, "transcription", {"requested"}) /\ ~inv[c].url
        /\ Return(c, "refused")
  /\ UNCHANGED <<Log, Provider, clock>>

Halt(c) ==
  /\ \/ LoopAt(c, "generation", BeforePublication)
     \/ LoopAt(c, "transcription", {"requested"}) /\ inv[c].url
  /\ Halted(c) /\ HaltEvents(c)
  /\ UNCHANGED <<Log, Provider, clock>>

Quote(c) ==
  /\ Working(c, "generation", {"requested"})
  /\ \/ ProviderError(c)
     \/ Persist(c, <<Event("VideoQuoteObserved", inv[c].req.op, 0, "none")>>, "loop")
  /\ UNCHANGED <<Log, Provider, clock>>

(* Queueing an operation again returns its job; a call that reports an     *)
(* error may have queued it.                                               *)
Enqueued(o) == [job EXCEPT ![o] = IF @ = "none" THEN "live" ELSE @]
Queue(c) ==
  LET o == inv[c].req.op IN
  /\ Working(c, "generation", {"quoted"})
  /\ \/ ProviderError(c) /\ job' \in {job, Enqueued(o)}
     \/ /\ Persist(c, <<Event("VideoJobQueued", o, 0, "none")>>, "loop")
        /\ job' = Enqueued(o)
  /\ UNCHANGED <<Log, clock, artifacts>>

Polling == {"queued", "processing"}
PollLimit(c) ==
  /\ Working(c, "generation", Polling) /\ inv[c].video.polls >= MaximumPolls
  /\ Persist(c, FailEvents, "failed")
  /\ UNCHANGED <<Log, Provider, clock>>

MayRetrieve(c) ==
  \/ Working(c, "generation", Polling) /\ inv[c].video.polls < MaximumPolls
  \/ Working(c, "generation", {"media_ready"})

RetrieveFails(c) ==
  /\ MayRetrieve(c) /\ ProviderError(c)
  /\ UNCHANGED <<Log, Provider, clock>>

(* A status the run cannot take: unknown, after completion, or regressed. *)
BadStatus(v, s) ==
  \/ s \notin JobStates
  \/ v.state = "media_ready"
  \/ v.state = "processing" /\ s = "queued"
StatusEvents(i, s) ==
  <<Event("VideoJobStatusObserved", i.req.op, i.video.polls + 1, s)>>
    \o (IF s = "failed" THEN FailEvents ELSE <<>>)

RetrieveStatus(c, s) ==
  /\ MayRetrieve(c)
  /\ IF BadStatus(inv[c].video, s) THEN Persist(c, FailEvents, "failed")
     ELSE Persist(c, StatusEvents(inv[c], s), IF s = "failed" THEN "failed" ELSE "loop")
  /\ UNCHANGED <<Log, Provider, clock>>

(* Media, of the right type or not; a cleaned up job has none. *)
RetrieveMedia(c, mp4) ==
  /\ MayRetrieve(c) /\ job[inv[c].req.op] = "live"
  /\ IF inv[c].video.state # "media_ready" \/ ~mp4
     THEN Persist(c, FailEvents, "failed")
     ELSE inv' = [inv EXCEPT ![c].at = "media"]
  /\ UNCHANGED <<Log, Provider, clock>>

Retrieve(c) ==
  \/ RetrieveFails(c)
  \/ \E s \in JobStates \cup {"invalid"} : RetrieveStatus(c, s)
  \/ \E mp4 \in BOOLEAN : RetrieveMedia(c, mp4)

PublishedAlone(o) ==
  <<Event("ArtifactCreated", o, 0, "none"), Event("VideoArtifactPublished", o, 0, "none")>>
Published(o) ==
  <<Event("ArtifactCreated", o, 0, "none"), Event("VideoArtifactPublished", o, 0, "none"),
    Event("VideoCleanupPending", o, 1, "none")>>

Publish(c) ==
  LET o == inv[c].req.op IN
  /\ inv[c].at = "media"
  /\ \/ Halted(c) /\ HaltEvents(c) /\ UNCHANGED artifacts
     \/ ~Halted(c) /\ ProviderError(c) /\ UNCHANGED artifacts
     \/ /\ ~Halted(c) /\ artifacts' = artifacts \cup {o}
        /\ Persist(c, Published(o), "loop")
  /\ UNCHANGED <<Log, clock, job>>

BetweenCleanups == {"published", "cleanup_failed"}
LeavePendingAtLimit(c) ==
  /\ LoopAt(c, "generation", BetweenCleanups) /\ inv[c].video.attempt = MaxNumber
  /\ Return(c, "pending")
  /\ UNCHANGED <<Log, Provider, clock>>
(* The published artifact is the answer while its clean-up is not done. *)
LeavePending(c) ==
  /\ LoopAt(c, "generation", {"cleanup_pending"} \cup BetweenCleanups)
  /\ \/ Halted(c)
     \/ inv[c].video.state \in BetweenCleanups /\ inv[c].video.attempt = MaxNumber
  /\ Return(c, "pending")
  /\ UNCHANGED <<Log, Provider, clock>>

NextCleanup(c) ==
  /\ Working(c, "generation", BetweenCleanups) /\ inv[c].video.attempt # MaxNumber
  /\ Persist(c, <<Event("VideoCleanupPending", inv[c].req.op,
                        inv[c].video.attempt + 1, "none")>>, "loop")
  /\ UNCHANGED <<Log, Provider, clock>>

CleanupEvent(i, type) == Event(type, i.req.op, i.video.attempt, "none")
(* The events that record the outcome of a clean-up call, and what follows. *)
AfterCleanup(i, done) ==
  IF done THEN [batch |-> <<CleanupEvent(i, "VideoCleanupCompleted"), Plain("RunCompleted")>>,
                next |-> "completed"]
  ELSE [batch |-> <<CleanupEvent(i, "VideoCleanupFailed")>>, next |-> "pending"]

Cleanup(c, done) ==
  LET i == inv[c] IN
  /\ Working(c, "generation", {"cleanup_pending"})
  /\ inv' = [inv EXCEPT ![c].at = "append", ![c].reloads = 0,
                        ![c].batch = AfterCleanup(i, done).batch,
                        ![c].next = AfterCleanup(i, done).next,
                        ![c].cleanups = i.cleanups + 1]
  /\ job' \in {[job EXCEPT ![i.req.op] = "cleaned"]} \cup (IF done THEN {} ELSE {job})
  /\ UNCHANGED <<Log, clock, artifacts>>

Transcribe(c) ==
  /\ Working(c, "transcription", {"requested"}) /\ inv[c].url
  /\ \/ ProviderError(c)
     \/ inv' = [inv EXCEPT ![c].at = "heard"]
  /\ UNCHANGED <<Log, Provider, clock>>

(* The text arrived: in time, without the URL in it, and well formed. *)
RecordTranscription(c, valid) ==
  /\ inv[c].at = "heard"
  /\ CASE Halted(c) -> HaltEvents(c)
       [] ~Halted(c) /\ ~valid -> Persist(c, FailEvents, "failed")
       [] OTHER -> Persist(c, <<Event("VideoTranscriptionObserved", inv[c].req.op, 0, "none"),
                                Plain("RunCompleted")>>, "completed")
  /\ UNCHANGED <<Log, Provider, clock>>

(***************************************************************************)
(* The environment.                                                        *)
(***************************************************************************)
RequestStop(c) ==
  /\ inv[c].at # "idle" /\ ~inv[c].stop
  /\ inv' = [inv EXCEPT ![c].stop = TRUE]
  /\ UNCHANGED <<Log, Provider, clock>>

(* The process of an invocation ends, or the invocation throws. *)
Die(c) ==
  /\ inv[c].at # "idle" /\ Return(c, "none")
  /\ UNCHANGED <<Log, Provider, clock>>

SetClock ==
  /\ clock' \in 0..MaxClock
  /\ UNCHANGED <<Log, Provider, inv>>

(* Another run of the session, or the one that created it. *)
OtherWriter ==
  /\ others < MaxOther /\ others' = others + 1 /\ seq' = seq + 1
  /\ UNCHANGED <<durable, Provider, inv, clock>>

Call(c) ==
  \E q \in Requests, url \in BOOLEAN, stopped \in BOOLEAN :
    /\ url => q.kind = "transcription"
    /\ \/ CreateSession(c, q, url)
       \/ StartRun(c, q, url)
       \/ ResumeRun(c, q, url, stopped)
       \/ \E mode \in {"create", "start", "resume"} : Refuse(c, q, mode, url, stopped)

Step(c) ==
  \/ AppendWorks(c) \/ AppendFails(c)
  \/ AppendConflicts(c) \/ CreateConflicts(c)
  \/ AnswerAtOnce(c) \/ Halt(c) \/ Quote(c) \/ Queue(c) \/ PollLimit(c)
  \/ Retrieve(c) \/ Publish(c)
  \/ LeavePending(c) \/ NextCleanup(c) \/ (\E done \in BOOLEAN : Cleanup(c, done))
  \/ Transcribe(c) \/ (\E valid \in BOOLEAN : RecordTranscription(c, valid))

Next ==
  \/ \E c \in Coordinators : Call(c) \/ Step(c) \/ RequestStop(c) \/ Die(c)
  \/ SetClock \/ OtherWriter

Spec == Init /\ [][Next]_vars

(* Every provider call is bounded by the timeout in its options, so an     *)
(* invocation always takes its next step.                                  *)
FairSpec == Spec /\ \A c \in Coordinators : WF_vars(Step(c))
(***************************************************************************)
(* Properties.                                                             *)
(***************************************************************************)
Projection ==
  [state: Lifecycle, workflow: {"none", "generation", "transcription"},
   op: Operations \cup {NoOperation}, polls: 0..MaximumPolls, attempt: 0..MaxNumber,
   staged: BOOLEAN, artifact: BOOLEAN, cancel: BOOLEAN, started: 0..MaxClock,
   last: Nat, run: Base!Projections({})]

Answers ==
  {"none", "refused", "storage_failure", "protocol_failure", "completed", "pending",
   "cancelled", "failed"}

(* Types; polling never passes maximum_polls and no attempt number passes  *)
(* its integer type (video_coordinator.cpp:591, 779), however often a run  *)
(* is resumed.                                                             *)
TypeOK ==
  /\ durable \in [Runs -> Projection] /\ seq \in Nat /\ clock \in 0..MaxClock
  /\ job \in [Operations -> {"none", "live", "cleaned"}]
  /\ artifacts \subseteq Operations /\ others \in 0..MaxOther
  /\ \A c \in Coordinators :
       /\ inv[c].at \in {"idle", "create", "append", "loop", "media", "heard"}
       /\ inv[c].req \in Requests /\ inv[c].video \in Projection
       /\ inv[c].answer \in Answers /\ inv[c].reloads \in 0..MaximumReloads

(* rebuild accepts every stored run (video.cpp:177), so load_state never   *)
(* refuses one as invalid: the events that belong together are one append. *)
StoredRunsRebuild ==
  \A r \in Runs : ~IncompleteAtomicTail(durable[r])

(* An operation identity belongs to one run, also when two processes start *)
(* runs with it at the same time (load_state, operation_owners): the       *)
(* provider's job of an operation is the job of one run.                   *)
OneRunPerOperation ==
  \A r, s \in Runs : r # s /\ durable[r].op # NoOperation => durable[r].op # durable[s].op

(* The provider and the stored runs never part.  A job exists only for an *)
(* operation that a stored run has requested and quoted, so that what may  *)
(* cost money can be found again; and the remote media is given up only    *)
(* when a run records its artifact and the artifact store has it (ADR      *)
(* 0017: no cleanup call occurs before that append succeeds).              *)
JobsMatchRuns ==
  \A o \in Operations :
    /\ job[o] # "none" =>
         \E r \in Runs : durable[r].op = o /\ durable[r].state \notin {"not_started", "requested"}
    /\ job[o] = "cleaned" =>
         o \in artifacts /\ \E r \in Runs : durable[r].op = o /\ durable[r].artifact

(* What a caller is told is what is stored.  A caller told "cancelled" may *)
(* find the run failed: the stop came while the deadline was recorded.     *)
AnswersAreStored ==
  \A c \in Coordinators :
    LET v == durable[inv[c].req.run] IN
    inv[c].at = "idle" =>
      /\ inv[c].answer = "completed" => v.state = "completed"
      /\ inv[c].answer = "pending" => v.artifact
      /\ inv[c].answer = "failed" => v.state = "failed"
      /\ inv[c].answer = "cancelled" => v.state \in {"failed", "cancelled"}

(* A stored run that has its artifact keeps it and can only complete, and  *)
(* a run that is over does not change, whatever a second coordinator with  *)
(* an older copy of the run tries to record.                               *)
PublishedIsKept ==
  [][\A r \in Runs :
       /\ durable[r].artifact =>
            durable'[r].artifact /\ durable'[r].state \notin {"failed", "cancelled"}
       /\ durable[r].state \in VideoTerminal => durable'[r] = durable[r]]_vars

(* A published run repeats no quote, queue, retrieval or publication, a    *)
(* completed one no cleanup and no transcription, and no call cleans up    *)
(* twice (ADR 0017).  Stated for coordinators that do not work on one run  *)
(* at the same time.                                                       *)
PublishedIsNotRepeated ==
  [][\A c \in Coordinators :
       LET v == durable[inv[c].req.run] IN
       /\ (Quote(c) \/ Queue(c) \/ Retrieve(c) \/ Publish(c)) => ~v.artifact
       /\ (Transcribe(c) \/ \E d \in BOOLEAN : Cleanup(c, d)) => v.state # "completed"
       /\ inv'[c].cleanups <= 1]_vars

(* Every call of generate and of transcribe returns: polling is bounded,   *)
(* conflicts are, and cleanup is not retried within a call.                *)
CallsReturn == \A c \in Coordinators : inv[c].at # "idle" ~> inv[c].at = "idle"
=============================================================================
