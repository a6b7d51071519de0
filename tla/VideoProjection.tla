--------------------------- MODULE VideoProjection ---------------------------
(***************************************************************************)
(* The video projection (src/src/lib/video.cpp, ADR 0017): the lifecycle   *)
(* every event of a video run is applied to, beside the run projection.    *)
(* An event is [type, op, n, status]; n is a poll or an attempt number.    *)
(* A projection is a record                                                *)
(*     state     the VideoLifecycleState,                                  *)
(*     workflow  "none", "generation" or "transcription",                  *)
(*     op        the operation identity of the request,                    *)
(*     polls     m_last_poll_number,    attempt  m_cleanup_attempt,        *)
(*     staged    whether m_staged_artifact is set,                         *)
(*     artifact  whether m_artifact is set,                                *)
(*     cancel    m_cancel_requested,                                       *)
(*     started   m_started_at,          last     m_last_sequence,          *)
(*     run       the run projection of the same run.                       *)
(* m_quote and m_job_id are set from "quoted" and "queued" on; the job is  *)
(* the provider's for the operation.  Field validation of prompts, media   *)
(* metadata and texts, and the envelope checks, are left out.              *)
(***************************************************************************)
EXTENDS Naturals, Sequences

CONSTANTS
  Operations,        \* VideoOperationIds
  NoOperation,
  MaxNumber          \* std::numeric_limits<std::uint32_t>::max()

Base == INSTANCE RunProjection

JobStates == {"queued", "processing", "completed", "failed"}
VideoTerminal == {"completed", "failed", "cancelled"}
BeforePublication == {"requested", "quoted", "queued", "processing", "media_ready"}
Lifecycle ==
  {"not_started", "published", "cleanup_pending", "cleanup_failed", "job_failed",
   "cleanup_completed", "transcription_observed"} \cup BeforePublication \cup VideoTerminal

Blank ==
  [state |-> "not_started", workflow |-> "none", op |-> NoOperation, polls |-> 0,
   attempt |-> 0, staged |-> FALSE, artifact |-> FALSE, cancel |-> FALSE,
   started |-> 0, last |-> 0, run |-> Base!NotStarted]

Event(type, op, n, status) == [type |-> type, op |-> op, n |-> n, status |-> status]
Plain(type) == Event(type, NoOperation, 0, "none")

(* The states an event may be applied in. *)
From ==
  [RunStarted                  |-> {"not_started"},
   VideoGenerationRequested    |-> {"not_started"},
   VideoTranscriptionRequested |-> {"not_started"},
   VideoQuoteObserved          |-> {"requested"},
   VideoJobQueued              |-> {"quoted"},
   VideoJobStatusObserved      |-> {"queued", "processing"},
   ArtifactCreated             |-> {"media_ready"},
   VideoArtifactPublished      |-> {"media_ready"},
   VideoCleanupPending         |-> {"published", "cleanup_failed"},
   VideoCleanupCompleted       |-> {"cleanup_pending"},
   VideoCleanupFailed          |-> {"cleanup_pending"},
   VideoTranscriptionObserved  |-> {"requested"},
   RunCancelRequested          |-> BeforePublication,
   RunCancelled                |-> BeforePublication,
   RunFailed                   |-> BeforePublication \cup {"job_failed"},
   RunCompleted                |-> {"cleanup_completed", "transcription_observed"}]

(* The events that carry the operation identity of a generation. *)
OfGeneration ==
  {"VideoQuoteObserved", "VideoJobQueued", "VideoJobStatusObserved",
   "VideoArtifactPublished", "VideoCleanupPending", "VideoCleanupCompleted",
   "VideoCleanupFailed"}

(* RunProjection::apply of the same event. *)
BaseAccepts(p, type) ==
  CASE type = "RunStarted" -> p.status = "not_started"
    [] type = "RunCompleted" -> Base!AcceptsRunCompleted(p)
    [] OTHER -> Base!RequireRunning(p)
BaseApply(p, type) ==
  CASE type = "RunStarted" -> Base!RunStarted
    [] type = "RunCompleted" -> Base!RunEnded(p, "completed")
    [] type = "RunFailed" -> Base!RunEnded(p, "failed")
    [] type = "RunCancelled" -> Base!RunEnded(p, "cancelled")
    [] OTHER -> p

Accepts(v, e) ==
  /\ v.state \in From[e.type]
  /\ v.cancel => e.type = "RunCancelled"
  /\ e.type \in OfGeneration => v.workflow = "generation" /\ e.op = v.op
  /\ e.type = "ArtifactCreated" => ~v.staged
  /\ e.type = "VideoArtifactPublished" => v.staged
  /\ e.type = "VideoTranscriptionObserved" =>
       v.workflow = "transcription" /\ e.op = v.op
  /\ e.type = "VideoJobStatusObserved" =>
       /\ e.status \in JobStates
       /\ v.polls # MaxNumber /\ e.n = v.polls + 1
       /\ ~(v.state = "processing" /\ e.status = "queued")
  /\ e.type = "VideoCleanupPending" => v.attempt # MaxNumber /\ e.n = v.attempt + 1
  /\ e.type \in {"VideoCleanupCompleted", "VideoCleanupFailed"} => e.n = v.attempt
  /\ e.type = "RunCancelled" => v.cancel
  /\ BaseAccepts(v.run, e.type)

To(v, e) ==
  CASE e.type \in {"VideoGenerationRequested", "VideoTranscriptionRequested"} -> "requested"
    [] e.type = "VideoQuoteObserved" -> "quoted"
    [] e.type = "VideoJobQueued" -> "queued"
    [] e.type = "VideoJobStatusObserved" ->
         [queued |-> "queued", processing |-> "processing",
          completed |-> "media_ready", failed |-> "job_failed"][e.status]
    [] e.type = "VideoArtifactPublished" -> "published"
    [] e.type = "VideoCleanupPending" -> "cleanup_pending"
    [] e.type = "VideoCleanupCompleted" -> "cleanup_completed"
    [] e.type = "VideoCleanupFailed" -> "cleanup_failed"
    [] e.type = "VideoTranscriptionObserved" -> "transcription_observed"
    [] e.type = "RunCancelled" -> "cancelled"
    [] e.type = "RunFailed" -> "failed"
    [] e.type = "RunCompleted" -> "completed"
    [] OTHER -> v.state

(* VideoProjection::apply, of the event with sequence seq written at time t. *)
Apply(v, e, seq, t) ==
  [v EXCEPT
     !.state = To(v, e),
     !.workflow = CASE e.type = "VideoGenerationRequested" -> "generation"
                    [] e.type = "VideoTranscriptionRequested" -> "transcription"
                    [] OTHER -> @,
     !.op = IF e.type \in {"VideoGenerationRequested", "VideoTranscriptionRequested"}
            THEN e.op ELSE @,
     !.polls = IF e.type = "VideoJobStatusObserved" THEN e.n ELSE @,
     !.attempt = IF e.type = "VideoCleanupPending" THEN e.n ELSE @,
     !.staged = IF e.type = "ArtifactCreated" THEN TRUE
                ELSE @ /\ e.type # "VideoArtifactPublished",
     !.artifact = @ \/ e.type = "VideoArtifactPublished",
     !.cancel = @ \/ e.type = "RunCancelRequested",
     !.started = IF e.type = "RunStarted" THEN t ELSE @,
     !.last = seq,
     !.run = BaseApply(@, e.type)]

(* A batch applied after an event log of length seq, event by event: the   *)
(* projections passed through, the first of them v itself.                 *)
Prefixes(v, events, seq, t) ==
  LET p[i \in 0..Len(events)] ==
        IF i = 0 THEN v ELSE Apply(p[i - 1], events[i], seq + i, t)
  IN p
AcceptsAll(v, events, seq, t) ==
  \A i \in 1..Len(events) : Accepts(Prefixes(v, events, seq, t)[i - 1], events[i])
ApplyAll(v, events, seq, t) == Prefixes(v, events, seq, t)[Len(events)]

(* What rebuild refuses: a history that ends inside a batch. *)
IncompleteAtomicTail(v) ==
  \/ v.cancel /\ v.state # "cancelled"
  \/ v.staged
  \/ v.state \in {"job_failed", "published", "cleanup_completed",
                  "transcription_observed"}
===============================================================================
