------------------------ MODULE VideoCoordinatorProofs ------------------------
(***************************************************************************)
(* Proofs about durable video work: stored runs are never left inside a    *)
(* batch, an operation belongs to one run, the provider's jobs match the   *)
(* stored runs, callers are told what is stored, and a published run is    *)
(* kept, for any number of callers, runs, operations and other writers.    *)
(***************************************************************************)
EXTENDS VideoCoordinator, SequenceTheorems, TLAPS

Types ==
  {"RunStarted", "VideoGenerationRequested", "VideoTranscriptionRequested",
   "VideoQuoteObserved", "VideoJobQueued", "VideoJobStatusObserved", "ArtifactCreated",
   "VideoArtifactPublished", "VideoCleanupPending", "VideoCleanupCompleted",
   "VideoCleanupFailed", "VideoTranscriptionObserved", "RunCancelRequested",
   "RunCancelled", "RunFailed", "RunCompleted"}
EventRecord ==
  [type: Types, op: Operations \cup {NoOperation}, n: Nat,
   status: JobStates \cup {"invalid", "none"}]
VideoRecord ==
  [state: Lifecycle, workflow: {"none", "generation", "transcription"},
   op: Operations \cup {NoOperation}, polls: Nat, attempt: Nat, staged: BOOLEAN,
   artifact: BOOLEAN, cancel: BOOLEAN, started: Nat, last: Nat, run: Base!Projections({})]
Places == {"idle", "create", "append", "loop", "media", "heard"}
Nexts == {"none", "loop", "halted", "failed", "cancelled", "completed", "pending"}
Invocation ==
  [at: Places, req: Requests, url: BOOLEAN, stop: BOOLEAN, video: VideoRecord, seq: Nat,
   batch: Seq(EventRecord), next: Nexts, reloads: Nat, cleanups: Nat, answer: Answers]

TypesInv ==
  /\ durable \in [Runs -> VideoRecord] /\ seq \in Nat /\ clock \in Nat /\ others \in Nat
  /\ inv \in [Coordinators -> Invocation]
  /\ job \in [Operations -> {"none", "live", "cleaned"}] /\ artifacts \subseteq Operations

(***************************************************************************)
(* What is true of every projection that was stored as a whole, and of two *)
(* of them, one after the other.                                           *)
(***************************************************************************)
AfterPublication == {"cleanup_pending", "cleanup_failed", "completed"}
Begun == Lifecycle \ {"not_started", "requested"}

Whole(v) ==
  /\ ~IncompleteAtomicTail(v)
  /\ v.state = "not_started" <=> v.op = NoOperation
  /\ v.artifact => v.state \in AfterPublication
  /\ v.state \in {"cleanup_pending", "cleanup_failed"} => v.artifact

Later(v, w) ==
  /\ v.op # NoOperation => w.op = v.op
  /\ v.state \in Begun => w.state \in Begun
  /\ v.artifact => w.artifact
  /\ v.state \in VideoTerminal => w = v

(* What the coordinator appends, and what follows. *)
Begins(i) == i.batch = Requested(i.req) /\ i.next = "loop"
Fails(i) == i.batch = FailEvents /\ i.next \in {"failed", "halted"}
Cancels(i) ==
  i.batch = CancelEvents /\ (i.next = "cancelled" \/ (i.next = "halted" /\ i.stop))
Observes(i) ==
  /\ i.next = "loop"
  /\ \E n \in Nat, s \in JobStates \ {"failed"} :
       i.batch \in {<<Event("VideoQuoteObserved", i.req.op, 0, "none")>>,
                    <<Event("VideoJobQueued", i.req.op, 0, "none")>>,
                    <<Event("VideoJobStatusObserved", i.req.op, n, s)>>,
                    <<Event("VideoCleanupPending", i.req.op, n, "none")>>}
JobFails(i) ==
  /\ i.next = "failed"
  /\ \E n \in Nat : i.batch = <<Event("VideoJobStatusObserved", i.req.op, n, "failed"),
                                Plain("RunFailed")>>
Publishes(i, arts) == i.batch = Published(i.req.op) /\ i.next = "loop" /\ i.req.op \in arts
Completes(i) ==
  /\ i.next = "completed"
  /\ \E n \in Nat, t \in {"VideoCleanupCompleted", "VideoTranscriptionObserved"} :
       i.batch = <<Event(t, i.req.op, n, "none"), Plain("RunCompleted")>>
LeavesPending(i) ==
  /\ i.next = "pending"
  /\ \E n \in Nat : i.batch = <<Event("VideoCleanupFailed", i.req.op, n, "none")>>

Offers(i, arts) ==
  \/ Begins(i)
  \/ /\ i.video.op = i.req.op
     /\ \/ Fails(i) \/ Cancels(i) \/ Observes(i) \/ JobFails(i)
        \/ Publishes(i, arts) \/ Completes(i) \/ LeavesPending(i)

(* The copy an invocation works on: behind the stored run, and the stored run
   itself as long as nothing was appended since it was read. *)
CopyOK(i) ==
  /\ Whole(i.video) /\ Later(i.video, durable[i.req.run])
  /\ i.seq <= seq
  /\ i.seq = seq =>
       /\ i.video = durable[i.req.run]
       /\ \A r \in Runs \ {i.req.run} : durable[r].op # i.req.op

WorkOK(i, arts) ==
  /\ i.at \in {"append", "create"} => Offers(i, arts)
  /\ i.at \in {"loop", "media", "heard"} => i.video.op = i.req.op

Told(i, v) ==
  /\ i.answer = "completed" => v.state = "completed"
  /\ i.answer = "pending" => v.artifact
  /\ i.answer = "failed" => v.state = "failed"
  /\ i.answer = "cancelled" => v.state \in {"failed", "cancelled"}

(* The inductive invariant. *)
RunsInv ==
  /\ \A r \in Runs : Whole(durable[r])
  /\ \A r \in Runs : durable[r].artifact => durable[r].op \in artifacts
  /\ seq = 0 => \A r \in Runs : durable[r] = Blank
CallOK(i, arts) ==
  IF i.at = "idle" THEN Told(i, durable[i.req.run]) ELSE CopyOK(i) /\ WorkOK(i, arts)
CallsInv == \A c \in Coordinators : CallOK(inv[c], artifacts)

VideoInv == TypesInv /\ RunsInv /\ OneRunPerOperation /\ JobsMatchRuns /\ CallsInv
(***************************************************************************)
(* A batch is applied event by event.                                      *)
(***************************************************************************)
(* One event. *)
LEMMA ApplyOne ==
  ASSUME NEW v, NEW a, NEW s \in Nat, NEW t, NEW q, Len(q) = 1, q[1] = a
  PROVE  /\ ApplyAll(v, q, s, t) = Apply(v, a, s + 1, t)
         /\ AcceptsAll(v, q, s, t) => Accepts(v, a)
<1> DEFINE G(f, i) == IF i = 0 THEN v ELSE Apply(f[i - 1], q[i], s + i, t)
           P(f) == f = [i \in 0..1 |-> G(f, i)]
           v1 == Apply(v, q[1], s + 1, t)
           g == [i \in 0..1 |-> IF i = 0 THEN v ELSE v1]
<1>1. P(g)
  <2> HIDE DEF v1
  <2>1. G(g, 0) = v /\ G(g, 1) = v1
    BY DEF v1
  <2>2. \A i \in 0..1 : g[i] = G(g, i)
    <3> HIDE DEF G
    <3> QED
      BY <2>1
  <2> HIDE DEF G
  <2>3. g = [i \in 0..1 |-> G(g, i)]
    BY <2>2
  <2> QED
    BY <2>3
<1>2. \A f : P(f) => f[0] = v /\ f[1] = v1
  <2> TAKE f
  <2> HAVE P(f)
  <2>1. \A i \in 0..1 : f[i] = G(f, i)
    <3> HIDE DEF G
    <3> QED
      OBVIOUS
  <2>2. f[0] = v
    BY <2>1
  <2>3. f[1] = Apply(f[0], q[1], s + 1, t)
    BY <2>1
  <2> QED
    BY <2>2, <2>3
<1>3. Prefixes(v, q, s, t) = CHOOSE f : P(f)
  BY DEF Prefixes
<1> HIDE DEF P
<1>4. Prefixes(v, q, s, t)[0] = v /\ Prefixes(v, q, s, t)[1] = v1
  BY <1>1, <1>2, <1>3
<1> QED
  BY <1>4 DEF ApplyAll, AcceptsAll

(* Two events. *)
LEMMA ApplyTwo ==
  ASSUME NEW v, NEW a, NEW b, NEW s \in Nat, NEW t, NEW q, Len(q) = 2, q[1] = a, q[2] = b
  PROVE  /\ ApplyAll(v, q, s, t) =
              Apply(Apply(v, a, s + 1, t), b, s + 2, t)
         /\ AcceptsAll(v, q, s, t) =>
              /\ Accepts(v, a)
              /\ Accepts(Apply(v, a, s + 1, t), b)
<1> DEFINE G(f, i) == IF i = 0 THEN v ELSE Apply(f[i - 1], q[i], s + i, t)
           P(f) == f = [i \in 0..2 |-> G(f, i)]
           v1 == Apply(v, q[1], s + 1, t)
           v2 == Apply(v1, q[2], s + 2, t)
           g == [i \in 0..2 |-> IF i = 0 THEN v ELSE IF i = 1 THEN v1 ELSE v2]
           p == Prefixes(v, q, s, t)
<1>1. P(g)
  <2>1. G(g, 0) = v /\ G(g, 1) = v1 /\ G(g, 2) = v2
    <3> HIDE DEF v1, v2
    <3>1. g[0] = v /\ g[1] = v1 /\ g[2] = v2
      OBVIOUS
    <3> HIDE DEF g
    <3> QED
      BY <3>1 DEF v1, v2
  <2> HIDE DEF v1, v2
  <2>2. \A i \in 0..2 : g[i] = G(g, i)
    <3> HIDE DEF G
    <3> QED
      BY <2>1
  <2> HIDE DEF G
  <2>3. g = [i \in 0..2 |-> G(g, i)]
    BY <2>2
  <2> QED
    BY <2>3
<1>2. \A f : P(f) => f[0] = v /\ f[1] = v1 /\ f[2] = v2
  <2> TAKE f
  <2> HAVE P(f)
  <2>1. \A i \in 0..2 : f[i] = G(f, i)
    <3> HIDE DEF G
    <3> QED
      OBVIOUS
  <2>2. f[0] = v
    BY <2>1
  <2>3. f[1] = Apply(f[0], q[1], s + 1, t)
    BY <2>1
  <2>4. f[2] = Apply(f[1], q[2], s + 2, t)
    BY <2>1
  <2> QED
    BY <2>2, <2>3, <2>4
<1>3. p = CHOOSE f : P(f)
  BY DEF Prefixes
<1> HIDE DEF P, p
<1>4. p[0] = v /\ p[1] = v1 /\ p[2] = v2
  BY <1>1, <1>2, <1>3
<1> USE DEF p
<1>5. AcceptsAll(v, q, s, t) => Accepts(v, q[1])
  <2> HIDE DEF v1, v2
  <2> QED
    BY <1>4 DEF AcceptsAll
<1>6. AcceptsAll(v, q, s, t) => Accepts(v1, q[2])
  <2> HIDE DEF v1, v2
  <2> QED
    BY <1>4 DEF AcceptsAll
<1>7. ApplyAll(v, q, s, t) = v2
  BY <1>4 DEF ApplyAll
<1> QED
  BY <1>5, <1>6, <1>7

(* Three events. *)
LEMMA ApplyThree ==
  ASSUME NEW v, NEW a, NEW b, NEW c, NEW s \in Nat, NEW t, NEW q, Len(q) = 3, q[1] = a, q[2] = b, q[3] = c
  PROVE  /\ ApplyAll(v, q, s, t) =
              Apply(Apply(Apply(v, a, s + 1, t), b, s + 2, t), c, s + 3, t)
         /\ AcceptsAll(v, q, s, t) =>
              /\ Accepts(v, a)
              /\ Accepts(Apply(v, a, s + 1, t), b)
              /\ Accepts(Apply(Apply(v, a, s + 1, t), b, s + 2, t), c)
<1> DEFINE G(f, i) == IF i = 0 THEN v ELSE Apply(f[i - 1], q[i], s + i, t)
           P(f) == f = [i \in 0..3 |-> G(f, i)]
           v1 == Apply(v, q[1], s + 1, t)
           v2 == Apply(v1, q[2], s + 2, t)
           v3 == Apply(v2, q[3], s + 3, t)
           g == [i \in 0..3 |-> IF i = 0 THEN v ELSE IF i = 1 THEN v1 ELSE IF i = 2 THEN v2 ELSE v3]
           p == Prefixes(v, q, s, t)
<1>1. P(g)
  <2>1. G(g, 0) = v /\ G(g, 1) = v1 /\ G(g, 2) = v2 /\ G(g, 3) = v3
    <3> HIDE DEF v1, v2, v3
    <3>1. g[0] = v /\ g[1] = v1 /\ g[2] = v2 /\ g[3] = v3
      OBVIOUS
    <3> HIDE DEF g
    <3> QED
      BY <3>1 DEF v1, v2, v3
  <2> HIDE DEF v1, v2, v3
  <2>2. \A i \in 0..3 : g[i] = G(g, i)
    <3> HIDE DEF G
    <3> QED
      BY <2>1
  <2> HIDE DEF G
  <2>3. g = [i \in 0..3 |-> G(g, i)]
    BY <2>2
  <2> QED
    BY <2>3
<1>2. \A f : P(f) => f[0] = v /\ f[1] = v1 /\ f[2] = v2 /\ f[3] = v3
  <2> TAKE f
  <2> HAVE P(f)
  <2>1. \A i \in 0..3 : f[i] = G(f, i)
    <3> HIDE DEF G
    <3> QED
      OBVIOUS
  <2>2. f[0] = v
    BY <2>1
  <2>3. f[1] = Apply(f[0], q[1], s + 1, t)
    BY <2>1
  <2>4. f[2] = Apply(f[1], q[2], s + 2, t)
    BY <2>1
  <2>5. f[3] = Apply(f[2], q[3], s + 3, t)
    BY <2>1
  <2> QED
    BY <2>2, <2>3, <2>4, <2>5
<1>3. p = CHOOSE f : P(f)
  BY DEF Prefixes
<1> HIDE DEF P, p
<1>4. p[0] = v /\ p[1] = v1 /\ p[2] = v2 /\ p[3] = v3
  BY <1>1, <1>2, <1>3
<1> USE DEF p
<1>5. AcceptsAll(v, q, s, t) => Accepts(v, q[1])
  <2> HIDE DEF v1, v2, v3
  <2> QED
    BY <1>4 DEF AcceptsAll
<1>6. AcceptsAll(v, q, s, t) => Accepts(v1, q[2])
  <2> HIDE DEF v1, v2, v3
  <2> QED
    BY <1>4 DEF AcceptsAll
<1>7. AcceptsAll(v, q, s, t) => Accepts(v2, q[3])
  <2> HIDE DEF v1, v2, v3
  <2> QED
    BY <1>4 DEF AcceptsAll
<1>8. ApplyAll(v, q, s, t) = v3
  BY <1>4 DEF ApplyAll
<1> QED
  BY <1>5, <1>6, <1>7, <1>8
(***************************************************************************)
(* What one event changes.                                                 *)
(***************************************************************************)
Asks == {"VideoGenerationRequested", "VideoTranscriptionRequested"}

(* The run projection stays well formed. *)
LEMMA BaseType ==
  ASSUME NEW p \in Base!Projections({}), NEW y \in Types
  PROVE  BaseApply(p, y) \in Base!Projections({})
BY DEF BaseApply, Base!Projections, Base!RunStarted, Base!RunEnded, Base!NotStarted,
       Base!Statuses, Base!RunOver, Types

(* An event leads to a state of the lifecycle. *)
LEMMA ToType ==
  ASSUME NEW v \in VideoRecord, NEW e \in EventRecord, Accepts(v, e)
  PROVE  To(v, e) \in Lifecycle
<1>1. v.state \in Lifecycle /\ e.type \in Types
  BY DEF VideoRecord, EventRecord
<1>2. e.type = "VideoJobStatusObserved" => e.status \in JobStates
  BY DEF Accepts
<1> QED
  BY <1>1, <1>2 DEF To, Types, Lifecycle, JobStates, BeforePublication, VideoTerminal

(* w is v after e, field by field. *)
Applied(v, e, w) ==
  /\ w \in VideoRecord
  /\ w.state = To(v, e)
  /\ w.op = IF e.type \in Asks THEN e.op ELSE v.op
  /\ w.staged <=> (e.type = "ArtifactCreated"
                     \/ (v.staged /\ e.type # "VideoArtifactPublished"))
  /\ w.artifact <=> (v.artifact \/ e.type = "VideoArtifactPublished")
  /\ w.cancel <=> (v.cancel \/ e.type = "RunCancelRequested")

(* What Apply does to a projection that accepts the event. *)
LEMMA ApplyFields ==
  ASSUME NEW v \in VideoRecord, NEW e \in EventRecord, NEW s \in Nat, NEW t \in Nat,
         Accepts(v, e), NEW w, w = Apply(v, e, s, t)
  PROVE  Applied(v, e, w)
<1> DEFINE st == To(v, e)
           rn == BaseApply(v.run, e.type)
           wf == CASE e.type = "VideoGenerationRequested" -> "generation"
                    [] e.type = "VideoTranscriptionRequested" -> "transcription"
                    [] OTHER -> v.workflow
           sg == IF e.type = "ArtifactCreated" THEN TRUE
                 ELSE v.staged /\ e.type # "VideoArtifactPublished"
           af == v.artifact \/ e.type = "VideoArtifactPublished"
           cl == v.cancel \/ e.type = "RunCancelRequested"
           op == IF e.type \in Asks THEN e.op ELSE v.op
           po == IF e.type = "VideoJobStatusObserved" THEN e.n ELSE v.polls
           at == IF e.type = "VideoCleanupPending" THEN e.n ELSE v.attempt
           sd == IF e.type = "RunStarted" THEN t ELSE v.started
<1>1. w = [v EXCEPT !.state = st, !.workflow = wf, !.op = op, !.polls = po, !.attempt = at,
                    !.staged = sg, !.artifact = af, !.cancel = cl, !.started = sd,
                    !.last = s, !.run = rn]
  BY Zenon DEF Apply, Asks
<1>2. st \in Lifecycle
  BY ToType
<1>3. rn \in Base!Projections({})
  BY BaseType DEF VideoRecord, EventRecord
<1>4. /\ wf \in {"none", "generation", "transcription"} /\ op \in Operations \cup {NoOperation}
      /\ po \in Nat /\ at \in Nat /\ sd \in Nat
  BY DEF VideoRecord, EventRecord
<1>5. sg \in BOOLEAN /\ af \in BOOLEAN /\ cl \in BOOLEAN
  BY DEF VideoRecord
<1> HIDE DEF st, rn, wf, sg, af, cl, op, po, at, sd
<1>6. w \in VideoRecord
  BY <1>1, <1>2, <1>3, <1>4, <1>5 DEF VideoRecord
<1>7. w.state = st /\ w.op = op /\ w.staged = sg /\ w.artifact = af /\ w.cancel = cl
  BY <1>1 DEF VideoRecord
<1>8. sg <=> (e.type = "ArtifactCreated" \/ (v.staged /\ e.type # "VideoArtifactPublished"))
  BY DEF sg
<1> QED
  BY <1>6, <1>7, <1>8 DEF st, op, af, cl, Applied
Goes(v, e, y, from, to) ==
  e.type = y => v.state \in from /\ To(v, e) = to /\ (v.cancel => y = "RunCancelled")

(* What the acceptance of an event says of the projection, and where it leads. *)
LEMMA EventRules ==
  ASSUME NEW v, NEW e, Accepts(v, e)
  PROVE  /\ Goes(v, e, "RunStarted", {"not_started"}, v.state)
         /\ Goes(v, e, "VideoGenerationRequested", {"not_started"}, "requested")
         /\ Goes(v, e, "VideoTranscriptionRequested", {"not_started"}, "requested")
         /\ Goes(v, e, "VideoQuoteObserved", {"requested"}, "quoted")
         /\ Goes(v, e, "VideoJobQueued", {"quoted"}, "queued")
         /\ Goes(v, e, "ArtifactCreated", {"media_ready"}, v.state)
         /\ Goes(v, e, "VideoArtifactPublished", {"media_ready"}, "published")
         /\ Goes(v, e, "VideoCleanupPending", {"published", "cleanup_failed"}, "cleanup_pending")
         /\ Goes(v, e, "VideoCleanupCompleted", {"cleanup_pending"}, "cleanup_completed")
         /\ Goes(v, e, "VideoCleanupFailed", {"cleanup_pending"}, "cleanup_failed")
         /\ Goes(v, e, "VideoTranscriptionObserved", {"requested"}, "transcription_observed")
         /\ Goes(v, e, "RunCancelRequested", BeforePublication, v.state)
         /\ Goes(v, e, "RunCancelled", BeforePublication, "cancelled")
         /\ Goes(v, e, "RunFailed", BeforePublication \cup {"job_failed"}, "failed")
         /\ Goes(v, e, "RunCompleted", {"cleanup_completed", "transcription_observed"}, "completed")
         /\ e.type \in OfGeneration \cup {"VideoTranscriptionObserved"} => e.op = v.op
         /\ e.type = "VideoJobStatusObserved" =>
              /\ v.state \in {"queued", "processing"} /\ ~v.cancel /\ e.status \in JobStates
              /\ e.status # "failed" => To(v, e) \in {"queued", "processing", "media_ready"}
              /\ e.status = "failed" => To(v, e) = "job_failed"
<1>1. Goes(v, e, "RunStarted", {"not_started"}, v.state)
  BY DEF Accepts, From, To, Goes
<1>2. Goes(v, e, "VideoGenerationRequested", {"not_started"}, "requested")
  BY DEF Accepts, From, To, Goes
<1>3. Goes(v, e, "VideoTranscriptionRequested", {"not_started"}, "requested")
  BY DEF Accepts, From, To, Goes
<1>4. Goes(v, e, "VideoQuoteObserved", {"requested"}, "quoted")
  BY DEF Accepts, From, To, Goes
<1>5. Goes(v, e, "VideoJobQueued", {"quoted"}, "queued")
  BY DEF Accepts, From, To, Goes
<1>6. Goes(v, e, "ArtifactCreated", {"media_ready"}, v.state)
  BY DEF Accepts, From, To, Goes
<1>7. Goes(v, e, "VideoArtifactPublished", {"media_ready"}, "published")
  BY DEF Accepts, From, To, Goes
<1>8. Goes(v, e, "VideoCleanupPending", {"published", "cleanup_failed"}, "cleanup_pending")
  BY DEF Accepts, From, To, Goes
<1>9. Goes(v, e, "VideoCleanupCompleted", {"cleanup_pending"}, "cleanup_completed")
  BY DEF Accepts, From, To, Goes
<1>10. Goes(v, e, "VideoCleanupFailed", {"cleanup_pending"}, "cleanup_failed")
  BY DEF Accepts, From, To, Goes
<1>11. Goes(v, e, "VideoTranscriptionObserved", {"requested"}, "transcription_observed")
  BY DEF Accepts, From, To, Goes
<1>12. Goes(v, e, "RunCancelRequested", BeforePublication, v.state)
  BY DEF Accepts, From, To, Goes
<1>13. Goes(v, e, "RunCancelled", BeforePublication, "cancelled")
  BY DEF Accepts, From, To, Goes
<1>14. Goes(v, e, "RunFailed", BeforePublication \cup {"job_failed"}, "failed")
  BY DEF Accepts, From, To, Goes
<1>15. Goes(v, e, "RunCompleted", {"cleanup_completed", "transcription_observed"}, "completed")
  BY DEF Accepts, From, To, Goes
<1>16. e.type \in OfGeneration \cup {"VideoTranscriptionObserved"} => e.op = v.op
  BY DEF Accepts, OfGeneration
<1>17. e.type = "VideoJobStatusObserved" =>
         /\ v.state \in {"queued", "processing"} /\ ~v.cancel /\ e.status \in JobStates
         /\ e.status # "failed" => To(v, e) \in {"queued", "processing", "media_ready"}
         /\ e.status = "failed" => To(v, e) = "job_failed"
  BY DEF Accepts, From, To, JobStates
<1> QED
  BY <1>1, <1>2, <1>3, <1>4, <1>5, <1>6, <1>7, <1>8, <1>9, <1>10, <1>11, <1>12, <1>13, <1>14, <1>15, <1>16, <1>17

(* The events the coordinator makes. *)
LEMMA EventFields ==
  ASSUME NEW y \in Types, NEW o \in Operations \cup {NoOperation}, NEW n \in Nat,
         NEW u \in JobStates \cup {"invalid", "none"}, NEW e, e = Event(y, o, n, u)
  PROVE  e \in EventRecord /\ e.type = y /\ e.op = o /\ e.n = n /\ e.status = u
BY DEF Event, EventRecord

(* An event without fields of its own. *)
LEMMA PlainFields ==
  ASSUME NEW y \in Types, NEW e, e = Plain(y)
  PROVE  e \in EventRecord /\ e.type = y
BY EventFields DEF Plain
(***************************************************************************)
(* What the batches of the coordinator make of a whole projection.         *)
(***************************************************************************)
Sound(v, w) == w \in VideoRecord /\ Whole(w) /\ Later(v, w)

(* A failure. *)
LEMMA FailBatch ==
  ASSUME NEW v \in VideoRecord, Whole(v), NEW s \in Nat, NEW t \in Nat,
         AcceptsAll(v, FailEvents, s, t), NEW w, w = ApplyAll(v, FailEvents, s, t)
  PROVE  Sound(v, w) /\ w.op = v.op /\ w.state = "failed" /\ ~w.artifact
<1> DEFINE e == Plain("RunFailed")
<1>1. e \in EventRecord /\ e.type = "RunFailed"
  BY PlainFields DEF Types
<1>2. Len(FailEvents) = 1 /\ FailEvents[1] = e
  BY DEF FailEvents
<1> HIDE DEF e
<1>3. w = Apply(v, e, s + 1, t) /\ Accepts(v, e)
  BY <1>2, ApplyOne
<1>4. /\ v.state \in BeforePublication \cup {"job_failed"} /\ To(v, e) = "failed" /\ ~v.cancel
  BY <1>1, <1>3, EventRules DEF Goes
<1>5. /\ w \in VideoRecord /\ w.state = "failed" /\ w.op = v.op
      /\ (w.staged <=> v.staged) /\ (w.artifact <=> v.artifact) /\ (w.cancel <=> v.cancel)
  <2> s + 1 \in Nat /\ s + 2 \in Nat /\ s + 3 \in Nat
    OBVIOUS
  <2>1. Applied(v, e, w)
    BY <1>1, <1>3, <1>4, ApplyFields, Zenon
  <2> QED
    BY <2>1, <1>1, <1>3, <1>4 DEF Applied, Asks
<1> QED
  BY <1>4, <1>5 DEF Sound, Whole, Later, IncompleteAtomicTail, AfterPublication, Begun,
                    Lifecycle, BeforePublication, VideoTerminal

(* A cancellation. *)
LEMMA CancelBatch ==
  ASSUME NEW v \in VideoRecord, Whole(v), NEW s \in Nat, NEW t \in Nat,
         AcceptsAll(v, CancelEvents, s, t), NEW w, w = ApplyAll(v, CancelEvents, s, t)
  PROVE  Sound(v, w) /\ w.op = v.op /\ w.state = "cancelled" /\ ~w.artifact
<1> DEFINE e == Plain("RunCancelRequested")
           f == Plain("RunCancelled")
           u == Apply(v, e, s + 1, t)
<1>1. e \in EventRecord /\ e.type = "RunCancelRequested"
  BY PlainFields DEF Types
<1>2. f \in EventRecord /\ f.type = "RunCancelled"
  BY PlainFields DEF Types
<1>3. Len(CancelEvents) = 2 /\ CancelEvents[1] = e /\ CancelEvents[2] = f
  BY DEF CancelEvents
<1> HIDE DEF e, f, u
<1>4. w = Apply(u, f, s + 2, t) /\ Accepts(v, e) /\ Accepts(u, f)
  BY <1>3, ApplyTwo DEF u
<1>5. v.state \in BeforePublication /\ To(v, e) = v.state /\ ~v.cancel
  BY <1>1, <1>4, EventRules DEF Goes
<1>6. /\ u \in VideoRecord /\ u.state = v.state /\ u.op = v.op
      /\ (u.staged <=> v.staged) /\ (u.artifact <=> v.artifact) /\ u.cancel
  <2> s + 1 \in Nat /\ s + 2 \in Nat /\ s + 3 \in Nat
    OBVIOUS
  <2>1. Applied(v, e, u)
    BY <1>1, <1>4, <1>5, ApplyFields, Zenon DEF u
  <2> QED
    BY <2>1, <1>1, <1>4, <1>5 DEF Applied, Asks
<1>7. To(u, f) = "cancelled"
  BY <1>2, <1>4, EventRules DEF Goes
<1>8. /\ w \in VideoRecord /\ w.state = "cancelled" /\ w.op = u.op
      /\ (w.staged <=> u.staged) /\ (w.artifact <=> u.artifact) /\ (w.cancel <=> u.cancel)
  <2> s + 1 \in Nat /\ s + 2 \in Nat /\ s + 3 \in Nat
    OBVIOUS
  <2>1. Applied(u, f, w)
    BY <1>2, <1>4, <1>6, <1>7, ApplyFields, Zenon
  <2> QED
    BY <2>1, <1>2, <1>4, <1>6, <1>7 DEF Applied, Asks
<1> QED
  BY <1>5, <1>6, <1>8 DEF Sound, Whole, Later, IncompleteAtomicTail, AfterPublication, Begun,
                    Lifecycle, BeforePublication, VideoTerminal

(* The start of a run. *)
LEMMA BeginBatch ==
  ASSUME NEW v \in VideoRecord, Whole(v), NEW s \in Nat, NEW t \in Nat, NEW q,
         q.op \in Operations, AcceptsAll(v, Requested(q), s, t),
         NEW w, w = ApplyAll(v, Requested(q), s, t), NoOperation \notin Operations
  PROVE  Sound(v, w) /\ w.op = q.op /\ v.op = NoOperation /\ ~w.artifact
<1> DEFINE y == IF q.kind = "generation" THEN "VideoGenerationRequested"
                ELSE "VideoTranscriptionRequested"
           e == Plain("RunStarted")
           f == Event(y, q.op, 0, "none")
           u == Apply(v, e, s + 1, t)
<1>1. e \in EventRecord /\ e.type = "RunStarted"
  BY PlainFields DEF Types
<1>2. f \in EventRecord /\ f.type \in Asks /\ f.op = q.op
  <2>1. y \in Types /\ y \in Asks
    BY DEF Types, Asks
  <2> HIDE DEF y
  <2> QED
    BY <2>1, EventFields
<1>3. Len(Requested(q)) = 2 /\ Requested(q)[1] = e /\ Requested(q)[2] = f
  BY DEF Requested
<1> HIDE DEF e, f, u
<1>4. w = Apply(u, f, s + 2, t) /\ Accepts(v, e) /\ Accepts(u, f)
  BY <1>3, ApplyTwo DEF u
<1>5. v.state = "not_started" /\ To(v, e) = v.state /\ ~v.cancel
  BY <1>1, <1>4, EventRules DEF Goes
<1>6. /\ u \in VideoRecord /\ u.state = v.state /\ u.op = v.op
      /\ (u.staged <=> v.staged) /\ (u.artifact <=> v.artifact) /\ (u.cancel <=> v.cancel)
  <2> s + 1 \in Nat /\ s + 2 \in Nat /\ s + 3 \in Nat
    OBVIOUS
  <2>1. Applied(v, e, u)
    BY <1>1, <1>4, <1>5, ApplyFields, Zenon DEF u
  <2> QED
    BY <2>1, <1>1, <1>4, <1>5 DEF Applied, Asks
<1>7. To(u, f) = "requested"
  BY <1>2, <1>4, EventRules DEF Goes, Asks
<1>8. /\ w \in VideoRecord /\ w.state = "requested" /\ w.op = q.op
      /\ (w.staged <=> u.staged) /\ (w.artifact <=> u.artifact) /\ (w.cancel <=> u.cancel)
  <2> s + 1 \in Nat /\ s + 2 \in Nat /\ s + 3 \in Nat
    OBVIOUS
  <2>1. Applied(u, f, w)
    BY <1>2, <1>4, <1>6, <1>7, ApplyFields, Zenon
  <2> QED
    BY <2>1, <1>2, <1>4, <1>6, <1>7 DEF Applied, Asks
<1> QED
  BY <1>5, <1>6, <1>8 DEF Sound, Whole, Later, IncompleteAtomicTail, AfterPublication, Begun,
                    Lifecycle, BeforePublication, VideoTerminal

(* One observation: a quote, a job, a status, or the next clean-up. *)
ObservationTypes ==
  {"VideoQuoteObserved", "VideoJobQueued", "VideoJobStatusObserved", "VideoCleanupPending"}
(* An observation keeps the operation and the artifact of the run. *)
LEMMA ObserveBatch ==
  ASSUME NEW v \in VideoRecord, Whole(v), NEW s \in Nat, NEW t \in Nat,
         NEW e \in EventRecord, e.type \in ObservationTypes,
         e.status # "failed", NEW q, Len(q) = 1, q[1] = e,
         AcceptsAll(v, q, s, t), NEW w, w = ApplyAll(v, q, s, t)
  PROVE  Sound(v, w) /\ w.op = v.op /\ (w.artifact <=> v.artifact)
<1>1. w = Apply(v, e, s + 1, t) /\ Accepts(v, e)
  BY ApplyOne
<1>2. /\ w \in VideoRecord /\ w.state = To(v, e) /\ w.op = v.op
      /\ (w.staged <=> v.staged) /\ (w.artifact <=> v.artifact) /\ (w.cancel <=> v.cancel)
  <2> s + 1 \in Nat /\ s + 2 \in Nat /\ s + 3 \in Nat
    OBVIOUS
  <2>1. Applied(v, e, w)
    BY <1>1, ApplyFields, Zenon
  <2> QED
    BY <2>1, <1>1 DEF Applied, Asks, ObservationTypes
<1>3. /\ ~v.cancel
      /\ \/ v.state = "requested" /\ To(v, e) = "quoted"
         \/ v.state = "quoted" /\ To(v, e) = "queued"
         \/ /\ v.state \in {"queued", "processing"}
            /\ To(v, e) \in {"queued", "processing", "media_ready"}
         \/ v.state \in {"published", "cleanup_failed"} /\ To(v, e) = "cleanup_pending"
  BY <1>1, EventRules DEF Goes, ObservationTypes
<1> QED
  BY <1>2, <1>3 DEF Sound, Whole, Later, IncompleteAtomicTail, AfterPublication, Begun,
                    Lifecycle, BeforePublication, VideoTerminal

(* A clean-up that failed. *)
LEMMA PendingBatch ==
  ASSUME NEW v \in VideoRecord, Whole(v), NEW s \in Nat, NEW t \in Nat,
         NEW e \in EventRecord, e.type = "VideoCleanupFailed", NEW q, Len(q) = 1, q[1] = e,
         AcceptsAll(v, q, s, t), NEW w, w = ApplyAll(v, q, s, t)
  PROVE  Sound(v, w) /\ w.op = v.op /\ w.artifact /\ v.artifact
<1>1. w = Apply(v, e, s + 1, t) /\ Accepts(v, e)
  BY ApplyOne
<1>2. /\ w \in VideoRecord /\ w.state = To(v, e) /\ w.op = v.op
      /\ (w.staged <=> v.staged) /\ (w.artifact <=> v.artifact) /\ (w.cancel <=> v.cancel)
  <2> s + 1 \in Nat /\ s + 2 \in Nat /\ s + 3 \in Nat
    OBVIOUS
  <2>1. Applied(v, e, w)
    BY <1>1, ApplyFields, Zenon
  <2> QED
    BY <2>1, <1>1 DEF Applied, Asks
<1>3. ~v.cancel /\ v.state = "cleanup_pending" /\ To(v, e) = "cleanup_failed"
  BY <1>1, EventRules DEF Goes
<1> QED
  BY <1>2, <1>3 DEF Sound, Whole, Later, IncompleteAtomicTail, AfterPublication, Begun,
                    Lifecycle, BeforePublication, VideoTerminal

(* A job that failed at the provider. *)
LEMMA JobFailedBatch ==
  ASSUME NEW v \in VideoRecord, Whole(v), NEW s \in Nat, NEW t \in Nat,
         NEW e \in EventRecord, e.type = "VideoJobStatusObserved", e.status = "failed",
         NEW f \in EventRecord, f.type = "RunFailed", NEW q, Len(q) = 2, q[1] = e, q[2] = f,
         AcceptsAll(v, q, s, t), NEW w, w = ApplyAll(v, q, s, t)
  PROVE  Sound(v, w) /\ w.op = v.op /\ w.state = "failed" /\ ~w.artifact
<1> DEFINE u == Apply(v, e, s + 1, t)
<1> HIDE DEF u
<1>1. w = Apply(u, f, s + 2, t) /\ Accepts(v, e) /\ Accepts(u, f)
  BY ApplyTwo DEF u
<1>2. v.state \in {"queued", "processing"} /\ ~v.cancel /\ To(v, e) = "job_failed"
  BY <1>1, EventRules
<1>3. /\ u \in VideoRecord /\ u.state = "job_failed" /\ u.op = v.op
      /\ (u.staged <=> v.staged) /\ (u.artifact <=> v.artifact) /\ (u.cancel <=> v.cancel)
  <2> s + 1 \in Nat /\ s + 2 \in Nat /\ s + 3 \in Nat
    OBVIOUS
  <2>1. Applied(v, e, u)
    BY <1>1, <1>2, ApplyFields, Zenon DEF u
  <2> QED
    BY <2>1, <1>1, <1>2 DEF Applied, Asks
<1>4. To(u, f) = "failed"
  BY <1>1, EventRules DEF Goes
<1>5. /\ w \in VideoRecord /\ w.state = "failed" /\ w.op = u.op
      /\ (w.staged <=> u.staged) /\ (w.artifact <=> u.artifact) /\ (w.cancel <=> u.cancel)
  <2> s + 1 \in Nat /\ s + 2 \in Nat /\ s + 3 \in Nat
    OBVIOUS
  <2>1. Applied(u, f, w)
    BY <1>1, <1>3, <1>4, ApplyFields, Zenon
  <2> QED
    BY <2>1, <1>1, <1>3, <1>4 DEF Applied, Asks
<1> QED
  BY <1>2, <1>3, <1>5 DEF Sound, Whole, Later, IncompleteAtomicTail, AfterPublication, Begun,
                    Lifecycle, BeforePublication, VideoTerminal

(* A clean-up or a transcription, with the end of the run. *)
LEMMA CompleteBatch ==
  ASSUME NEW v \in VideoRecord, Whole(v), NEW s \in Nat, NEW t \in Nat,
         NEW e \in EventRecord, e.type \in {"VideoCleanupCompleted", "VideoTranscriptionObserved"},
         NEW f \in EventRecord, f.type = "RunCompleted", NEW q, Len(q) = 2, q[1] = e, q[2] = f,
         AcceptsAll(v, q, s, t), NEW w, w = ApplyAll(v, q, s, t)
  PROVE  Sound(v, w) /\ w.op = v.op /\ w.state = "completed" /\ (w.artifact <=> v.artifact)
<1> DEFINE u == Apply(v, e, s + 1, t)
<1> HIDE DEF u
<1>1. w = Apply(u, f, s + 2, t) /\ Accepts(v, e) /\ Accepts(u, f)
  BY ApplyTwo DEF u
<1>2. /\ v.state \in {"cleanup_pending", "requested"} /\ ~v.cancel
      /\ To(v, e) \in {"cleanup_completed", "transcription_observed"}
  BY <1>1, EventRules DEF Goes
<1>3. /\ u \in VideoRecord /\ u.op = v.op
      /\ (u.staged <=> v.staged) /\ (u.artifact <=> v.artifact) /\ (u.cancel <=> v.cancel)
  <2> s + 1 \in Nat /\ s + 2 \in Nat /\ s + 3 \in Nat
    OBVIOUS
  <2>1. Applied(v, e, u)
    BY <1>1, <1>2, ApplyFields, Zenon DEF u
  <2> QED
    BY <2>1, <1>1, <1>2 DEF Applied, Asks
<1>4. To(u, f) = "completed"
  BY <1>1, EventRules DEF Goes
<1>5. /\ w \in VideoRecord /\ w.state = "completed" /\ w.op = u.op
      /\ (w.staged <=> u.staged) /\ (w.artifact <=> u.artifact) /\ (w.cancel <=> u.cancel)
  <2> s + 1 \in Nat /\ s + 2 \in Nat /\ s + 3 \in Nat
    OBVIOUS
  <2>1. Applied(u, f, w)
    BY <1>1, <1>3, <1>4, ApplyFields, Zenon
  <2> QED
    BY <2>1, <1>1, <1>3, <1>4 DEF Applied, Asks
<1> QED
  BY <1>2, <1>3, <1>5 DEF Sound, Whole, Later, IncompleteAtomicTail, AfterPublication, Begun,
                    Lifecycle, BeforePublication, VideoTerminal

(* A publication. *)
LEMMA PublishBatch ==
  ASSUME NEW v \in VideoRecord, Whole(v), NEW s \in Nat, NEW t \in Nat, NEW o \in Operations,
         AcceptsAll(v, Published(o), s, t), NEW w, w = ApplyAll(v, Published(o), s, t)
  PROVE  Sound(v, w) /\ w.op = v.op /\ w.artifact /\ v.op = o
<1> DEFINE a == Event("ArtifactCreated", o, 0, "none")
           b == Event("VideoArtifactPublished", o, 0, "none")
           c == Event("VideoCleanupPending", o, 1, "none")
           x == Apply(v, a, s + 1, t)
           y == Apply(x, b, s + 2, t)
<1>1. /\ a \in EventRecord /\ a.type = "ArtifactCreated"
      /\ b \in EventRecord /\ b.type = "VideoArtifactPublished" /\ b.op = o
      /\ c \in EventRecord /\ c.type = "VideoCleanupPending"
  BY EventFields DEF Types
<1>2. Len(Published(o)) = 3 /\ Published(o)[1] = a /\ Published(o)[2] = b /\ Published(o)[3] = c
  BY DEF Published
<1> HIDE DEF a, b, c, x, y
<1>3. w = Apply(y, c, s + 3, t) /\ Accepts(v, a) /\ Accepts(x, b) /\ Accepts(y, c)
  BY <1>2, ApplyThree DEF x, y
<1>4. v.state = "media_ready" /\ ~v.cancel /\ To(v, a) = v.state
  BY <1>1, <1>3, EventRules DEF Goes
<1>5. x \in VideoRecord /\ x.op = v.op /\ (x.cancel <=> v.cancel)
  <2> s + 1 \in Nat /\ s + 2 \in Nat /\ s + 3 \in Nat
    OBVIOUS
  <2>1. Applied(v, a, x)
    BY <1>1, <1>3, ApplyFields, Zenon DEF x
  <2> QED
    BY <2>1, <1>1, <1>3 DEF Applied, Asks
<1>6. b.op = x.op
  BY <1>1, <1>3, EventRules DEF OfGeneration
<1>7. y \in VideoRecord /\ y.op = x.op /\ (y.cancel <=> x.cancel) /\ ~y.staged /\ y.artifact
  <2> s + 1 \in Nat /\ s + 2 \in Nat /\ s + 3 \in Nat
    OBVIOUS
  <2>1. Applied(x, b, y)
    BY <1>1, <1>3, <1>5, ApplyFields, Zenon DEF y
  <2> QED
    BY <2>1, <1>1, <1>3, <1>5 DEF Applied, Asks
<1>8. To(y, c) = "cleanup_pending"
  BY <1>1, <1>3, EventRules DEF Goes
<1>9. /\ w \in VideoRecord /\ w.state = "cleanup_pending" /\ w.op = y.op
      /\ (w.staged <=> y.staged) /\ (w.artifact <=> y.artifact) /\ (w.cancel <=> y.cancel)
  <2> s + 1 \in Nat /\ s + 2 \in Nat /\ s + 3 \in Nat
    OBVIOUS
  <2>1. Applied(y, c, w)
    BY <1>1, <1>3, <1>7, <1>8, ApplyFields, Zenon
  <2> QED
    BY <2>1, <1>1, <1>3, <1>7, <1>8 DEF Applied, Asks
<1> QED
  BY <1>1, <1>4, <1>5, <1>6, <1>7, <1>9
     DEF Sound, Whole, Later, IncompleteAtomicTail, AfterPublication, Begun,
         Lifecycle, BeforePublication, VideoTerminal
(* What an invocation makes of its copy, and what it may then answer. *)
Recorded(i, w, arts) ==
  /\ Sound(i.video, w)
  /\ w.op = i.req.op
  /\ i.video.op \in {NoOperation, i.req.op}
  /\ w.artifact => i.video.artifact \/ i.req.op \in arts
  /\ i.next \in Nexts \ {"none"}
  /\ i.next = "completed" => w.state = "completed"
  /\ i.next = "pending" => w.artifact
  /\ i.next = "failed" => w.state = "failed"
  /\ i.next = "cancelled" => w.state = "cancelled"
  /\ i.next = "halted" => w.state = "failed" \/ (w.state = "cancelled" /\ i.stop)

(* Every batch an invocation offers keeps its copy whole and later. *)
LEMMA OfferRecords ==
  ASSUME NEW i \in Invocation, NEW arts, Whole(i.video), Offers(i, arts), NEW t \in Nat,
         AcceptsAll(i.video, i.batch, i.seq, t), NEW w,
         w = ApplyAll(i.video, i.batch, i.seq, t)
  PROVE  Recorded(i, w, arts)
<1> DEFINE v == i.video
           q == i.batch
           s == i.seq
           o == i.req.op
<1>1. /\ v \in VideoRecord /\ s \in Nat /\ o \in Operations /\ NoOperation \notin Operations
      /\ o \in Operations \cup {NoOperation}
  BY VideoAssumption DEF Invocation
<1>2. AcceptsAll(v, q, s, t) /\ w = ApplyAll(v, q, s, t) /\ Whole(v)
  OBVIOUS
<1> HIDE DEF v, q, s, o
<1>3. CASE Begins(i)
  <2>1. q = Requested(i.req) /\ i.next = "loop" /\ i.req.op \in Operations
    BY <1>1, <1>3 DEF Begins, q, o
  <2>2. Sound(v, w) /\ w.op = i.req.op /\ v.op = NoOperation /\ ~w.artifact
    BY <1>1, <1>2, <2>1, BeginBatch
  <2> QED
    BY <2>1, <2>2 DEF Recorded, Nexts, v
<1>4. CASE v.op = o /\ Fails(i)
  <2>1. q = FailEvents /\ i.next \in {"failed", "halted"}
    BY <1>4 DEF Fails, q
  <2>2. Sound(v, w) /\ w.op = v.op /\ w.state = "failed" /\ ~w.artifact
    BY <1>1, <1>2, <2>1, FailBatch
  <2> QED
    BY <1>4, <2>1, <2>2 DEF Recorded, Nexts, v, o
<1>5. CASE v.op = o /\ Cancels(i)
  <2>1. q = CancelEvents /\ (i.next = "cancelled" \/ (i.next = "halted" /\ i.stop))
    BY <1>5 DEF Cancels, q
  <2>2. Sound(v, w) /\ w.op = v.op /\ w.state = "cancelled" /\ ~w.artifact
    BY <1>1, <1>2, <2>1, CancelBatch
  <2> QED
    BY <1>5, <2>1, <2>2 DEF Recorded, Nexts, v, o
<1>6. CASE v.op = o /\ Observes(i)
  <2>1. PICK n \in Nat, u \in JobStates \ {"failed"} :
          q \in {<<Event("VideoQuoteObserved", o, 0, "none")>>,
                 <<Event("VideoJobQueued", o, 0, "none")>>,
                 <<Event("VideoJobStatusObserved", o, n, u)>>,
                 <<Event("VideoCleanupPending", o, n, "none")>>}
    BY <1>6 DEF Observes, q, o
  <2>2. /\ u \in JobStates \cup {"invalid", "none"} /\ u # "failed"
        /\ ObservationTypes \subseteq Types
    BY DEF ObservationTypes, Types
  <2>3. PICK y \in ObservationTypes, m \in Nat, x \in (JobStates \cup {"invalid", "none"}) \ {"failed"} :
          q = <<Event(y, o, m, x)>>
    <3>1. CASE q = <<Event("VideoQuoteObserved", o, 0, "none")>>
      BY <3>1 DEF ObservationTypes, JobStates
    <3>2. CASE q = <<Event("VideoJobQueued", o, 0, "none")>>
      BY <3>2 DEF ObservationTypes, JobStates
    <3>3. CASE q = <<Event("VideoJobStatusObserved", o, n, u)>>
      BY <3>3 DEF ObservationTypes
    <3>4. CASE q = <<Event("VideoCleanupPending", o, n, "none")>>
      BY <3>4 DEF ObservationTypes, JobStates
    <3> QED
      BY <2>1, <3>1, <3>2, <3>3, <3>4
  <2> DEFINE e == Event(y, o, m, x)
  <2>4. Len(q) = 1 /\ q[1] = e
    BY <2>3
  <2>5. e \in EventRecord /\ e.type = y /\ e.status = x
    BY <1>1, <2>2, EventFields
  <2> HIDE DEF e
  <2>6. Sound(v, w) /\ w.op = v.op /\ (w.artifact <=> v.artifact)
    BY <1>1, <1>2, <2>4, <2>5, ObserveBatch
  <2>7. i.next = "loop"
    BY <1>6 DEF Observes
  <2> QED
    BY <1>6, <2>6, <2>7 DEF Recorded, Nexts, v, o
<1>7. CASE v.op = o /\ JobFails(i)
  <2>1. PICK n \in Nat : q = <<Event("VideoJobStatusObserved", o, n, "failed"), Plain("RunFailed")>>
    BY <1>7 DEF JobFails, q, o
  <2> DEFINE e == Event("VideoJobStatusObserved", o, n, "failed")
             f == Plain("RunFailed")
  <2>2. Len(q) = 2 /\ q[1] = e /\ q[2] = f
    BY <2>1
  <2>3. e \in EventRecord /\ e.type = "VideoJobStatusObserved" /\ e.status = "failed"
    BY <1>1, EventFields DEF Types, JobStates
  <2>4. f \in EventRecord /\ f.type = "RunFailed"
    BY PlainFields DEF Types
  <2> HIDE DEF e, f
  <2>5. Sound(v, w) /\ w.op = v.op /\ w.state = "failed" /\ ~w.artifact
    BY <1>1, <1>2, <2>2, <2>3, <2>4, JobFailedBatch
  <2>6. i.next = "failed"
    BY <1>7 DEF JobFails
  <2> QED
    BY <1>7, <2>5, <2>6 DEF Recorded, Nexts, v, o
<1>8. CASE v.op = o /\ Publishes(i, arts)
  <2>1. q = Published(o) /\ i.next = "loop" /\ o \in arts
    BY <1>8 DEF Publishes, q, o
  <2>2. Sound(v, w) /\ w.op = v.op
    BY <1>1, <1>2, <2>1, PublishBatch
  <2> QED
    BY <1>8, <2>1, <2>2 DEF Recorded, Nexts, v, o
<1>9. CASE v.op = o /\ Completes(i)
  <2>1. PICK n \in Nat, y \in {"VideoCleanupCompleted", "VideoTranscriptionObserved"} :
          q = <<Event(y, o, n, "none"), Plain("RunCompleted")>>
    BY <1>9 DEF Completes, q, o
  <2> DEFINE e == Event(y, o, n, "none")
             f == Plain("RunCompleted")
  <2>2. Len(q) = 2 /\ q[1] = e /\ q[2] = f
    BY <2>1
  <2>3. e \in EventRecord /\ e.type \in {"VideoCleanupCompleted", "VideoTranscriptionObserved"}
    <3>1. y \in Types
      BY DEF Types
    <3> QED
      BY <1>1, <3>1, EventFields
  <2>4. f \in EventRecord /\ f.type = "RunCompleted"
    BY PlainFields DEF Types
  <2> HIDE DEF e, f
  <2>5. Sound(v, w) /\ w.op = v.op /\ w.state = "completed" /\ (w.artifact <=> v.artifact)
    BY <1>1, <1>2, <2>2, <2>3, <2>4, CompleteBatch
  <2>6. i.next = "completed"
    BY <1>9 DEF Completes
  <2> QED
    BY <1>9, <2>5, <2>6 DEF Recorded, Nexts, v, o
<1>10. CASE v.op = o /\ LeavesPending(i)
  <2>1. PICK n \in Nat : q = <<Event("VideoCleanupFailed", o, n, "none")>>
    BY <1>10 DEF LeavesPending, q, o
  <2> DEFINE e == Event("VideoCleanupFailed", o, n, "none")
  <2>2. Len(q) = 1 /\ q[1] = e
    BY <2>1
  <2>3. e \in EventRecord /\ e.type = "VideoCleanupFailed"
    BY <1>1, EventFields DEF Types
  <2> HIDE DEF e
  <2>4. Sound(v, w) /\ w.op = v.op /\ w.artifact /\ v.artifact
    BY <1>1, <1>2, <2>2, <2>3, PendingBatch
  <2>5. i.next = "pending"
    BY <1>10 DEF LeavesPending
  <2> QED
    BY <1>10, <2>4, <2>5 DEF Recorded, Nexts, v, o
<1> QED
  BY <1>3, <1>4, <1>5, <1>6, <1>7, <1>8, <1>9, <1>10 DEF Offers, v, o
(***************************************************************************)
(* Facts about one state.                                                  *)
(***************************************************************************)
(* What is known of an invocation. *)
LEMMA CallFacts ==
  ASSUME VideoInv, NEW c \in Coordinators
  PROVE  /\ inv[c] \in Invocation /\ inv[c].req \in Requests
         /\ inv[c].req.run \in Runs /\ inv[c].req.op \in Operations
         /\ durable[inv[c].req.run] \in VideoRecord /\ inv[c].video \in VideoRecord
         /\ NoOperation \notin Operations /\ CallOK(inv[c], artifacts)
         /\ inv[c].at # "idle" =>
              /\ Whole(inv[c].video) /\ Later(inv[c].video, durable[inv[c].req.run])
              /\ inv[c].seq \in Nat /\ inv[c].seq <= seq
         /\ inv[c].at \in {"loop", "media", "heard"} => inv[c].video.op = inv[c].req.op
         /\ inv[c].at \in {"append", "create"} => Offers(inv[c], artifacts)
<1>1. inv[c] \in Invocation /\ durable \in [Runs -> VideoRecord] /\ CallOK(inv[c], artifacts)
  BY DEF VideoInv, TypesInv, CallsInv
<1>2. /\ inv[c].req \in Requests /\ inv[c].video \in VideoRecord /\ inv[c].seq \in Nat
  BY <1>1 DEF Invocation
<1>3. inv[c].req.run \in Runs /\ inv[c].req.op \in Operations /\ NoOperation \notin Operations
  BY <1>2, VideoAssumption
<1>4. durable[inv[c].req.run] \in VideoRecord
  BY <1>1, <1>3
<1>5. inv[c].at # "idle" =>
        /\ Whole(inv[c].video) /\ Later(inv[c].video, durable[inv[c].req.run])
        /\ inv[c].seq <= seq
        /\ WorkOK(inv[c], artifacts)
  BY <1>1 DEF CallOK, CopyOK
<1> QED
  BY <1>1, <1>2, <1>3, <1>4, <1>5 DEF WorkOK

(* Later is an order. *)
LEMMA LaterTrans ==
  ASSUME NEW u, NEW v, NEW w, Later(u, v), Later(v, w)
  PROVE  Later(u, w)
BY DEF Later

(* A projection is no earlier than itself. *)
LEMMA LaterSelf ==
  ASSUME NEW u
  PROVE  Later(u, u)
BY DEF Later

(* What was true when it was told stays true. *)
LEMMA ToldLater ==
  ASSUME NEW i, NEW v, NEW w, Told(i, v), Later(v, w)
  PROVE  Told(i, w)
BY DEF Told, Later, VideoTerminal

(* A batch that is offered has an event. *)
LEMMA OfferLength ==
  ASSUME NEW i, NEW arts, Offers(i, arts)
  PROVE  Len(i.batch) \in Nat \ {0}
<1>1. Begins(i) => Len(i.batch) = 2
  BY DEF Begins, Requested
<1>2. (Fails(i) => Len(i.batch) = 1) /\ (Cancels(i) => Len(i.batch) = 2)
  BY DEF Fails, FailEvents, Cancels, CancelEvents
<1>3. Observes(i) => Len(i.batch) = 1
  BY DEF Observes
<1>4. JobFails(i) => Len(i.batch) = 2
  BY DEF JobFails
<1>5. Publishes(i, arts) => Len(i.batch) = 3
  BY DEF Publishes, Published
<1>6. (Completes(i) => Len(i.batch) = 2) /\ (LeavesPending(i) => Len(i.batch) = 1)
  BY DEF Completes, LeavesPending
<1>7. Len(i.batch) \in {1, 2, 3}
  BY <1>1, <1>2, <1>3, <1>4, <1>5, <1>6, Zenon DEF Offers
<1> QED
  BY <1>7

(* More artifacts change nothing for an invocation. *)
LEMMA MoreArtifacts ==
  ASSUME NEW i, NEW arts, NEW more, arts \subseteq more, CallOK(i, arts)
  PROVE  CallOK(i, more)
BY DEF CallOK, WorkOK, Offers, Publishes

(* An invocation that is over. *)
LEMMA IdleType ==
  ASSUME NEW q \in Requests, NEW a \in Answers, NEW x, x = Idle(q, a)
  PROVE  x \in Invocation /\ x.at = "idle" /\ x.req = q /\ x.answer = a
<1> DEFINE none == <<>>
<1>1. Base!NotStarted \in Base!Projections({})
  BY DEF Base!NotStarted, Base!Projections, Base!Statuses
<1>2. Blank \in VideoRecord
  BY <1>1 DEF Blank, VideoRecord, Lifecycle
<1>3. none \in Seq(EventRecord)
  OBVIOUS
<1>4. x = [at |-> "idle", req |-> q, url |-> FALSE, stop |-> FALSE, video |-> Blank,
           seq |-> 0, batch |-> none, next |-> "none", reloads |-> 0, cleanups |-> 0,
           answer |-> a]
  BY DEF Idle
<1> HIDE DEF none
<1> QED
  BY <1>2, <1>3, <1>4 DEF Invocation, Places, Nexts
(***************************************************************************)
(* Steps of one invocation that leave the log alone.                       *)
(***************************************************************************)
(* A step of one invocation that leaves it in order keeps the invariant. *)
LEMMA LocalStep ==
  ASSUME VideoInv, NEW c \in Coordinators, NEW x \in Invocation,
         inv' = [inv EXCEPT ![c] = x], UNCHANGED <<durable, seq, others, clock>>,
         artifacts \subseteq artifacts', artifacts' \subseteq Operations,
         job' \in [Operations -> {"none", "live", "cleaned"}], JobsMatchRuns',
         CallOK(x, artifacts')
  PROVE  VideoInv'
<1>1. TypesInv'
  BY DEF VideoInv, TypesInv
<1>2. RunsInv' /\ OneRunPerOperation'
  BY DEF VideoInv, RunsInv, OneRunPerOperation
<1>3. ASSUME NEW d \in Coordinators
      PROVE  CallOK(inv[d], artifacts)'
  <2>1. inv'[d] = IF d = c THEN x ELSE inv[d]
    BY DEF VideoInv, TypesInv
  <2>2. CallOK(inv[d], artifacts')
    BY MoreArtifacts DEF VideoInv, CallsInv
  <2>3. CallOK(inv'[d], artifacts')
    BY <2>1, <2>2
  <2> DEFINE y == inv'[d]
  <2> QED
    BY <2>3 DEF CallOK, CopyOK
<1> QED
  BY <1>1, <1>2, <1>3 DEF VideoInv, CallsInv

(* JobsMatchRuns, where neither the provider nor the runs change. *)
LEMMA SameJobs ==
  ASSUME VideoInv, UNCHANGED <<durable, job>>, artifacts \subseteq artifacts'
  PROVE  JobsMatchRuns'
BY DEF VideoInv, JobsMatchRuns

(* An invocation returns. *)
LEMMA ReturnStep ==
  ASSUME VideoInv, NEW c \in Coordinators, NEW q \in Requests, NEW a \in Answers,
         inv' = [inv EXCEPT ![c] = Idle(q, a)], UNCHANGED <<Log, Provider, clock>>,
         a = "completed" => durable[q.run].state = "completed",
         a = "pending" => durable[q.run].artifact,
         a \notin {"failed", "cancelled"}
  PROVE  VideoInv'
<1> DEFINE x == Idle(q, a)
<1>1. x \in Invocation /\ x.at = "idle" /\ x.req = q /\ x.answer = a
  BY IdleType
<1> HIDE DEF x
<1>2. CallOK(x, artifacts')
  BY <1>1 DEF CallOK, Told
<1>3. inv' = [inv EXCEPT ![c] = x]
  BY DEF x
<1>4. JobsMatchRuns'
  BY SameJobs DEF Log, Provider
<1>5. /\ UNCHANGED <<durable, seq, others, clock, job, artifacts>>
      /\ job \in [Operations -> {"none", "live", "cleaned"}] /\ artifacts \subseteq Operations
  BY DEF Log, Provider, VideoInv, TypesInv
<1> QED
  BY <1>1, <1>2, <1>3, <1>4, <1>5, LocalStep

(* An invocation goes on to append a batch. *)
LEMMA PersistFields ==
  ASSUME VideoInv, NEW c \in Coordinators, NEW q \in Seq(EventRecord), NEW nx \in Nexts,
         Persist(c, q, nx)
  PROVE  \E x \in Invocation :
           /\ inv' = [inv EXCEPT ![c] = x]
           /\ x.at = "append" /\ x.batch = q /\ x.next = nx /\ x.req = inv[c].req
           /\ x.stop = inv[c].stop /\ x.video = inv[c].video /\ x.seq = inv[c].seq
<1> DEFINE x == [inv[c] EXCEPT !.at = "append", !.batch = q, !.next = nx, !.reloads = 0]
<1>1. inv[c] \in Invocation
  BY CallFacts
<1>2. x \in Invocation
  BY <1>1 DEF Invocation, Places
<1>3. /\ x.at = "append" /\ x.batch = q /\ x.next = nx /\ x.req = inv[c].req
      /\ x.stop = inv[c].stop /\ x.video = inv[c].video /\ x.seq = inv[c].seq
  BY <1>1 DEF Invocation
<1>4. inv' = [inv EXCEPT ![c] = x]
  BY DEF Persist
<1> HIDE DEF x
<1> QED
  BY <1>2, <1>3, <1>4

(* What an invocation may append from its loop. *)
Works(x, arts) ==
  \/ Fails(x) \/ Cancels(x) \/ Observes(x) \/ JobFails(x)
  \/ Publishes(x, arts) \/ Completes(x) \/ LeavesPending(x)

(* Going on to append such a batch keeps the invariant. *)
LEMMA AppendReady ==
  ASSUME VideoInv, NEW c \in Coordinators, inv[c].at \in {"loop", "media", "heard"},
         NEW x \in Invocation, inv' = [inv EXCEPT ![c] = x],
         x.at = "append", x.req = inv[c].req, x.video = inv[c].video, x.seq = inv[c].seq,
         Works(x, artifacts'), UNCHANGED <<durable, seq, others, clock>>,
         artifacts \subseteq artifacts', artifacts' \subseteq Operations,
         job' \in [Operations -> {"none", "live", "cleaned"}], JobsMatchRuns'
  PROVE  VideoInv'
<1>1. CopyOK(inv[c]) /\ inv[c].video.op = inv[c].req.op
  BY DEF VideoInv, CallsInv, CallOK, WorkOK
<1>2. Offers(x, artifacts')
  BY <1>1 DEF Offers, Works
<1>3. CopyOK(x)
  BY <1>1 DEF CopyOK
<1>4. CallOK(x, artifacts')
  BY <1>2, <1>3 DEF CallOK, WorkOK
<1> QED
  BY <1>4, LocalStep

(* The same, where nothing but the invocation changes. *)
LEMMA QuietAppend ==
  ASSUME VideoInv, NEW c \in Coordinators, inv[c].at \in {"loop", "media", "heard"},
         NEW x \in Invocation, inv' = [inv EXCEPT ![c] = x],
         x.at = "append", x.req = inv[c].req, x.video = inv[c].video, x.seq = inv[c].seq,
         Works(x, artifacts), UNCHANGED <<Log, Provider, clock>>
  PROVE  VideoInv'
<1>1. JobsMatchRuns'
  BY SameJobs DEF Log, Provider
<1>2. /\ UNCHANGED <<durable, seq, others, clock, job, artifacts>>
      /\ job \in [Operations -> {"none", "live", "cleaned"}] /\ artifacts \subseteq Operations
  BY DEF Log, Provider, VideoInv, TypesInv
<1>3. Works(x, artifacts')
  BY <1>2
<1> QED
  BY <1>1, <1>2, <1>3, AppendReady
(***************************************************************************)
(* The loop.                                                               *)
(***************************************************************************)
(* The batches are sequences of events. *)
LEMMA BatchTypes ==
  /\ FailEvents \in Seq(EventRecord) /\ CancelEvents \in Seq(EventRecord)
  /\ \A e \in EventRecord : <<e>> \in Seq(EventRecord)
  /\ \A e, f \in EventRecord : <<e, f>> \in Seq(EventRecord)
  /\ \A e, f, g \in EventRecord : <<e, f, g>> \in Seq(EventRecord)
<1>1. /\ \A e \in EventRecord : <<e>> \in Seq(EventRecord)
      /\ \A e, f \in EventRecord : <<e, f>> \in Seq(EventRecord)
      /\ \A e, f, g \in EventRecord : <<e, f, g>> \in Seq(EventRecord)
  OBVIOUS
<1>2. /\ Plain("RunFailed") \in EventRecord /\ Plain("RunCancelRequested") \in EventRecord
      /\ Plain("RunCancelled") \in EventRecord
  BY PlainFields DEF Types
<1>3. FailEvents \in Seq(EventRecord) /\ CancelEvents \in Seq(EventRecord)
  BY <1>1, <1>2 DEF FailEvents, CancelEvents
<1> QED
  BY <1>1, <1>3

(* The run is ended: the provider failed, or the call was stopped or is late. *)
GivesUp(c) == ProviderError(c) \/ HaltEvents(c) \/ Persist(c, FailEvents, "failed")

(* Ending the run keeps the invariant. *)
LEMMA GiveUpStep ==
  ASSUME VideoInv, NEW c \in Coordinators, inv[c].at \in {"loop", "media", "heard"},
         GivesUp(c), UNCHANGED <<durable, seq, others, clock, artifacts>>,
         job' \in [Operations -> {"none", "live", "cleaned"}], JobsMatchRuns'
  PROVE  VideoInv'
<1>1. artifacts \subseteq artifacts' /\ artifacts' \subseteq Operations
  BY DEF VideoInv, TypesInv
<1>2. ASSUME NEW nx \in {"failed", "halted"}, Persist(c, FailEvents, nx)
      PROVE  VideoInv'
  <2>1. nx \in Nexts
    BY DEF Nexts
  <2>2. PICK x \in Invocation :
           /\ inv' = [inv EXCEPT ![c] = x]
           /\ x.at = "append" /\ x.batch = FailEvents /\ x.next = nx /\ x.req = inv[c].req
           /\ x.stop = inv[c].stop /\ x.video = inv[c].video /\ x.seq = inv[c].seq
    BY <1>2, <2>1, BatchTypes, PersistFields
  <2>3. Works(x, artifacts')
    BY <2>2 DEF Works, Fails
  <2> QED
    BY <1>1, <2>2, <2>3, AppendReady
<1>3. ASSUME NEW nx \in {"cancelled", "halted"}, nx = "halted" => inv[c].stop,
             Persist(c, CancelEvents, nx)
      PROVE  VideoInv'
  <2>1. nx \in Nexts
    BY DEF Nexts
  <2>2. PICK x \in Invocation :
           /\ inv' = [inv EXCEPT ![c] = x]
           /\ x.at = "append" /\ x.batch = CancelEvents /\ x.next = nx /\ x.req = inv[c].req
           /\ x.stop = inv[c].stop /\ x.video = inv[c].video /\ x.seq = inv[c].seq
    BY <1>3, <2>1, BatchTypes, PersistFields
  <2>3. Works(x, artifacts')
    BY <1>3, <2>2 DEF Works, Cancels
  <2> QED
    BY <1>1, <2>2, <2>3, AppendReady
<1>4. CASE ProviderError(c)
  BY <1>2, <1>3, <1>4 DEF ProviderError
<1>5. CASE HaltEvents(c)
  <2>1. CASE inv[c].stop
    BY <1>3, <1>5, <2>1 DEF HaltEvents
  <2>2. CASE ~inv[c].stop
    BY <1>2, <1>5, <2>2 DEF HaltEvents
  <2> QED
    BY <2>1, <2>2
<1>6. CASE Persist(c, FailEvents, "failed")
  BY <1>2, <1>6
<1> QED
  BY <1>4, <1>5, <1>6 DEF GivesUp

(* The same, where the provider does not change. *)
LEMMA QuietGiveUp ==
  ASSUME VideoInv, NEW c \in Coordinators, inv[c].at \in {"loop", "media", "heard"},
         GivesUp(c), UNCHANGED <<Log, Provider, clock>>
  PROVE  VideoInv'
<1>1. JobsMatchRuns'
  BY SameJobs DEF Log, Provider
<1>2. /\ UNCHANGED <<durable, seq, others, clock, job, artifacts>>
      /\ job \in [Operations -> {"none", "live", "cleaned"}]
  BY DEF Log, Provider, VideoInv, TypesInv
<1> QED
  BY <1>1, <1>2, GiveUpStep

(* One observation is appended. *)
LEMMA ObserveStep ==
  ASSUME VideoInv, NEW c \in Coordinators, inv[c].at = "loop",
         NEW y \in ObservationTypes, NEW n \in Nat, NEW u \in JobStates \cup {"none"},
         y \in {"VideoQuoteObserved", "VideoJobQueued"} => n = 0,
         y = "VideoJobStatusObserved" => u \in JobStates \ {"failed"},
         y # "VideoJobStatusObserved" => u = "none",
         Persist(c, <<Event(y, inv[c].req.op, n, u)>>, "loop"),
         UNCHANGED <<durable, seq, others, clock, artifacts>>,
         job' \in [Operations -> {"none", "live", "cleaned"}], JobsMatchRuns'
  PROVE  VideoInv'
<1> DEFINE o == inv[c].req.op
           e == Event(y, o, n, u)
           q == <<e>>
<1>1. artifacts \subseteq artifacts' /\ artifacts' \subseteq Operations /\ o \in Operations
  BY CallFacts DEF VideoInv, TypesInv
<1>2. y \in Types /\ u \in JobStates \cup {"invalid", "none"} /\ "loop" \in Nexts
  BY DEF ObservationTypes, Types, Nexts
<1>3. e \in EventRecord
  BY <1>1, <1>2, EventFields
<1>4. q \in Seq(EventRecord)
  BY <1>3, BatchTypes
<1>5. Persist(c, q, "loop")
  OBVIOUS
<1>6. y \in {"VideoQuoteObserved", "VideoJobQueued", "VideoJobStatusObserved", "VideoCleanupPending"}
  BY DEF ObservationTypes
<1>7. \E m \in Nat, s \in JobStates \ {"failed"} :
         q \in {<<Event("VideoQuoteObserved", o, 0, "none")>>,
                <<Event("VideoJobQueued", o, 0, "none")>>,
                <<Event("VideoJobStatusObserved", o, m, s)>>,
                <<Event("VideoCleanupPending", o, m, "none")>>}
  <2> "queued" \in JobStates \ {"failed"}
    BY DEF JobStates
  <2>1. CASE y = "VideoQuoteObserved"
    BY <2>1
  <2>2. CASE y = "VideoJobQueued"
    BY <2>2
  <2>3. CASE y = "VideoJobStatusObserved"
    BY <2>3
  <2>4. CASE y = "VideoCleanupPending"
    BY <2>4
  <2> QED
    BY <1>6, <2>1, <2>2, <2>3, <2>4
<1> HIDE DEF q
<1>8. PICK x \in Invocation :
         /\ inv' = [inv EXCEPT ![c] = x]
         /\ x.at = "append" /\ x.batch = q /\ x.next = "loop" /\ x.req = inv[c].req
         /\ x.stop = inv[c].stop /\ x.video = inv[c].video /\ x.seq = inv[c].seq
  BY <1>2, <1>4, <1>5, PersistFields
<1>9. Works(x, artifacts')
  BY <1>7, <1>8 DEF Works, Observes
<1> QED
  BY <1>1, <1>8, <1>9, AppendReady
(* The provider's answer arrived, and is not recorded yet. *)
LEMMA HeldStep ==
  ASSUME VideoInv, NEW c \in Coordinators, inv[c].at = "loop", NEW p \in {"media", "heard"},
         inv' = [inv EXCEPT ![c].at = p], UNCHANGED <<Log, Provider, clock>>
  PROVE  VideoInv'
<1> DEFINE x == [inv[c] EXCEPT !.at = p]
<1>1. inv[c] \in Invocation
  BY CallFacts
<1>2. x \in Invocation /\ x.at = p /\ x.req = inv[c].req /\ x.video = inv[c].video
      /\ x.seq = inv[c].seq
  BY <1>1 DEF Invocation, Places
<1>3. inv' = [inv EXCEPT ![c] = x]
  OBVIOUS
<1>4. CopyOK(inv[c]) /\ inv[c].video.op = inv[c].req.op
  BY DEF VideoInv, CallsInv, CallOK, WorkOK
<1> HIDE DEF x
<1>5. CallOK(x, artifacts')
  BY <1>2, <1>4 DEF CallOK, WorkOK, CopyOK
<1>6. JobsMatchRuns'
  BY SameJobs DEF Log, Provider
<1>7. /\ UNCHANGED <<durable, seq, others, clock, job, artifacts>>
      /\ job \in [Operations -> {"none", "live", "cleaned"}] /\ artifacts \subseteq Operations
  BY DEF Log, Provider, VideoInv, TypesInv
<1> QED
  BY <1>2, <1>3, <1>5, <1>6, <1>7, LocalStep

(* Answer keeps the invariant. *)
LEMMA AnswerStep ==
  ASSUME VideoInv, NEW c \in Coordinators, AnswerAtOnce(c) \/ LeavePending(c)
  PROVE  VideoInv'
<1> DEFINE q == inv[c].req
           v == inv[c].video
<1>1. /\ q \in Requests /\ v \in VideoRecord
      /\ inv[c].at = "loop" => Whole(v) /\ Later(v, durable[q.run])
  BY CallFacts
<1>2. /\ UNCHANGED <<Log, Provider, clock>> /\ inv[c].at = "loop"
  BY DEF AnswerAtOnce, LeavePending, LoopAt
<1>3. "refused" \in Answers /\ "completed" \in Answers /\ "pending" \in Answers
  BY DEF Answers
<1>4. CASE Return(c, "refused")
  BY <1>1, <1>2, <1>3, <1>4, ReturnStep DEF Return
<1>5. CASE v.state = "completed" /\ Return(c, "completed")
  <2>1. durable[q.run].state = "completed"
    BY <1>1, <1>2, <1>5 DEF Later, VideoTerminal
  <2> QED
    BY <1>1, <1>2, <1>3, <1>5, <2>1, ReturnStep DEF Return
<1>6. CASE v.state \in {"cleanup_pending", "published", "cleanup_failed"} /\ Return(c, "pending")
  <2>1. v.artifact
    BY <1>1, <1>2, <1>6 DEF Whole, IncompleteAtomicTail
  <2>2. durable[q.run].artifact
    BY <1>1, <1>2, <2>1 DEF Later
  <2> QED
    BY <1>1, <1>2, <1>3, <1>6, <2>2, ReturnStep DEF Return
<1>7. CASE AnswerAtOnce(c)
  BY <1>4, <1>5, <1>7 DEF AnswerAtOnce
<1>8. CASE LeavePending(c)
  BY <1>6, <1>8 DEF LeavePending, LoopAt, BetweenCleanups
<1> QED
  BY <1>7, <1>8

(* Halt keeps the invariant. *)
LEMMA HaltStep ==
  ASSUME VideoInv, NEW c \in Coordinators, Halt(c) \/ PollLimit(c)
  PROVE  VideoInv'
<1>1. UNCHANGED <<Log, Provider, clock>> /\ inv[c].at = "loop" /\ GivesUp(c)
  BY DEF Halt, PollLimit, LoopAt, Working, GivesUp
<1> QED
  BY <1>1, QuietGiveUp

(* UNCHANGED, spelled out. *)
LEMMA QuietFacts ==
  ASSUME VideoInv, UNCHANGED <<Log, Provider, clock>>
  PROVE  /\ UNCHANGED <<durable, seq, others, clock, artifacts>> /\ JobsMatchRuns'
         /\ job' \in [Operations -> {"none", "live", "cleaned"}]
<1>1. JobsMatchRuns'
  BY SameJobs DEF Log, Provider
<1> QED
  BY <1>1 DEF Log, Provider, VideoInv, TypesInv

(* Quote keeps the invariant. *)
LEMMA QuoteStep ==
  ASSUME VideoInv, NEW c \in Coordinators, Quote(c)
  PROVE  VideoInv'
<1>1. UNCHANGED <<Log, Provider, clock>> /\ inv[c].at = "loop"
  BY DEF Quote, LoopAt, Working
<1>2. CASE ProviderError(c)
  BY <1>1, <1>2, QuietGiveUp DEF GivesUp
<1>3. CASE Persist(c, <<Event("VideoQuoteObserved", inv[c].req.op, 0, "none")>>, "loop")
  <2>1. "VideoQuoteObserved" \in ObservationTypes /\ "none" \in JobStates \cup {"none"}
    BY DEF ObservationTypes
  <2> QED
    BY <1>1, <1>3, <2>1, QuietFacts, ObserveStep
<1> QED
  BY <1>2, <1>3 DEF Quote

(* NextCleanup keeps the invariant. *)
LEMMA NextCleanupStep ==
  ASSUME VideoInv, NEW c \in Coordinators, NextCleanup(c)
  PROVE  VideoInv'
<1> DEFINE n == inv[c].video.attempt + 1
<1>1. UNCHANGED <<Log, Provider, clock>> /\ inv[c].at = "loop"
  BY DEF NextCleanup, LoopAt, Working
<1>2. Persist(c, <<Event("VideoCleanupPending", inv[c].req.op, n, "none")>>, "loop")
  BY DEF NextCleanup
<1>3. n \in Nat
  BY CallFacts DEF VideoRecord
<1>4. "VideoCleanupPending" \in ObservationTypes /\ "none" \in JobStates \cup {"none"}
  BY DEF ObservationTypes
<1> HIDE DEF n
<1> QED
  BY <1>1, <1>2, <1>3, <1>4, QuietFacts, ObserveStep

(* The operation has its job from the quote on. *)
LEMMA QueueStep ==
  ASSUME VideoInv, NEW c \in Coordinators, Queue(c)
  PROVE  VideoInv'
<1> DEFINE o == inv[c].req.op
           r == inv[c].req.run
<1>1. /\ UNCHANGED <<durable, seq, others, clock, artifacts>> /\ inv[c].at = "loop"
      /\ inv[c].video.state = "quoted" /\ job' \in {job, Enqueued(o)}
  BY DEF Queue, LoopAt, Working, Log
<1>2. /\ o \in Operations /\ r \in Runs /\ durable[r] \in VideoRecord
      /\ Later(inv[c].video, durable[r]) /\ inv[c].video.op = o /\ NoOperation \notin Operations
  BY <1>1, CallFacts
<1>3. durable[r].op = o /\ durable[r].state \notin {"not_started", "requested"}
  BY <1>1, <1>2 DEF Later, Begun, Lifecycle, BeforePublication
<1>4. /\ job \in [Operations -> {"none", "live", "cleaned"}]
      /\ JobsMatchRuns
  BY DEF VideoInv, TypesInv
<1>5. /\ job' \in [Operations -> {"none", "live", "cleaned"}]
      /\ \A p \in Operations \ {o} : job'[p] = job[p]
      /\ job'[o] = "cleaned" => job[o] = "cleaned"
  BY <1>1, <1>2, <1>4 DEF Enqueued
<1>6. JobsMatchRuns'
  BY <1>1, <1>2, <1>3, <1>4, <1>5 DEF JobsMatchRuns
<1>7. CASE ProviderError(c)
  BY <1>1, <1>5, <1>6, <1>7, GiveUpStep DEF GivesUp
<1>8. CASE Persist(c, <<Event("VideoJobQueued", o, 0, "none")>>, "loop")
  <2>1. "VideoJobQueued" \in ObservationTypes /\ "none" \in JobStates \cup {"none"}
    BY DEF ObservationTypes
  <2> QED
    BY <1>1, <1>5, <1>6, <1>8, <2>1, ObserveStep
<1> QED
  BY <1>7, <1>8 DEF Queue
(* The batch that records a status. *)
LEMMA StatusBatch ==
  ASSUME NEW i, NEW s, NEW e \in EventRecord,
         e = Event("VideoJobStatusObserved", i.req.op, i.video.polls + 1, s)
  PROVE  /\ s # "failed" => StatusEvents(i, s) = <<e>>
         /\ s = "failed" => StatusEvents(i, s) = <<e, Plain("RunFailed")>>
<1>1. s # "failed" => StatusEvents(i, s) = <<e>> \o <<>>
  BY DEF StatusEvents
<1>2. <<e>> \o <<>> = <<e>>
  <2> DEFINE a == <<e>>
  <2>1. a \in Seq(EventRecord)
    OBVIOUS
  <2> HIDE DEF a
  <2>2. a \o <<>> = a
    BY <2>1
  <2> QED
    BY <2>2 DEF a
<1>3. s = "failed" => StatusEvents(i, s) = <<e>> \o <<Plain("RunFailed")>>
  BY DEF StatusEvents, FailEvents
<1>4. ASSUME NEW f \in EventRecord
      PROVE  <<e>> \o <<f>> = <<e, f>>
  <2> DEFINE a == <<e>> \o <<f>>
             b == <<e, f>>
  <2>1. a \in Seq(EventRecord) /\ b \in Seq(EventRecord) /\ Len(a) = 2 /\ Len(b) = 2
    OBVIOUS
  <2>2. a[1] = e /\ a[2] = f /\ b[1] = e /\ b[2] = f
    OBVIOUS
  <2> HIDE DEF a, b
  <2>3. \A k \in 1..Len(a) : a[k] = b[k]
    BY <2>1, <2>2
  <2>4. a = b
    BY <2>1, <2>3, SeqEqual
  <2> QED
    BY <2>4 DEF a, b
<1>5. Plain("RunFailed") \in EventRecord
  BY PlainFields DEF Types
<1> QED
  BY <1>1, <1>2, <1>3, <1>4, <1>5

(* The job failed at the provider. *)
LEMMA JobFailsStep ==
  ASSUME VideoInv, NEW c \in Coordinators, inv[c].at = "loop", NEW n \in Nat,
         Persist(c, <<Event("VideoJobStatusObserved", inv[c].req.op, n, "failed"),
                      Plain("RunFailed")>>, "failed"),
         UNCHANGED <<Log, Provider, clock>>
  PROVE  VideoInv'
<1> DEFINE e == Event("VideoJobStatusObserved", inv[c].req.op, n, "failed")
           f == Plain("RunFailed")
           q == <<e, f>>
<1>1. e \in EventRecord /\ f \in EventRecord
  BY CallFacts, EventFields, PlainFields DEF Types, JobStates
<1>2. q \in Seq(EventRecord) /\ "failed" \in Nexts
  BY <1>1, BatchTypes DEF Nexts
<1>3. PICK x \in Invocation :
         /\ inv' = [inv EXCEPT ![c] = x]
         /\ x.at = "append" /\ x.batch = q /\ x.next = "failed" /\ x.req = inv[c].req
         /\ x.stop = inv[c].stop /\ x.video = inv[c].video /\ x.seq = inv[c].seq
  <2> HIDE DEF e, f
  <2>1. Persist(c, q, "failed")
    BY DEF e, f
  <2> HIDE DEF q
  <2> QED
    BY <1>2, <2>1, PersistFields
<1>4. Works(x, artifacts)
  BY <1>3 DEF Works, JobFails
<1> QED
  BY <1>3, <1>4, QuietAppend

(* Retrieve keeps the invariant. *)
LEMMA RetrieveStep ==
  ASSUME VideoInv, NEW c \in Coordinators, Retrieve(c)
  PROVE  VideoInv'
<1>1. MayRetrieve(c) => inv[c].at = "loop"
  BY DEF MayRetrieve, Working, LoopAt
<1>2. CASE RetrieveFails(c)
  BY <1>1, <1>2, QuietGiveUp DEF RetrieveFails, GivesUp
<1>3. ASSUME NEW s \in JobStates \cup {"invalid"}, RetrieveStatus(c, s)
      PROVE  VideoInv'
  <2>1. inv[c].at = "loop" /\ UNCHANGED <<Log, Provider, clock>>
    BY <1>1, <1>3 DEF RetrieveStatus
  <2>2. CASE BadStatus(inv[c].video, s)
    BY <1>3, <2>1, <2>2, QuietGiveUp DEF RetrieveStatus, GivesUp
  <2>3. CASE ~BadStatus(inv[c].video, s)
    <3> DEFINE n == inv[c].video.polls + 1
               e == Event("VideoJobStatusObserved", inv[c].req.op, n, s)
    <3>1. s \in JobStates
      BY <2>3 DEF BadStatus
    <3>2. n \in Nat
      BY CallFacts DEF VideoRecord
    <3>3. e \in EventRecord
      <4> HIDE DEF n
      <4> QED
        BY <3>1, <3>2, CallFacts, EventFields DEF Types
    <3>4. Persist(c, StatusEvents(inv[c], s), IF s = "failed" THEN "failed" ELSE "loop")
      BY <1>3, <2>3 DEF RetrieveStatus
    <3>5. CASE s = "failed"
      <4>1. StatusEvents(inv[c], s) = <<e, Plain("RunFailed")>>
        <5> HIDE DEF e
        <5> QED
          BY <3>3, <3>5, StatusBatch DEF e
      <4>2. Persist(c, <<Event("VideoJobStatusObserved", inv[c].req.op, n, "failed"),
                         Plain("RunFailed")>>, "failed")
        BY <3>4, <3>5, <4>1
      <4> HIDE DEF n
      <4> QED
        BY <2>1, <3>2, <4>2, JobFailsStep
    <3>6. CASE s # "failed"
      <4>1. StatusEvents(inv[c], s) = <<e>>
        <5> HIDE DEF e
        <5> QED
          BY <3>3, <3>6, StatusBatch DEF e
      <4>2. Persist(c, <<Event("VideoJobStatusObserved", inv[c].req.op, n, s)>>, "loop")
        BY <3>4, <3>6, <4>1
      <4>3. "VideoJobStatusObserved" \in ObservationTypes
        BY DEF ObservationTypes
      <4> HIDE DEF n
      <4> QED
        BY <2>1, <3>1, <3>2, <3>6, <4>2, <4>3, QuietFacts, ObserveStep
    <3> QED
      BY <3>5, <3>6
  <2> QED
    BY <2>2, <2>3
<1>4. ASSUME NEW mp4 \in BOOLEAN, RetrieveMedia(c, mp4)
      PROVE  VideoInv'
  <2>1. inv[c].at = "loop" /\ UNCHANGED <<Log, Provider, clock>>
    BY <1>1, <1>4 DEF RetrieveMedia
  <2>2. CASE Persist(c, FailEvents, "failed")
    BY <2>1, <2>2, QuietGiveUp DEF GivesUp
  <2>3. CASE inv' = [inv EXCEPT ![c].at = "media"]
    BY <2>1, <2>3, HeldStep
  <2> QED
    BY <1>4, <2>2, <2>3 DEF RetrieveMedia
<1> QED
  BY <1>2, <1>3, <1>4 DEF Retrieve

(* The artifact is in its store before the batch that names it is appended. *)
LEMMA PublishStep ==
  ASSUME VideoInv, NEW c \in Coordinators, Publish(c)
  PROVE  VideoInv'
<1> DEFINE o == inv[c].req.op
<1>1. inv[c].at = "media" /\ UNCHANGED <<durable, seq, others, clock, job>>
  BY DEF Publish, Log
<1>2. job \in [Operations -> {"none", "live", "cleaned"}] /\ artifacts \subseteq Operations
  BY DEF VideoInv, TypesInv
<1>3. o \in Operations
  BY CallFacts
<1>4. CASE GivesUp(c) /\ UNCHANGED artifacts
  <2>1. JobsMatchRuns'
    BY <1>1, <1>4, SameJobs
  <2> QED
    BY <1>1, <1>2, <1>4, <2>1, GiveUpStep
<1>5. CASE artifacts' = artifacts \cup {o} /\ Persist(c, Published(o), "loop")
  <2>1. artifacts \subseteq artifacts' /\ artifacts' \subseteq Operations /\ o \in artifacts'
    BY <1>2, <1>3, <1>5
  <2>2. JobsMatchRuns'
    BY <1>1, <2>1, SameJobs
  <2>3. Published(o) \in Seq(EventRecord) /\ "loop" \in Nexts
    <3>1. /\ Event("ArtifactCreated", o, 0, "none") \in EventRecord
          /\ Event("VideoArtifactPublished", o, 0, "none") \in EventRecord
          /\ Event("VideoCleanupPending", o, 1, "none") \in EventRecord
      BY <1>3, EventFields DEF Types
    <3> QED
      BY <3>1, BatchTypes DEF Published, Nexts
  <2>4. PICK x \in Invocation :
           /\ inv' = [inv EXCEPT ![c] = x]
           /\ x.at = "append" /\ x.batch = Published(o) /\ x.next = "loop"
           /\ x.req = inv[c].req /\ x.stop = inv[c].stop /\ x.video = inv[c].video
           /\ x.seq = inv[c].seq
    BY <1>5, <2>3, PersistFields
  <2>5. Works(x, artifacts')
    BY <2>1, <2>4 DEF Works, Publishes
  <2> QED
    BY <1>1, <1>2, <2>1, <2>2, <2>4, <2>5, AppendReady
<1> QED
  BY <1>4, <1>5 DEF Publish, GivesUp
(* The media is given up only for a stored artifact. *)
LEMMA CleanupStep ==
  ASSUME VideoInv, NEW c \in Coordinators, NEW done \in BOOLEAN, Cleanup(c, done)
  PROVE  VideoInv'
<1> DEFINE i == inv[c]
           o == i.req.op
           r == i.req.run
           n == i.video.attempt
           e == CleanupEvent(i, "VideoCleanupCompleted")
           g == CleanupEvent(i, "VideoCleanupFailed")
           q == AfterCleanup(i, done).batch
           nx == AfterCleanup(i, done).next
           x == [i EXCEPT !.at = "append", !.reloads = 0, !.batch = q, !.next = nx,
                          !.cleanups = i.cleanups + 1]
<1>1. /\ UNCHANGED <<durable, seq, others, clock, artifacts>> /\ i.at = "loop"
      /\ i.video.state = "cleanup_pending"
      /\ job' \in {[job EXCEPT ![o] = "cleaned"], job}
      /\ inv' = [inv EXCEPT ![c] = x]
  BY DEF Cleanup, LoopAt, Working, Log
<1>2. /\ o \in Operations /\ r \in Runs /\ durable[r] \in VideoRecord /\ i \in Invocation
      /\ Whole(i.video) /\ Later(i.video, durable[r]) /\ i.video.op = o
      /\ NoOperation \notin Operations /\ n \in Nat
  BY <1>1, CallFacts DEF VideoRecord
<1>3. i.video.artifact
  BY <1>1, <1>2 DEF Whole
<1>4. /\ durable[r].op = o /\ durable[r].state \notin {"not_started", "requested"}
      /\ durable[r].artifact
  BY <1>1, <1>2, <1>3 DEF Later, Begun, Lifecycle, BeforePublication
<1>5. o \in artifacts
  BY <1>2, <1>4 DEF VideoInv, RunsInv
<1>6. /\ job \in [Operations -> {"none", "live", "cleaned"}] /\ JobsMatchRuns
      /\ artifacts \subseteq Operations
  BY DEF VideoInv, TypesInv
<1>7. /\ job' \in [Operations -> {"none", "live", "cleaned"}]
      /\ \A p \in Operations \ {o} : job'[p] = job[p]
  BY <1>1, <1>2, <1>6
<1>8. JobsMatchRuns'
  BY <1>1, <1>2, <1>4, <1>5, <1>6, <1>7 DEF JobsMatchRuns
<1>9. /\ e \in EventRecord /\ g \in EventRecord /\ Plain("RunCompleted") \in EventRecord
      /\ e = Event("VideoCleanupCompleted", o, n, "none")
      /\ g = Event("VideoCleanupFailed", o, n, "none")
  BY <1>2, EventFields, PlainFields DEF CleanupEvent, Types
<1>10. \/ q = <<e, Plain("RunCompleted")>> /\ nx = "completed"
       \/ q = <<g>> /\ nx = "pending"
  BY DEF AfterCleanup
<1> HIDE DEF e, g, q, nx
<1>11. q \in Seq(EventRecord) /\ nx \in Nexts
  BY <1>9, <1>10, BatchTypes DEF Nexts
<1>12. i.cleanups + 1 \in Nat
  BY <1>2 DEF Invocation
<1>13. x \in Invocation
  BY <1>2, <1>11, <1>12 DEF Invocation, Places
<1>14. /\ x.at = "append" /\ x.batch = q /\ x.next = nx /\ x.req = i.req
       /\ x.video = i.video /\ x.seq = i.seq
  BY <1>2 DEF Invocation
<1> HIDE DEF x
<1>15. Works(x, artifacts')
  <2>1. CASE q = <<e, Plain("RunCompleted")>> /\ nx = "completed"
    <3>1. Completes(x)
      BY <1>2, <1>9, <1>14, <2>1 DEF Completes
    <3> QED
      BY <3>1 DEF Works
  <2>2. CASE q = <<g>> /\ nx = "pending"
    <3>1. LeavesPending(x)
      BY <1>2, <1>9, <1>14, <2>2 DEF LeavesPending
    <3> QED
      BY <3>1 DEF Works
  <2> QED
    BY <1>10, <2>1, <2>2
<1> HIDE DEF i
<1>16. inv[c].at \in {"loop", "media", "heard"}
  BY <1>1 DEF i
<1>17. x.req = inv[c].req /\ x.video = inv[c].video /\ x.seq = inv[c].seq
  BY <1>14 DEF i
<1> QED
  BY <1>1, <1>6, <1>7, <1>8, <1>13, <1>14, <1>15, <1>16, <1>17, AppendReady

(* Transcribe keeps the invariant. *)
LEMMA TranscribeStep ==
  ASSUME VideoInv, NEW c \in Coordinators, Transcribe(c)
  PROVE  VideoInv'
<1>1. UNCHANGED <<Log, Provider, clock>> /\ inv[c].at = "loop"
  BY DEF Transcribe, Working, LoopAt
<1>2. CASE ProviderError(c)
  BY <1>1, <1>2, QuietGiveUp DEF GivesUp
<1>3. CASE inv' = [inv EXCEPT ![c].at = "heard"]
  BY <1>1, <1>3, HeldStep
<1> QED
  BY <1>2, <1>3 DEF Transcribe

(* RecordTranscription keeps the invariant. *)
LEMMA RecordTranscriptionStep ==
  ASSUME VideoInv, NEW c \in Coordinators, NEW valid \in BOOLEAN, RecordTranscription(c, valid)
  PROVE  VideoInv'
<1> DEFINE o == inv[c].req.op
           e == Event("VideoTranscriptionObserved", o, 0, "none")
           f == Plain("RunCompleted")
           q == <<e, f>>
<1>1. UNCHANGED <<Log, Provider, clock>> /\ inv[c].at = "heard"
  BY DEF RecordTranscription
<1>2. CASE GivesUp(c)
  BY <1>1, <1>2, QuietGiveUp
<1>3. CASE Persist(c, q, "completed")
  <2>1. e \in EventRecord /\ f \in EventRecord
    BY CallFacts, EventFields, PlainFields DEF Types
  <2>2. q \in Seq(EventRecord) /\ "completed" \in Nexts
    BY <2>1, BatchTypes DEF Nexts
  <2>3. q = <<Event("VideoTranscriptionObserved", o, 0, "none"), Plain("RunCompleted")>>
    OBVIOUS
  <2> HIDE DEF q, e, f
  <2>4. PICK x \in Invocation :
           /\ inv' = [inv EXCEPT ![c] = x]
           /\ x.at = "append" /\ x.batch = q /\ x.next = "completed" /\ x.req = inv[c].req
           /\ x.stop = inv[c].stop /\ x.video = inv[c].video /\ x.seq = inv[c].seq
    BY <1>3, <2>2, PersistFields
  <2>5. Completes(x)
    BY <2>3, <2>4 DEF Completes
  <2>6. Works(x, artifacts)
    BY <2>5 DEF Works
  <2> QED
    BY <1>1, <2>4, <2>6, QuietAppend
<1> QED
  BY <1>2, <1>3 DEF RecordTranscription, GivesUp

(* RequestStop keeps the invariant. *)
LEMMA RequestStopStep ==
  ASSUME VideoInv, NEW c \in Coordinators, RequestStop(c)
  PROVE  VideoInv'
<1> DEFINE x == [inv[c] EXCEPT !.stop = TRUE]
<1>1. /\ UNCHANGED <<Log, Provider, clock>> /\ inv[c].at # "idle"
      /\ inv' = [inv EXCEPT ![c] = x]
  BY DEF RequestStop
<1>2. inv[c] \in Invocation /\ CallOK(inv[c], artifacts)
  BY CallFacts
<1>3. /\ x \in Invocation /\ x.at = inv[c].at /\ x.req = inv[c].req /\ x.video = inv[c].video
      /\ x.seq = inv[c].seq /\ x.batch = inv[c].batch /\ x.next = inv[c].next /\ x.stop
  BY <1>2 DEF Invocation
<1> HIDE DEF x
<1>4. CopyOK(x)
  BY <1>1, <1>2, <1>3 DEF CallOK, CopyOK
<1>5. Offers(inv[c], artifacts) => Offers(x, artifacts)
  BY <1>3 DEF Offers, Begins, Fails, Cancels, Observes, JobFails, Publishes, Completes, LeavesPending
<1>6. CallOK(x, artifacts)
  BY <1>1, <1>2, <1>3, <1>4, <1>5 DEF CallOK, WorkOK
<1>7. /\ UNCHANGED <<durable, seq, others, clock, job, artifacts>>
      /\ job \in [Operations -> {"none", "live", "cleaned"}] /\ artifacts \subseteq Operations
  BY <1>1 DEF Log, Provider, VideoInv, TypesInv
<1>8. JobsMatchRuns' /\ CallOK(x, artifacts')
  BY <1>6, <1>7, SameJobs
<1> QED
  BY <1>1, <1>3, <1>7, <1>8, LocalStep

(* Die keeps the invariant. *)
LEMMA DieStep ==
  ASSUME VideoInv, NEW c \in Coordinators, Die(c)
  PROVE  VideoInv'
<1>1. "none" \in Answers /\ inv[c].req \in Requests
  BY CallFacts DEF Answers
<1> QED
  BY <1>1, ReturnStep DEF Die, Return
(***************************************************************************)
(* Opening.                                                                *)
(***************************************************************************)
(* An invocation with the session as it is now is well formed. *)
LEMMA OpenedType ==
  ASSUME VideoInv, NEW q \in Requests, NEW url \in BOOLEAN, NEW stopped \in BOOLEAN,
         NEW x, x = Opened(q, url, stopped)
  PROVE  /\ x \in Invocation /\ x.req = q /\ x.video = durable[q.run] /\ x.seq = seq
         /\ q.run \in Runs /\ q.op \in Operations
<1>1. q.run \in Runs /\ q.op \in Operations
  BY VideoAssumption
<1>2. durable[q.run] \in VideoRecord /\ seq \in Nat
  BY <1>1 DEF VideoInv, TypesInv
<1> DEFINE i == Idle(q, "none")
<1>3. i \in Invocation /\ i.req = q
  BY IdleType DEF Answers
<1>4. x = [i EXCEPT !.url = url, !.stop = stopped, !.video = durable[q.run], !.seq = seq]
  BY DEF Opened
<1> HIDE DEF i
<1> QED
  BY <1>1, <1>2, <1>3, <1>4 DEF Invocation

(* The first batch of a run. *)
LEMMA RequestedType ==
  ASSUME NEW q \in Requests
  PROVE  Requested(q) \in Seq(EventRecord)
<1> DEFINE y == IF q.kind = "generation" THEN "VideoGenerationRequested"
                ELSE "VideoTranscriptionRequested"
           f == Event(y, q.op, 0, "none")
<1>1. y \in Types /\ q.op \in Operations
  BY VideoAssumption DEF Types
<1> HIDE DEF y
<1>2. f \in EventRecord /\ Plain("RunStarted") \in EventRecord
  BY <1>1, EventFields, PlainFields DEF Types
<1>3. Requested(q) = <<Plain("RunStarted"), f>>
  BY DEF Requested, y
<1> HIDE DEF f
<1> QED
  BY <1>2, <1>3, BatchTypes

(* The stored run as a copy of itself. *)
LEMMA FreshCopy ==
  ASSUME VideoInv, NEW x \in Invocation, x.video = durable[x.req.run], x.seq = seq,
         x.req.run \in Runs,
         \A r \in Runs \ {x.req.run} : durable[r].op # x.req.op
  PROVE  CopyOK(x)
<1>1. Whole(durable[x.req.run]) /\ seq \in Nat
  BY DEF VideoInv, RunsInv, TypesInv
<1> QED
  BY <1>1, LaterSelf DEF CopyOK

(* Open keeps the invariant. *)
LEMMA OpenStep ==
  ASSUME VideoInv, NEW c \in Coordinators, NEW x \in Invocation,
         inv' = [inv EXCEPT ![c] = x], CallOK(x, artifacts), UNCHANGED <<Log, Provider, clock>>
  PROVE  VideoInv'
<1>1. /\ UNCHANGED <<durable, seq, others, clock, job, artifacts>>
      /\ job \in [Operations -> {"none", "live", "cleaned"}] /\ artifacts \subseteq Operations
  BY DEF Log, Provider, VideoInv, TypesInv
<1>2. JobsMatchRuns' /\ CallOK(x, artifacts')
  BY <1>1, SameJobs
<1> QED
  BY <1>1, <1>2, LocalStep

(* CreateSession keeps the invariant. *)
LEMMA CreateSessionStep ==
  ASSUME VideoInv, NEW c \in Coordinators, NEW q \in Requests, NEW url \in BOOLEAN,
         CreateSession(c, q, url)
  PROVE  VideoInv'
<1> DEFINE b == Requested(q)
           i == Opened(q, url, FALSE)
           x == [WithInitialEvents(i) EXCEPT !.at = "create", !.video = Blank, !.seq = 0]
<1>1. i \in Invocation /\ i.req = q /\ q.run \in Runs /\ q.op \in Operations
  BY OpenedType
<1>2. b \in Seq(EventRecord)
  BY RequestedType
<1>3. /\ Blank \in VideoRecord /\ Whole(Blank)
      /\ \A w : Later(Blank, w)
      /\ Blank.op = NoOperation /\ NoOperation \notin Operations
  <2>1. Base!NotStarted \in Base!Projections({})
    BY DEF Base!NotStarted, Base!Projections, Base!Statuses
  <2>2. Blank \in VideoRecord
    BY <2>1 DEF Blank, VideoRecord, Lifecycle
  <2>3. /\ Blank.state = "not_started" /\ Blank.op = NoOperation /\ ~Blank.artifact
        /\ ~Blank.cancel /\ ~Blank.staged
    BY DEF Blank
  <2> QED
    BY <2>2, <2>3, VideoAssumption
       DEF Whole, Later, IncompleteAtomicTail, Begun, VideoTerminal
<1>4. x = [i EXCEPT !.at = "create", !.batch = b, !.next = "loop", !.video = Blank, !.seq = 0]
  <2> HIDE DEF i, b
  <2> QED
    BY <1>1 DEF WithInitialEvents, Invocation, b
<1>5. inv' = [inv EXCEPT ![c] = x] /\ UNCHANGED <<Log, Provider, clock>>
  BY DEF CreateSession
<1> HIDE DEF i, b, x
<1>6. /\ x \in Invocation /\ x.at = "create" /\ x.req = q /\ x.batch = b /\ x.next = "loop"
      /\ x.video = Blank /\ x.seq = 0
  BY <1>1, <1>2, <1>3, <1>4 DEF Invocation, Places, Nexts
<1>7. /\ seq \in Nat
      /\ seq = 0 => \A r \in Runs : durable[r] = Blank
  BY DEF VideoInv, TypesInv, RunsInv
<1>8. CopyOK(x)
  BY <1>1, <1>3, <1>6, <1>7 DEF CopyOK
<1>9. Offers(x, artifacts)
  BY <1>6 DEF Offers, Begins, b
<1>10. CallOK(x, artifacts)
  BY <1>6, <1>8, <1>9 DEF CallOK, WorkOK
<1> QED
  BY <1>5, <1>6, <1>10, OpenStep

(* StartRun keeps the invariant. *)
LEMMA StartRunStep ==
  ASSUME VideoInv, NEW c \in Coordinators, NEW q \in Requests, NEW url \in BOOLEAN,
         StartRun(c, q, url)
  PROVE  VideoInv'
<1> DEFINE b == Requested(q)
           i == Opened(q, url, FALSE)
           x == WithInitialEvents(i)
<1>1. /\ i \in Invocation /\ i.req = q /\ i.video = durable[q.run] /\ i.seq = seq
      /\ q.run \in Runs
  BY OpenedType
<1>2. b \in Seq(EventRecord)
  BY RequestedType
<1>3. x = [i EXCEPT !.at = "append", !.batch = b, !.next = "loop"]
  BY <1>1 DEF WithInitialEvents
<1>4. /\ inv' = [inv EXCEPT ![c] = x] /\ UNCHANGED <<Log, Provider, clock>>
      /\ \A r \in Runs \ {q.run} : durable[r].op # q.op
  BY DEF StartRun, Loadable
<1> HIDE DEF i, b, x
<1>5. /\ x \in Invocation /\ x.at = "append" /\ x.req = q /\ x.batch = b /\ x.next = "loop"
      /\ x.video = durable[q.run] /\ x.seq = seq
  BY <1>1, <1>2, <1>3 DEF Invocation, Places, Nexts
<1>6. CopyOK(x)
  BY <1>1, <1>4, <1>5, FreshCopy
<1>7. Offers(x, artifacts)
  BY <1>5 DEF Offers, Begins, b
<1>8. CallOK(x, artifacts)
  BY <1>5, <1>6, <1>7 DEF CallOK, WorkOK
<1> QED
  BY <1>4, <1>5, <1>8, OpenStep

(* ResumeRun keeps the invariant. *)
LEMMA ResumeRunStep ==
  ASSUME VideoInv, NEW c \in Coordinators, NEW q \in Requests, NEW url \in BOOLEAN,
         NEW stopped \in BOOLEAN, ResumeRun(c, q, url, stopped)
  PROVE  VideoInv'
<1> DEFINE i == Opened(q, url, stopped)
           x == [i EXCEPT !.at = "loop"]
<1>1. /\ i \in Invocation /\ i.req = q /\ i.video = durable[q.run] /\ i.seq = seq
      /\ q.run \in Runs
  BY OpenedType
<1>2. /\ inv' = [inv EXCEPT ![c] = x] /\ UNCHANGED <<Log, Provider, clock>>
      /\ \A r \in Runs \ {q.run} : durable[r].op # q.op
      /\ durable[q.run].op = q.op
  BY DEF ResumeRun, Loadable, Matches
<1> HIDE DEF i
<1>3. /\ x \in Invocation /\ x.at = "loop" /\ x.req = q
      /\ x.video = durable[q.run] /\ x.seq = seq
  BY <1>1 DEF Invocation, Places
<1> HIDE DEF x
<1>4. CopyOK(x)
  BY <1>1, <1>2, <1>3, FreshCopy
<1>5. CallOK(x, artifacts)
  BY <1>2, <1>3, <1>4 DEF CallOK, WorkOK
<1> QED
  BY <1>2, <1>3, <1>5, OpenStep

(* Call keeps the invariant. *)
LEMMA CallStep ==
  ASSUME VideoInv, NEW c \in Coordinators, Call(c)
  PROVE  VideoInv'
<1>1. PICK q \in Requests, url \in BOOLEAN, stopped \in BOOLEAN :
         \/ CreateSession(c, q, url)
         \/ StartRun(c, q, url)
         \/ ResumeRun(c, q, url, stopped)
         \/ \E mode \in {"create", "start", "resume"} : Refuse(c, q, mode, url, stopped)
  BY DEF Call
<1>2. ASSUME NEW mode, Refuse(c, q, mode, url, stopped)
      PROVE  VideoInv'
  <2>1. "refused" \in Answers
    BY DEF Answers
  <2> QED
    BY <1>2, <2>1, ReturnStep DEF Refuse
<1> QED
  BY <1>1, <1>2, CreateSessionStep, StartRunStep, ResumeRunStep
(***************************************************************************)
(* Appending.                                                              *)
(***************************************************************************)
(* A batch that does not conflict is appended to the run it was made for. *)
LEMMA StoredFacts ==
  ASSUME VideoInv, NEW c \in Coordinators, inv[c].at \in {"append", "create"},
         Accepted(inv[c]), ~Conflict(inv[c]), Stored(c), NEW w,
         w = ApplyAll(inv[c].video, inv[c].batch, inv[c].seq, clock)
  PROVE  /\ Recorded(inv[c], w, artifacts) /\ inv[c].seq = seq
         /\ inv[c].video = durable[inv[c].req.run]
         /\ \A r \in Runs \ {inv[c].req.run} : durable[r].op # inv[c].req.op
         /\ durable' = [durable EXCEPT ![inv[c].req.run] = w]
         /\ seq' \in Nat /\ seq' > seq /\ others' = others
         /\ seq' = inv[c].seq + Len(inv[c].batch)
<1> DEFINE i == inv[c]
<1>1. /\ i \in Invocation /\ Whole(i.video) /\ i.seq \in Nat /\ i.seq <= seq
      /\ Offers(i, artifacts) /\ CopyOK(i)
  BY CallFacts DEF CallOK
<1>2. seq \in Nat /\ clock \in Nat
  BY DEF VideoInv, TypesInv
<1>3. AcceptsAll(i.video, i.batch, i.seq, clock)
  BY DEF Accepted
<1>4. Recorded(i, w, artifacts)
  BY <1>1, <1>2, <1>3, OfferRecords
<1>5. Len(i.batch) \in Nat \ {0}
  BY <1>1, OfferLength
<1>6. i.seq = seq
  BY <1>1, <1>2 DEF Conflict
<1>7. seq' = i.seq + Len(i.batch) /\ others' = others
      /\ durable' = [durable EXCEPT ![i.req.run] = w]
  BY DEF Stored
<1>8. /\ i.video = durable[i.req.run]
      /\ \A r \in Runs \ {i.req.run} : durable[r].op # i.req.op
  BY <1>1, <1>6 DEF CopyOK
<1> DEFINE n == Len(i.batch)
<1> HIDE DEF n
<1>9. seq' \in Nat /\ seq' > seq
  <2>1. n \in Nat \ {0} /\ seq' = i.seq + n
    BY <1>5, <1>7 DEF n
  <2> QED
    BY <1>2, <1>6, <2>1
<1> QED
  BY <1>4, <1>6, <1>7, <1>8, <1>9

(* The stored run moves on, and no other. *)
LEMMA StoredLater ==
  ASSUME VideoInv, NEW c \in Coordinators, inv[c].at \in {"append", "create"},
         Accepted(inv[c]), ~Conflict(inv[c]), Stored(c)
  PROVE  \A r \in Runs : Later(durable[r], durable'[r]) /\ Whole(durable'[r])
<1> DEFINE w == ApplyAll(inv[c].video, inv[c].batch, inv[c].seq, clock)
           r0 == inv[c].req.run
<1> HIDE DEF w
<1>1. Recorded(inv[c], w, artifacts) /\ inv[c].video = durable[r0]
      /\ durable' = [durable EXCEPT ![r0] = w]
  BY StoredFacts DEF w
<1>2. Later(durable[r0], w) /\ Whole(w)
  BY <1>1 DEF Recorded, Sound
<1>3. durable \in [Runs -> VideoRecord] /\ \A r \in Runs : Whole(durable[r])
  BY DEF VideoInv, TypesInv, RunsInv
<1>4. ASSUME NEW r \in Runs
      PROVE  Later(durable[r], durable'[r]) /\ Whole(durable'[r])
  <2>1. durable'[r] = IF r = r0 THEN w ELSE durable[r]
    BY <1>1, <1>3
  <2> QED
    BY <1>2, <1>3, <2>1, LaterSelf
<1> QED
  BY <1>4

(* A step that stores a batch, and returns or goes round the loop. *)
LEMMA StoredStep ==
  ASSUME VideoInv, NEW c \in Coordinators, inv[c].at \in {"append", "create"},
         Accepted(inv[c]), ~Conflict(inv[c]), Stored(c), NEW w,
         w = ApplyAll(inv[c].video, inv[c].batch, inv[c].seq, clock),
         UNCHANGED <<Provider, clock>>, NEW x \in Invocation,
         inv' = [inv EXCEPT ![c] = x], x.req = inv[c].req,
         \/ x.at = "idle" /\ Told(x, w)
         \/ x.at = "loop" /\ x.video = w /\ x.seq = inv[c].seq + Len(inv[c].batch)
  PROVE  VideoInv'
<1> DEFINE q == inv[c].req
           r0 == q.run
<1>1. /\ Recorded(inv[c], w, artifacts) /\ inv[c].seq = seq
      /\ inv[c].video = durable[r0]
      /\ \A r \in Runs \ {r0} : durable[r].op # q.op
      /\ durable' = [durable EXCEPT ![r0] = w]
      /\ seq' \in Nat /\ seq' > seq /\ others' = others
      /\ seq' = inv[c].seq + Len(inv[c].batch)
  BY StoredFacts
<1>2. /\ w \in VideoRecord /\ Whole(w) /\ Later(durable[r0], w) /\ w.op = q.op
      /\ durable[r0].op \in {NoOperation, q.op}
      /\ w.artifact => durable[r0].artifact \/ q.op \in artifacts
  BY <1>1 DEF Recorded, Sound
<1>3. /\ r0 \in Runs /\ q.op \in Operations /\ NoOperation \notin Operations
  BY CallFacts
<1>4. /\ durable \in [Runs -> VideoRecord] /\ seq \in Nat /\ clock \in Nat /\ others \in Nat
      /\ inv \in [Coordinators -> Invocation] /\ artifacts \subseteq Operations
      /\ job \in [Operations -> {"none", "live", "cleaned"}]
      /\ UNCHANGED <<clock, job, artifacts>>
  BY DEF VideoInv, TypesInv, Provider
<1>5. \A r \in Runs : durable'[r] = IF r = r0 THEN w ELSE durable[r]
  BY <1>1, <1>4
<1>6. \A r \in Runs : Later(durable[r], durable'[r]) /\ Whole(durable'[r])
  BY StoredLater
<1>7. TypesInv'
  BY <1>1, <1>2, <1>4 DEF TypesInv
<1>8. RunsInv'
  <2>1. ASSUME NEW r \in Runs, durable'[r].artifact
        PROVE  durable'[r].op \in artifacts
    <3>1. durable[r].artifact => durable[r].op \in artifacts
      BY DEF VideoInv, RunsInv
    <3>2. CASE r = r0
      <4>1. durable[r0].artifact => q.op \in artifacts
        BY <1>2, <1>3, <1>4, <3>1, <3>2
      <4> QED
        BY <1>2, <1>5, <2>1, <3>2, <4>1
    <3>3. CASE r # r0
      BY <1>5, <2>1, <3>1, <3>3
    <3> QED
      BY <3>2, <3>3
  <2>2. seq' # 0
    BY <1>1, <1>4
  <2> QED
    BY <1>4, <1>6, <2>1, <2>2 DEF RunsInv
<1>9. OneRunPerOperation'
  <2>1. ASSUME NEW r \in Runs, NEW s \in Runs, r # s, durable'[r].op # NoOperation
        PROVE  durable'[r].op # durable'[s].op
    <3>1. durable[r].op # NoOperation => durable[r].op # durable[s].op
      BY <2>1 DEF VideoInv, OneRunPerOperation
    <3>2. r # r0 => durable[r].op # q.op
      BY <1>1
    <3>3. s # r0 => durable[s].op # q.op
      BY <1>1
    <3>4. CASE r = r0
      BY <1>2, <1>5, <2>1, <3>3, <3>4
    <3>5. CASE s = r0
      BY <1>2, <1>5, <2>1, <3>2, <3>5
    <3>6. CASE r # r0 /\ s # r0
      BY <1>5, <2>1, <3>1, <3>6
    <3> QED
      BY <3>4, <3>5, <3>6
  <2> QED
    BY <2>1 DEF OneRunPerOperation
<1>10. JobsMatchRuns'
  <2>1. ASSUME NEW r \in Runs, NEW o \in Operations, durable[r].op = o
        PROVE  /\ durable'[r].op = o
               /\ durable[r].state \notin {"not_started", "requested"} =>
                    durable'[r].state \notin {"not_started", "requested"}
               /\ durable[r].artifact => durable'[r].artifact
    <3>1. durable[r] \in VideoRecord /\ Later(durable[r], durable'[r])
      BY <1>4, <1>6
    <3>2. durable[r].state \in Lifecycle
      BY <3>1 DEF VideoRecord
    <3> QED
      BY <1>3, <2>1, <3>1, <3>2 DEF Later, Begun
  <2> QED
    BY <1>4, <2>1 DEF VideoInv, JobsMatchRuns
<1>11. ASSUME NEW d \in Coordinators
       PROVE  CallOK(inv[d], artifacts)'
  <2>1. CASE d = c
    <3>1. inv'[d] = x
      BY <1>4, <2>1
    <3>2. CASE x.at = "idle" /\ Told(x, w)
      <4>1. durable'[x.req.run] = w
        BY <1>3, <1>5
      <4> QED
        BY <3>1, <3>2, <4>1 DEF CallOK
    <3>3. CASE x.at = "loop" /\ x.video = w /\ x.seq = inv[c].seq + Len(inv[c].batch)
      <4>1. /\ durable'[x.req.run] = w /\ x.seq = seq'
            /\ \A r \in Runs \ {x.req.run} : durable'[r].op # x.req.op
        BY <1>1, <1>3, <1>5, <3>3
      <4>2. Later(w, w) /\ Whole(x.video) /\ x.seq <= seq'
        BY <1>1, <1>2, <3>3, <4>1, LaterSelf
      <4>3. x.video.op = x.req.op
        BY <1>2, <3>3
      <4> QED
        BY <3>1, <3>3, <4>1, <4>2, <4>3 DEF CallOK, CopyOK, WorkOK
    <3> QED
      BY <3>2, <3>3
  <2>2. CASE d # c
    <3> DEFINE j == inv[d]
    <3>1. inv'[d] = j
      BY <1>4, <2>2
    <3>2. /\ j \in Invocation /\ j.req.run \in Runs /\ CallOK(j, artifacts)
      BY CallFacts
    <3>3. Later(durable[j.req.run], durable'[j.req.run])
      BY <1>6, <3>2
    <3>4. CASE j.at = "idle"
      <4>1. Told(j, durable[j.req.run])
        BY <3>2, <3>4 DEF CallOK
      <4>2. Told(j, durable'[j.req.run])
        BY <3>3, <4>1, ToldLater
      <4> QED
        BY <3>1, <3>4, <4>2 DEF CallOK
    <3>5. CASE j.at # "idle"
      <4>1. CopyOK(j) /\ WorkOK(j, artifacts) /\ j.seq \in Nat /\ j.seq <= seq
        BY <3>2, <3>5 DEF CallOK, CopyOK, Invocation
      <4>2. Whole(j.video) /\ Later(j.video, durable'[j.req.run])
        BY <3>3, <4>1, LaterTrans DEF CopyOK
      <4>3. j.seq <= seq' /\ j.seq # seq'
        BY <1>1, <1>4, <4>1
      <4> QED
        BY <1>4, <3>1, <3>5, <4>1, <4>2, <4>3 DEF CallOK, CopyOK
    <3> QED
      BY <3>4, <3>5
  <2> QED
    BY <2>1, <2>2
<1> QED
  BY <1>7, <1>8, <1>9, <1>10, <1>11 DEF VideoInv, CallsInv
(* After the append: the loop, or an answer that is true of what was stored. *)
LEMMA AppendWorksStep ==
  ASSUME VideoInv, NEW c \in Coordinators, AppendWorks(c)
  PROVE  VideoInv'
<1> DEFINE i == inv[c]
           w == ApplyAll(i.video, i.batch, i.seq, clock)
           n == i.seq + Len(i.batch)
<1>1. i.at \in {"append", "create"} /\ UNCHANGED <<Provider, clock>>
  BY DEF AppendWorks
<1>2. i \in Invocation /\ i.req \in Requests
  BY CallFacts
<1>3. CASE ~Accepted(i)
  <2>1. Return(c, "protocol_failure") /\ UNCHANGED Log /\ "protocol_failure" \in Answers
    BY <1>3 DEF AppendWorks, Answers
  <2> QED
    BY <1>1, <1>2, <2>1, ReturnStep DEF Return
<1>4. CASE Accepted(i)
  <2>1. ~Conflict(i) /\ Stored(c) /\ AfterAppend(c)
    BY <1>4 DEF AppendWorks
  <2> HIDE DEF w
  <2>2. Recorded(i, w, artifacts) /\ seq' \in Nat /\ seq' = n
    BY <1>1, <1>4, <2>1, StoredFacts DEF w
  <2>3. CASE i.next = "loop"
    <3> HIDE DEF n
    <3> DEFINE none == <<>>
               x == [i EXCEPT !.at = "loop", !.batch = none, !.next = "none", !.reloads = 0,
                              !.video = w, !.seq = n]
    <3>1. inv' = [inv EXCEPT ![c] = x]
      BY <2>1, <2>3 DEF AfterAppend, w, n
    <3>2. none \in Seq(EventRecord) /\ w \in VideoRecord /\ n \in Nat
      BY <2>2 DEF Recorded, Sound
    <3> HIDE DEF none
    <3>3. x \in Invocation /\ x.at = "loop" /\ x.video = w /\ x.seq = n /\ x.req = i.req
      BY <1>2, <3>2 DEF Invocation, Places, Nexts
    <3> HIDE DEF x
    <3> QED
      BY <1>1, <1>4, <2>1, <3>1, <3>3, StoredStep DEF w, n
  <2>4. ASSUME NEW a \in Answers, Return(c, a), NEW x, x = Idle(i.req, a), Told(x, w)
        PROVE  VideoInv'
    <3>1. x \in Invocation /\ x.at = "idle" /\ x.req = i.req
      BY <1>2, <2>4, IdleType
    <3>2. inv' = [inv EXCEPT ![c] = x]
      BY <2>4 DEF Return
    <3> QED
      BY <1>1, <1>4, <2>1, <2>4, <3>1, <3>2, StoredStep DEF w
  <2>5. ASSUME NEW a \in Answers, Return(c, a),
               a = "completed" => w.state = "completed",
               a = "pending" => w.artifact,
               a = "failed" => w.state = "failed",
               a = "cancelled" => w.state \in {"failed", "cancelled"}
        PROVE  VideoInv'
    <3> DEFINE x == Idle(i.req, a)
    <3>1. x.answer = a
      BY <1>2, IdleType
    <3> HIDE DEF x
    <3>2. Told(x, w)
      BY <2>5, <3>1 DEF Told
    <3> QED
      BY <2>4, <2>5, <3>2 DEF x
  <2>6. CASE i.next = "halted"
    <3> DEFINE a == IF i.stop THEN "cancelled" ELSE "failed"
    <3>1. Return(c, a)
      BY <2>1, <2>6 DEF AfterAppend
    <3>2. w.state = "failed" \/ (w.state = "cancelled" /\ i.stop)
      BY <2>2, <2>6 DEF Recorded
    <3>3. a \in Answers
      BY DEF Answers
    <3>4. (a = "failed" => w.state = "failed") /\ (a = "cancelled" => w.state \in {"failed", "cancelled"})
      BY <3>2
    <3>5. a \in {"failed", "cancelled"}
      OBVIOUS
    <3> HIDE DEF a
    <3> QED
      BY <2>5, <3>1, <3>3, <3>4, <3>5
  <2>7. CASE i.next \notin {"loop", "halted"}
    <3>1. Return(c, i.next)
      BY <2>1, <2>7 DEF AfterAppend
    <3>2. i.next \in Answers
      BY <2>2, <2>7 DEF Recorded, Nexts, Answers
    <3>3. /\ i.next = "completed" => w.state = "completed"
          /\ i.next = "pending" => w.artifact
          /\ i.next = "failed" => w.state = "failed"
          /\ i.next = "cancelled" => w.state = "cancelled"
      BY <2>2 DEF Recorded
    <3> QED
      BY <2>5, <3>1, <3>2, <3>3
  <2> QED
    BY <2>3, <2>6, <2>7
<1> QED
  BY <1>3, <1>4

(* The store reports a failure, whether or not it wrote the batch. *)
LEMMA AppendFailsStep ==
  ASSUME VideoInv, NEW c \in Coordinators, AppendFails(c)
  PROVE  VideoInv'
<1> DEFINE i == inv[c]
           w == ApplyAll(i.video, i.batch, i.seq, clock)
<1>1. /\ i.at \in {"append", "create"} /\ UNCHANGED <<Provider, clock>> /\ Accepted(i)
      /\ Return(c, "storage_failure") /\ "storage_failure" \in Answers
  BY DEF AppendFails, Answers
<1>2. i.req \in Requests
  BY CallFacts
<1> HIDE DEF w
<1>3. CASE ~Conflict(i) /\ Stored(c)
  <2> DEFINE x == Idle(i.req, "storage_failure")
  <2>1. x \in Invocation /\ x.at = "idle" /\ x.req = i.req /\ x.answer = "storage_failure"
    BY <1>1, <1>2, IdleType
  <2> HIDE DEF x
  <2>2. Told(x, w)
    BY <2>1 DEF Told
  <2>3. inv' = [inv EXCEPT ![c] = x]
    BY <1>1 DEF Return, x
  <2> QED
    BY <1>1, <1>3, <2>1, <2>2, <2>3, StoredStep DEF w
<1>4. CASE UNCHANGED Log
  BY <1>1, <1>2, <1>4, ReturnStep DEF Return
<1> QED
  BY <1>3, <1>4 DEF AppendFails

(* A conflict: the invocation gives up, or goes on with the stored run. *)
LEMMA ConflictStep ==
  ASSUME VideoInv, NEW c \in Coordinators, AppendConflicts(c) \/ CreateConflicts(c)
  PROVE  VideoInv'
<1> DEFINE i == inv[c]
           v == durable[i.req.run]
           x == [i EXCEPT !.video = v, !.seq = seq, !.reloads = i.reloads + 1]
<1>1. UNCHANGED <<Log, Provider, clock>> /\ "storage_failure" \in Answers /\ i.at # "idle"
  BY DEF AppendConflicts, CreateConflicts, Answers
<1>2. /\ i \in Invocation /\ i.req \in Requests /\ i.req.run \in Runs /\ v \in VideoRecord
      /\ Later(i.video, v) /\ i.req.op \in Operations /\ NoOperation \notin Operations
      /\ i.at = "append" => Offers(i, artifacts)
  BY <1>1, CallFacts
<1>3. CASE Return(c, "storage_failure")
  BY <1>1, <1>2, <1>3, ReturnStep DEF Return
<1>4. CASE i.at = "append" /\ Loadable(i.req) /\ inv' = [inv EXCEPT ![c] = x]
  <2>1. i.reloads + 1 \in Nat /\ seq \in Nat
    BY <1>2 DEF Invocation, VideoInv, TypesInv
  <2>2. /\ x \in Invocation /\ x.at = "append" /\ x.req = i.req /\ x.video = v /\ x.seq = seq
        /\ x.batch = i.batch /\ x.next = i.next /\ x.stop = i.stop
    BY <1>2, <1>4, <2>1 DEF Invocation
  <2> HIDE DEF x
  <2>3. CopyOK(x)
    BY <1>2, <1>4, <2>2, FreshCopy DEF Loadable
  <2>4. i.video.op = i.req.op => v.op = i.req.op
    BY <1>2 DEF Later
  <2>5. Offers(x, artifacts)
    BY <1>2, <1>4, <2>2, <2>4
       DEF Offers, Begins, Fails, Cancels, Observes, JobFails, Publishes, Completes, LeavesPending
  <2>6. CallOK(x, artifacts)
    BY <2>2, <2>3, <2>5 DEF CallOK, WorkOK
  <2> QED
    BY <1>1, <1>4, <2>2, <2>6, OpenStep
<1> QED
  BY <1>3, <1>4 DEF AppendConflicts, CreateConflicts, MayRetry
(***************************************************************************)
(* The specification.                                                      *)
(***************************************************************************)
(* The invariant holds at first. *)
LEMMA InitHolds == Init => VideoInv
<1> SUFFICES ASSUME Init PROVE VideoInv
  OBVIOUS
<1>1. PICK q \in Requests : inv = [c \in Coordinators |-> Idle(q, "none")]
  BY DEF Init
<1> DEFINE x == Idle(q, "none")
<1>2. x \in Invocation /\ x.at = "idle" /\ x.answer = "none"
  BY IdleType DEF Answers
<1> HIDE DEF x
<1>3. inv = [c \in Coordinators |-> x]
  BY <1>1 DEF x
<1>4. Base!NotStarted \in Base!Projections({})
  BY DEF Base!NotStarted, Base!Projections, Base!Statuses
<1>5. Blank \in VideoRecord
  BY <1>4 DEF Blank, VideoRecord, Lifecycle
<1>6. /\ Blank.state = "not_started" /\ Blank.op = NoOperation /\ ~Blank.artifact
      /\ ~Blank.cancel /\ ~Blank.staged
  BY DEF Blank
<1>7. Whole(Blank)
  BY <1>6 DEF Whole, IncompleteAtomicTail
<1> HIDE DEF Blank
<1>8. TypesInv
  BY <1>2, <1>3, <1>5, VideoAssumption DEF Init, TypesInv
<1>9. RunsInv
  BY <1>6, <1>7 DEF Init, RunsInv
<1>10. OneRunPerOperation
  BY <1>6 DEF Init, OneRunPerOperation
<1>11. JobsMatchRuns
  BY DEF Init, JobsMatchRuns
<1>12. CallsInv
  BY <1>2, <1>3 DEF CallsInv, CallOK, Told
<1> QED
  BY <1>8, <1>9, <1>10, <1>11, <1>12 DEF VideoInv

(* The clock and other writers change nothing of the runs. *)
LEMMA EnvironmentStep ==
  ASSUME VideoInv, SetClock \/ OtherWriter \/ UNCHANGED vars
  PROVE  VideoInv'
<1>1. /\ UNCHANGED <<durable, inv, job, artifacts>>
      /\ (seq' = seq \/ seq' = seq + 1) /\ clock' \in Nat /\ others' \in Nat
  BY VideoAssumption DEF SetClock, OtherWriter, vars, Log, Provider, VideoInv, TypesInv
<1>2. TypesInv' /\ RunsInv' /\ OneRunPerOperation' /\ JobsMatchRuns'
  BY <1>1 DEF VideoInv, TypesInv, RunsInv, OneRunPerOperation, JobsMatchRuns
<1>3. ASSUME NEW c \in Coordinators
      PROVE  CallOK(inv[c], artifacts)'
  <2>1. CallOK(inv[c], artifacts) /\ inv[c] \in Invocation /\ seq \in Nat
    BY DEF VideoInv, CallsInv, TypesInv
  <2>2. inv[c].seq \in Nat
    BY <2>1 DEF Invocation
  <2> QED
    BY <1>1, <2>1, <2>2 DEF CallOK, CopyOK
<1> QED
  BY <1>2, <1>3 DEF VideoInv, CallsInv

(* Every step keeps the invariant. *)
LEMMA NextStep ==
  ASSUME VideoInv, [Next]_vars
  PROVE  VideoInv'
<1>1. ASSUME NEW c \in Coordinators, Step(c)
      PROVE  VideoInv'
  BY <1>1, AppendWorksStep, AppendFailsStep, ConflictStep, AnswerStep, HaltStep, QuoteStep,
     QueueStep, RetrieveStep, PublishStep, NextCleanupStep, CleanupStep, TranscribeStep,
     RecordTranscriptionStep DEF Step
<1>2. ASSUME NEW c \in Coordinators, Call(c) \/ RequestStop(c) \/ Die(c)
      PROVE  VideoInv'
  BY <1>2, CallStep, RequestStopStep, DieStep
<1> QED
  BY <1>1, <1>2, EnvironmentStep DEF Next

(* The inductive invariant holds throughout. *)
LEMMA VideoInvariant == Spec => []VideoInv
<1>1. VideoInv /\ [Next]_vars => VideoInv'
  BY NextStep
<1> QED
  BY InitHolds, <1>1, PTL DEF Spec

(* Every stored run can be rebuilt: whatever callers die, lose their appends or
   meet others, no run is left inside a batch (rebuild in video.cpp). *)
THEOREM RunsRebuild == Spec => []StoredRunsRebuild
<1>1. VideoInv => StoredRunsRebuild
  BY DEF VideoInv, RunsInv, Whole, StoredRunsRebuild
<1> QED
  BY VideoInvariant, <1>1, PTL

(* No two runs of a session claim one operation (operation_owners in
   load_state and the sequence check of the store). *)
THEOREM OperationsAreOwned == Spec => []OneRunPerOperation
<1>1. VideoInv => OneRunPerOperation
  BY DEF VideoInv
<1> QED
  BY VideoInvariant, <1>1, PTL

(* A job at the provider is always the job of a stored run that was quoted, and
   its media is given up only once the run has its artifact. *)
THEOREM JobsAreRecorded == Spec => []JobsMatchRuns
<1>1. VideoInv => JobsMatchRuns
  BY DEF VideoInv
<1> QED
  BY VideoInvariant, <1>1, PTL

(* What a caller of generate or transcribe is told is what is stored, and stays
   true whatever other callers do afterwards. *)
THEOREM AnswersAreTrue == Spec => []AnswersAreStored
<1>1. VideoInv => AnswersAreStored
  BY DEF VideoInv, CallsInv, CallOK, Told, AnswersAreStored
<1> QED
  BY VideoInvariant, <1>1, PTL

(* Only an append changes a stored run, and it moves the run on. *)
LEMMA RunsMoveOn ==
  ASSUME VideoInv, [Next]_vars, NEW r \in Runs
  PROVE  Later(durable[r], durable'[r]) /\ Whole(durable'[r])
<1>1. CASE durable' = durable
  BY <1>1, LaterSelf DEF VideoInv, RunsInv
<1>2. ASSUME NEW c \in Coordinators, AppendWorks(c) \/ AppendFails(c)
      PROVE  Later(durable[r], durable'[r]) /\ Whole(durable'[r])
  <2>1. \/ durable' = durable
        \/ /\ inv[c].at \in {"append", "create"} /\ Accepted(inv[c])
           /\ ~Conflict(inv[c]) /\ Stored(c)
    BY <1>2 DEF AppendWorks, AppendFails, Log
  <2> QED
    BY <1>1, <2>1, StoredLater
<1>3. ASSUME NEW c \in Coordinators, Step(c), ~AppendWorks(c), ~AppendFails(c)
      PROVE  durable' = durable
  BY <1>3 DEF Step, AppendConflicts, CreateConflicts, AnswerAtOnce, Halt, Quote, Queue,
     PollLimit, Retrieve, RetrieveFails, RetrieveStatus, RetrieveMedia, Publish, LeavePending,
     NextCleanup, Cleanup, Transcribe, RecordTranscription, Log
<1>4. ASSUME NEW c \in Coordinators, Call(c) \/ RequestStop(c) \/ Die(c)
      PROVE  durable' = durable
  BY <1>4 DEF Call, CreateSession, StartRun, ResumeRun, Refuse, RequestStop, Die, Log
<1>5. SetClock \/ OtherWriter \/ UNCHANGED vars => durable' = durable
  BY DEF SetClock, OtherWriter, vars, Log
<1> QED
  BY <1>1, <1>2, <1>3, <1>4, <1>5 DEF Next

(* A stored run that has its artifact keeps it and can only complete, and one
   that is over does not change, for any number of callers with copies of any age. *)
THEOREM PublicationIsKept == Spec => PublishedIsKept
<1>1. ASSUME VideoInv, [Next]_vars
      PROVE  \A r \in Runs :
               /\ durable[r].artifact =>
                    durable'[r].artifact /\ durable'[r].state \notin {"failed", "cancelled"}
               /\ durable[r].state \in VideoTerminal => durable'[r] = durable[r]
  <2>1. \A r \in Runs : Later(durable[r], durable'[r]) /\ Whole(durable'[r])
    BY <1>1, RunsMoveOn
  <2> QED
    BY <2>1 DEF Later, Whole, AfterPublication
<1>2. VideoInv /\ [Next]_vars =>
        [\A r \in Runs :
           /\ durable[r].artifact =>
                durable'[r].artifact /\ durable'[r].state \notin {"failed", "cancelled"}
           /\ durable[r].state \in VideoTerminal => durable'[r] = durable[r]]_vars
  BY <1>1
<1> QED
  BY VideoInvariant, <1>2, PTL DEF Spec, PublishedIsKept
===============================================================================
