------------------------- MODULE LocalSourceProofs -------------------------
(***************************************************************************)
(* Theorems about LocalSourceBrowser.  The handlers of the owner are        *)
(* sequences of calls on the worker, the registry and the browser, so the   *)
(* invariant is stated of a state s = [w, r, b] that need not be the        *)
(* current one: Ok(s).  What holds between two calls of a handler is one of *)
(* three relations: Ends (jobs were discarded, consumed or reaped), RegStep *)
(* (no active grant was touched) and Drops (some works of the browser were  *)
(* cancelled).                                                              *)
(***************************************************************************)
EXTENDS LocalSourceBrowser, TLAPS

-----------------------------------------------------------------------------
(* Types. *)

GrantTask == [kind : {"grant"}, phase : {"reserved", "running"}]
ReadTask == [kind : {"read"}, purpose : Purposes]
ContextTask ==
  [kind : {"context"}, sources : SUBSET Sources, todo : SUBSET Sources,
   got : SUBSET Nat, checked : SUBSET Nat]
RepositoryTask == [kind : {"repository"}]
Tasks == GrantTask \cup ReadTask \cup ContextTask \cup RepositoryTask

Job ==
  [session : Sessions, task : Tasks, borrows : SUBSET Nat,
   discarded : BOOLEAN, consumed : BOOLEAN, relayDone : BOOLEAN,
   stop : BOOLEAN, pc : {"waiting", "calling", "holding", "disposing", "done"},
   result : {Nil, "ok", "failed"}]

Slot ==
  [session : Sessions, epoch : Nat, root : Roots \cup {NoRoot},
   physical : BOOLEAN, attempted : BOOLEAN, running : BOOLEAN,
   active : BOOLEAN, retired : BOOLEAN, destroying : BOOLEAN]

Shown == [root : Roots, generation : Nat]

\* Identities grow: the jobs and slots there are were numbered before.
WorkerOK(w) ==
  /\ w = [jobs |-> w.jobs, lastRequest |-> w.lastRequest,
          lastAllocated |-> w.lastAllocated]
  /\ w.lastRequest \in Nat
  /\ w.lastAllocated \in Nat
  /\ w.jobs \in [DOMAIN w.jobs -> Job]
  /\ DOMAIN w.jobs \subseteq Nat
  /\ \A i \in DOMAIN w.jobs : i <= w.lastRequest

\* An active grant holds its lease and is not being made, retired or
\* destroyed; a lease being destroyed is one nobody makes or has.
SlotOK(x) ==
  /\ x.active => /\ x.physical /\ x.attempted /\ ~x.running /\ ~x.retired
                 /\ x.root # NoRoot
  /\ x.destroying => x.retired /\ ~x.physical /\ ~x.running

RegistryOK(r) ==
  /\ r = [slots |-> r.slots, scope |-> r.scope, lastEpoch |-> r.lastEpoch,
          lastRequest |-> r.lastRequest, closed |-> r.closed]
  /\ r.lastRequest \in Nat
  /\ r.lastEpoch \in Nat
  /\ r.closed \in BOOLEAN
  /\ r.slots \in [DOMAIN r.slots -> Slot]
  /\ DOMAIN r.slots \subseteq Nat
  /\ \A g \in DOMAIN r.slots : g <= r.lastRequest /\ SlotOK(r.slots[g])

BrowserOK(b) ==
  /\ b = [session |-> b.session, epoch |-> b.epoch, revision |-> b.revision,
          folders |-> b.folders, selection |-> b.selection,
          listing |-> b.listing, preview |-> b.preview,
          granting |-> b.granting, reading |-> b.reading,
          preparing |-> b.preparing, repository |-> b.repository,
          closed |-> b.closed]
  /\ b.session \in Sessions \cup {Nil}
  /\ b.epoch \in Nat
  /\ b.revision \in Nat
  /\ b.folders \in [DOMAIN b.folders -> Nat]
  /\ DOMAIN b.folders \subseteq Roots
  /\ b.selection \subseteq Sources
  /\ b.listing \in Shown \cup {Nil}
  /\ b.preview \in Shown \cup {Nil}
  /\ b.granting \in Nat \cup {Nil}
  /\ b.reading \in ReadWork \cup {Nil}
  /\ b.preparing \in ContextWork \cup {Nil}
  /\ b.repository \in Nat \cup {Nil}
  /\ b.closed \in BOOLEAN

-----------------------------------------------------------------------------
(* The invariant. *)

\* What a job holds is there; a grant in the making has its slot; a prepared
\* context has checked what it read.
JobOK(i, job, r) ==
  /\ \A g \in job.borrows : g \in DOMAIN r.slots /\ r.slots[g].physical
  /\ (job.pc \in {"waiting", "calling"} /\ job.task.kind = "grant"
        /\ job.task.phase = "running")
       => i \in DOMAIN r.slots /\ r.slots[i].running
  /\ job.pc \in {"waiting", "calling"} => job.result # "ok"
  /\ (job.task.kind = "context" /\ job.result = "ok")
       => job.task.checked = job.task.got

JobsOK(w, r) == \A i \in DOMAIN w.jobs : JobOK(i, w.jobs[i], r)

Core(s) ==
  /\ s = [w |-> s.w, r |-> s.r, b |-> s.b]
  /\ WorkerOK(s.w)
  /\ RegistryOK(s.r)
  /\ BrowserOK(s.b)
  /\ JobsOK(s.w, s.r)

LiveSet(w) == {i \in DOMAIN w.jobs : Live(w.jobs[i])}

Fields == {"granting", "reading", "preparing", "repository"}

\* The requests the browser waits for in some of its fields.
IdsOf(b, K) ==
  {i \in Nat :
     \/ "granting" \in K /\ i = b.granting
     \/ "reading" \in K /\ b.reading # Nil /\ i = b.reading.id
     \/ "preparing" \in K /\ b.preparing # Nil /\ i = b.preparing.id
     \/ "repository" \in K /\ i = b.repository}

\* Every field waits for a job of its own kind, so no two for the same one.
KindsOK(w, b) ==
  /\ b.granting # Nil => w.jobs[b.granting].task.kind = "grant"
  /\ b.reading # Nil => w.jobs[b.reading.id].task.kind = "read"
  /\ b.preparing # Nil => w.jobs[b.preparing.id].task.kind = "context"
  /\ b.repository # Nil => w.jobs[b.repository].task.kind = "repository"

PendingOK(w, b) == LiveSet(w) = IdsOf(b, Fields) /\ KindsOK(w, b)

\* The registry follows the browser's session.
ScopeOK(r, b) ==
  /\ r.closed = b.closed
  /\ r.lastEpoch = b.epoch
  /\ b.session = Nil => r.scope = NoScope
  /\ b.session # Nil =>
       /\ r.scope = [session |-> b.session, epoch |-> b.epoch]
       /\ b.epoch > 0
       /\ ~b.closed

\* The active grants are those of the listed folders; any other grant that is
\* not retired is the pending one.
ActiveOK(r, b) ==
  /\ \A g \in DOMAIN r.slots : ~r.slots[g].retired =>
       g = b.granting \/ r.slots[g].active
  /\ \A g \in DOMAIN r.slots : r.slots[g].active =>
       /\ g # b.granting
       /\ r.slots[g].session = b.session
       /\ r.slots[g].epoch = b.epoch
       /\ r.slots[g].root \in DOMAIN b.folders
       /\ b.folders[r.slots[g].root] = g
  /\ \A root \in DOMAIN b.folders :
       /\ b.folders[root] \in DOMAIN r.slots
       /\ r.slots[b.folders[root]].active
       /\ r.slots[b.folders[root]].root = root

ShownOK(b) ==
  \A shown \in {b.listing, b.preview} \ {Nil} :
    shown.root \in DOMAIN b.folders /\ b.folders[shown.root] = shown.generation

SelectedOK(b, selection) ==
  \A source \in selection : source.root \in DOMAIN b.folders

ContextOK(w, r, b) ==
  b.preparing # Nil =>
    /\ \A g \in w.jobs[b.preparing.id].task.checked :
         g \in DOMAIN r.slots /\ r.slots[g].active
    /\ ~b.preparing.recovery =>
         /\ w.jobs[b.preparing.id].task.sources = b.selection
         /\ b.preparing.revision = b.revision
         /\ b.reading # Nil => b.reading.purpose # "selection"

\* Everything but that the selection is of listed folders, which a handler
\* that removes a folder restores last.
OkBut(s) ==
  /\ Core(s)
  /\ PendingOK(s.w, s.b)
  /\ ScopeOK(s.r, s.b)
  /\ ActiveOK(s.r, s.b)
  /\ ShownOK(s.b)
  /\ ContextOK(s.w, s.r, s.b)

Ok(s) == OkBut(s) /\ SelectedOK(s.b, s.b.selection)

LocalInv == Ok(Here)
-----------------------------------------------------------------------------
(* The worker's operations. *)

\* A job before and after its owner may have lost interest in it.
EndsJob(j, k, gone) ==
  /\ k.task = j.task
  /\ k.pc = j.pc
  /\ k.borrows \subseteq j.borrows
  /\ k.result \in {j.result, Nil}
  /\ Live(k) <=> Live(j) /\ ~gone

\* The jobs in `gone' are no longer live, and no other one changes or
\* disappears while it is.
Ends(w, v, gone) ==
  /\ WorkerOK(v)
  /\ v.lastRequest = w.lastRequest
  /\ v.lastAllocated = w.lastAllocated
  /\ DOMAIN v.jobs \subseteq DOMAIN w.jobs
  /\ \A i \in DOMAIN w.jobs :
       Live(w.jobs[i]) /\ i \notin gone => i \in DOMAIN v.jobs
  /\ \A i \in DOMAIN v.jobs : EndsJob(w.jobs[i], v.jobs[i], i \in gone)

\* Ends composes.
LEMMA EndsTransitive ==
  ASSUME NEW w, NEW v, NEW u, NEW A, NEW B, Ends(w, v, A), Ends(v, u, B)
  PROVE  Ends(w, u, A \cup B)
<1>1. ASSUME NEW i \in DOMAIN u.jobs
      PROVE  EndsJob(w.jobs[i], u.jobs[i], i \in A \cup B)
  <2>1. i \in DOMAIN v.jobs BY DEF Ends
  <2>2. EndsJob(w.jobs[i], v.jobs[i], i \in A) BY <2>1 DEF Ends
  <2>3. EndsJob(v.jobs[i], u.jobs[i], i \in B) BY DEF Ends
  <2> QED BY <2>2, <2>3 DEF EndsJob
<1>2. ASSUME NEW i \in DOMAIN w.jobs, Live(w.jobs[i]), i \notin A \cup B
      PROVE  i \in DOMAIN u.jobs
  <2>1. i \in DOMAIN v.jobs BY <1>2 DEF Ends
  <2>2. EndsJob(w.jobs[i], v.jobs[i], i \in A) BY <2>1 DEF Ends
  <2>3. Live(v.jobs[i]) BY <2>2, <1>2 DEF EndsJob
  <2> QED BY <2>1, <2>3, <1>2 DEF Ends
<1> QED BY <1>1, <1>2 DEF Ends

\* A worker left alone ends nothing.
LEMMA EndsUnchanged ==
  ASSUME NEW w, WorkerOK(w)
  PROVE  Ends(w, w, {})
BY DEF Ends, EndsJob

\* Marking jobs, one at a time, ends the ones that are marked.
LEMMA EndsMarked ==
  ASSUME NEW w, WorkerOK(w), NEW f \in [DOMAIN w.jobs -> Job], NEW gone,
         \A i \in DOMAIN w.jobs : EndsJob(w.jobs[i], f[i], i \in gone)
  PROVE  Ends(w, [w EXCEPT !.jobs = f], gone)
<1> DEFINE v == [w EXCEPT !.jobs = f]
<1>1. /\ v = [jobs |-> f, lastRequest |-> w.lastRequest, lastAllocated |-> w.lastAllocated]
      /\ v.jobs = f /\ v.lastRequest = w.lastRequest /\ v.lastAllocated = w.lastAllocated
  BY DEF WorkerOK
<1> HIDE DEF v
<1>2. DOMAIN f = DOMAIN w.jobs OBVIOUS
<1>3. WorkerOK(v) BY <1>1, <1>2 DEF WorkerOK
<1>4. Ends(w, v, gone) BY <1>1, <1>2, <1>3 DEF Ends
<1> QED BY <1>4 DEF v

\* Reap removes retired jobs only, none of them live.
LEMMA EndsReap ==
  ASSUME NEW w, WorkerOK(w)
  PROVE  Ends(w, Reap(w), {})
<1> DEFINE D == {i \in DOMAIN w.jobs : ~Retired(w.jobs[i])}
           f == [i \in D |-> w.jobs[i]]
           v == Reap(w)
<1>1. v = [w EXCEPT !.jobs = f] BY DEF Reap, Restrict
<1>2. /\ v = [jobs |-> f, lastRequest |-> w.lastRequest, lastAllocated |-> w.lastAllocated]
      /\ v.jobs = f /\ v.lastRequest = w.lastRequest /\ v.lastAllocated = w.lastAllocated
  BY <1>1 DEF WorkerOK
<1>3. D \subseteq DOMAIN w.jobs OBVIOUS
<1>4. \A i \in DOMAIN w.jobs : Live(w.jobs[i]) => i \in D
  BY DEF Live, Retired
<1> HIDE DEF v, D
<1>5. DOMAIN f = D /\ f \in [D -> Job] /\ \A i \in D : f[i] = w.jobs[i]
  BY <1>3 DEF WorkerOK
<1> HIDE DEF f
<1>6. WorkerOK(v) BY <1>2, <1>3, <1>5 DEF WorkerOK
<1>7. Ends(w, v, {}) BY <1>2, <1>3, <1>4, <1>5, <1>6 DEF Ends, EndsJob
<1> QED BY <1>7 DEF v

\* Marking some jobs and reaping.
LEMMA EndsMarkedReap ==
  ASSUME NEW w, WorkerOK(w), NEW f \in [DOMAIN w.jobs -> Job], NEW gone,
         \A i \in DOMAIN w.jobs : EndsJob(w.jobs[i], f[i], i \in gone)
  PROVE  Ends(w, Reap([w EXCEPT !.jobs = f]), gone)
<1> DEFINE v == [w EXCEPT !.jobs = f]
<1>1. Ends(w, v, gone) BY EndsMarked
<1> HIDE DEF v
<1>2. WorkerOK(v) BY <1>1 DEF Ends
<1>3. Ends(v, Reap(v), {}) BY <1>2, EndsReap
<1>4. Ends(w, Reap(v), gone \cup {}) BY <1>1, <1>3, EndsTransitive
<1>5. gone \cup {} = gone OBVIOUS
<1> QED BY <1>4, <1>5 DEF v

\* What a discard does to a job.
LEMMA DiscardedJob ==
  ASSUME NEW j \in Job
  PROVE  /\ [j EXCEPT !.discarded = TRUE] \in Job
         /\ EndsJob(j, [j EXCEPT !.discarded = TRUE], TRUE)
         /\ EndsJob(j, j, FALSE)
BY DEF Job, EndsJob, Live

\* Discarding a set of jobs.
LEMMA EndsDiscarded ==
  ASSUME NEW w, WorkerOK(w), NEW gone, NEW f,
         f = [i \in DOMAIN w.jobs |->
                IF i \in gone THEN [w.jobs[i] EXCEPT !.discarded = TRUE] ELSE w.jobs[i]]
  PROVE  Ends(w, Reap([w EXCEPT !.jobs = f]), gone)
<1>1. ASSUME NEW i \in DOMAIN w.jobs
      PROVE  f[i] \in Job /\ EndsJob(w.jobs[i], f[i], i \in gone)
  <2>1. w.jobs[i] \in Job BY DEF WorkerOK
  <2>2. CASE i \in gone
    <3>1. f[i] = [w.jobs[i] EXCEPT !.discarded = TRUE] BY <2>2
    <3>2. (i \in gone) = TRUE BY <2>2
    <3> QED BY <2>1, <3>1, <3>2, DiscardedJob
  <2>3. CASE i \notin gone
    <3>1. f[i] = w.jobs[i] BY <2>3
    <3>2. (i \in gone) = FALSE BY <2>3
    <3> QED BY <2>1, <3>1, <3>2, DiscardedJob
  <2> QED BY <2>2, <2>3
<1>2. f \in [DOMAIN w.jobs -> Job] BY <1>1
<1> QED BY <1>1, <1>2, EndsMarkedReap

\* cancel ends one job.
LEMMA EndsCancel ==
  ASSUME NEW w, WorkerOK(w), NEW i
  PROVE  Ends(w, Cancel(w, i), {i})
<1>1. CASE Known(w, i)
  <2> DEFINE f == [j \in DOMAIN w.jobs |->
                IF j \in {i} THEN [w.jobs[j] EXCEPT !.discarded = TRUE] ELSE w.jobs[j]]
  <2>1. Discard(w, i) = [w EXCEPT !.jobs = f]
    <3>1. [w.jobs EXCEPT ![i].discarded = TRUE] = f BY <1>1 DEF Known, WorkerOK
    <3> QED BY <3>1 DEF Discard, WorkerOK
  <2>2. Ends(w, Reap([w EXCEPT !.jobs = f]), {i}) BY EndsDiscarded
  <2> QED BY <1>1, <2>1, <2>2 DEF Cancel
<1>2. CASE ~Known(w, i)
  <2>1. Cancel(w, i) = w BY <1>2 DEF Cancel
  <2>2. i \notin DOMAIN w.jobs BY <1>2 DEF Known
  <2> QED BY <2>1, <2>2 DEF Ends, EndsJob
<1> QED BY <1>1, <1>2

\* The destructor ends every job.
LEMMA EndsCancelAll ==
  ASSUME NEW w, WorkerOK(w), NEW gone
  PROVE  Ends(w, CancelAll(w, gone), gone)
<1>1. CASE gone \cap DOMAIN w.jobs = {}
  <2>1. CancelAll(w, gone) = w BY <1>1 DEF CancelAll
  <2> QED BY <1>1, <2>1 DEF Ends, EndsJob
<1>2. CASE gone \cap DOMAIN w.jobs # {}
  <2> DEFINE f == [i \in DOMAIN w.jobs |->
            IF i \in gone THEN [w.jobs[i] EXCEPT !.discarded = TRUE] ELSE w.jobs[i]]
  <2>1. CancelAll(w, gone) = Reap([w EXCEPT !.jobs = f]) BY <1>2 DEF CancelAll
  <2> QED BY <2>1, EndsDiscarded
<1> QED BY <1>1, <1>2

\* invalidate_session ends the jobs of its session.
LEMMA EndsInvalidateSession ==
  ASSUME NEW w, WorkerOK(w), NEW session
  PROVE  \E gone : Ends(w, InvalidateSession(w, session), gone)
<1> DEFINE gone == {i \in DOMAIN w.jobs : w.jobs[i].session = session}
           f == [i \in DOMAIN w.jobs |->
            IF i \in gone THEN [w.jobs[i] EXCEPT !.discarded = TRUE] ELSE w.jobs[i]]
           h == [i \in DOMAIN w.jobs |->
            IF w.jobs[i].session = session THEN [w.jobs[i] EXCEPT !.discarded = TRUE]
            ELSE w.jobs[i]]
<1>1. f = h OBVIOUS
<1>2. InvalidateSession(w, session) = Reap([w EXCEPT !.jobs = h]) BY DEF InvalidateSession
<1> HIDE DEF gone
<1>3. Ends(w, Reap([w EXCEPT !.jobs = f]), gone) BY EndsDiscarded
<1> QED BY <1>1, <1>2, <1>3

\* A delivered job is consumed, and only then.
LEMMA EndsPoll ==
  ASSUME NEW w, WorkerOK(w), NEW i
  PROVE  /\ PollStatus(w, i) = "delivered" => Ends(w, Poll(w, i, FALSE), {i})
         /\ PollStatus(w, i) # "delivered" => Ends(w, Poll(w, i, FALSE), {})
<1>1. CASE PollStatus(w, i) = "delivered"
  <2>1. i \in DOMAIN w.jobs BY <1>1 DEF PollStatus, Known
  <2> DEFINE k == [w.jobs[i] EXCEPT !.consumed = TRUE, !.result = Nil, !.borrows = {}]
             f == [w.jobs EXCEPT ![i] = k]
  <2>2. Poll(w, i, FALSE) = Reap([w EXCEPT !.jobs = f])
    BY <1>1, <2>1 DEF Poll, WorkerOK
  <2>3. w.jobs[i] \in Job BY <2>1 DEF WorkerOK
  <2>4. k \in Job /\ EndsJob(w.jobs[i], k, TRUE) BY <2>3 DEF Job, EndsJob, Live
  <2> HIDE DEF k
  <2>5. f \in [DOMAIN w.jobs -> Job] BY <2>4 DEF WorkerOK
  <2>6. ASSUME NEW j \in DOMAIN w.jobs
        PROVE  EndsJob(w.jobs[j], f[j], j \in {i})
    <3>1. CASE j = i
      <4>1. f[j] = k /\ (j \in {i}) = TRUE BY <2>1, <3>1 DEF WorkerOK
      <4> QED BY <3>1, <4>1, <2>4
    <3>2. CASE j # i
      <4>1. f[j] = w.jobs[j] /\ (j \in {i}) = FALSE BY <3>2 DEF WorkerOK
      <4>2. w.jobs[j] \in Job BY DEF WorkerOK
      <4> QED BY <4>1, <4>2, DiscardedJob
    <3> QED BY <3>1, <3>2
  <2> HIDE DEF f
  <2>7. Ends(w, Reap([w EXCEPT !.jobs = f]), {i}) BY <2>5, <2>6, EndsMarkedReap
  <2> QED BY <1>1, <2>2, <2>7
<1>2. CASE PollStatus(w, i) # "delivered"
  BY <1>2, EndsReap DEF Poll
<1> QED BY <1>1, <1>2
\* One more job, on top of a reaped table.
Adds(w, v, id, x) ==
  /\ WorkerOK(v)
  /\ x \in Job
  /\ id \notin DOMAIN w.jobs
  /\ id \in DOMAIN v.jobs
  /\ v.jobs[id] = x
  /\ DOMAIN v.jobs \subseteq DOMAIN w.jobs \cup {id}
  /\ \A i \in DOMAIN w.jobs : Live(w.jobs[i]) => i \in DOMAIN v.jobs
  /\ \A i \in DOMAIN v.jobs \ {id} : EndsJob(w.jobs[i], v.jobs[i], FALSE)

\* What a job is when its threads could not be started.
NotStarted(x, job) ==
  x.discarded /\ x.pc = "done" /\ x.borrows = {} /\ x.task = job.task /\ x.result = job.result

Submitted(w, v, id, job, launch) ==
  /\ Admission(w, id) = "launched" /\ launch = "started" => Adds(w, v, id, job)
  /\ Admission(w, id) = "launched" /\ launch # "started" =>
       \E x : Adds(w, v, id, x) /\ NotStarted(x, job)
  /\ Admission(w, id) # "launched" => Ends(w, v, {})

\* What submit and launch come to.
LEMMA SubmitEffect ==
  ASSUME NEW w, WorkerOK(w), NEW id \in Nat, id > w.lastRequest, NEW job \in Job, NEW launch
  PROVE  Submitted(w, Submit(w, id, job, launch), id, job, launch)
<1> DEFINE u == Reap(w)
           v == Submit(w, id, job, launch)
           x == IF launch = "started" THEN job
                ELSE [job EXCEPT !.discarded = TRUE, !.pc = "done", !.borrows = {},
                                 !.relayDone = (launch = "no_relay")]
           f == [j \in DOMAIN u.jobs \cup {id} |-> IF j = id THEN x ELSE u.jobs[j]]
<1>1. Ends(w, u, {}) BY EndsReap
<1>2. Admission(w, id) \in {"busy", "launched"}
  BY DEF Admission, WorkerOK
<1>3. CASE Admission(w, id) = "busy"
  <2>1. v = u BY <1>3 DEF Submit
  <2> HIDE DEF u, v
  <2> QED BY <1>1, <1>3, <2>1 DEF Submitted, v
<1>4. CASE Admission(w, id) = "launched"
  <2>1. v = [u EXCEPT !.jobs = f, !.lastRequest = id] BY <1>4 DEF Submit
  <2> HIDE DEF u, v
  <2>2. WorkerOK(u) /\ DOMAIN u.jobs \subseteq DOMAIN w.jobs BY <1>1 DEF Ends
  <2>3. u = [jobs |-> u.jobs, lastRequest |-> u.lastRequest, lastAllocated |-> u.lastAllocated]
        /\ u.lastAllocated \in Nat
    BY <2>2 DEF WorkerOK
  <2>4. /\ v = [jobs |-> f, lastRequest |-> id, lastAllocated |-> u.lastAllocated]
        /\ v.jobs = f /\ v.lastRequest = id /\ v.lastAllocated = u.lastAllocated
    <3> HIDE DEF f
    <3> QED BY <2>1, <2>3
  <2>5. id \notin DOMAIN w.jobs BY DEF WorkerOK
  <2>6. x \in Job BY DEF Job
  <2>7. launch = "started" => x = job OBVIOUS
  <2>8. launch # "started" => NotStarted(x, job) BY DEF NotStarted, Job
  <2> HIDE DEF x
  <2>9. /\ DOMAIN f = DOMAIN u.jobs \cup {id}
        /\ f[id] = x
        /\ \A j \in DOMAIN u.jobs : f[j] = u.jobs[j]
    BY <2>2, <2>5
  <2>10. f \in [DOMAIN f -> Job] BY <2>6, <2>9, <2>2 DEF WorkerOK
  <2> HIDE DEF f
  <2>11. \A j \in DOMAIN f : j \in Nat /\ j <= id
    BY <2>9, <2>2, <1>1 DEF WorkerOK, Ends
  <2>12. WorkerOK(v) BY <2>4, <2>3, <2>10, <2>11 DEF WorkerOK
  <2>13. \A i \in DOMAIN w.jobs : Live(w.jobs[i]) => i \in DOMAIN u.jobs
    BY <1>1 DEF Ends
  <2>14. \A i \in DOMAIN u.jobs : EndsJob(w.jobs[i], u.jobs[i], FALSE)
    <3> TAKE i \in DOMAIN u.jobs
    <3>1. EndsJob(w.jobs[i], u.jobs[i], i \in {}) BY <1>1 DEF Ends
    <3> QED BY <3>1 DEF EndsJob
  <2>15. Adds(w, v, id, x)
    BY <2>4, <2>5, <2>6, <2>9, <2>12, <2>13, <2>14, <2>2 DEF Adds
  <2> QED BY <2>15, <2>7, <2>8, <1>4 DEF Submitted, v
<1> QED BY <1>2, <1>3, <1>4

-----------------------------------------------------------------------------
(* The registry's operations. *)

\* Whatever somebody may hold or be making stays.
LeasesKept(r, q) ==
  \A g \in DOMAIN r.slots :
    /\ r.slots[g].physical => g \in DOMAIN q.slots /\ q.slots[g].physical
    /\ r.slots[g].running => g \in DOMAIN q.slots /\ q.slots[g].running

\* No active grant is touched, and no grant comes back.
RegStep(r, q) ==
  /\ q.scope = r.scope
  /\ q.lastEpoch = r.lastEpoch
  /\ q.closed = r.closed
  /\ DOMAIN q.slots \subseteq DOMAIN r.slots
  /\ \A g \in DOMAIN r.slots : r.slots[g].active =>
       g \in DOMAIN q.slots /\ q.slots[g] = r.slots[g]
  /\ \A g \in DOMAIN q.slots :
       /\ q.slots[g].active => r.slots[g].active
       /\ r.slots[g].retired => q.slots[g].retired

Retires(r, q, gs) ==
  /\ RegistryOK(q)
  /\ LeasesKept(r, q)
  /\ q.scope = r.scope
  /\ q.lastEpoch = r.lastEpoch
  /\ q.lastRequest = r.lastRequest
  /\ q.closed = r.closed
  /\ DOMAIN q.slots = DOMAIN r.slots
  /\ \A g \in DOMAIN r.slots : g \in gs => q.slots[g].retired /\ ~q.slots[g].active
  /\ \A g \in DOMAIN r.slots : g \notin gs => q.slots[g] = r.slots[g]

\* What retire does to a slot.
LEMMA RetiredSlot ==
  ASSUME NEW x \in Slot, SlotOK(x)
  PROVE  /\ RetiredRecord(x) \in Slot
         /\ SlotOK(RetiredRecord(x))
         /\ RetiredRecord(x).retired
         /\ ~RetiredRecord(x).active
         /\ RetiredRecord(x).physical = x.physical
         /\ RetiredRecord(x).running = x.running
         /\ RetiredRecord(x).destroying = x.destroying
         /\ RetiredRecord(x).root = x.root
BY DEF RetiredRecord, Slot, SlotOK

\* retire keeps every lease and marks the slots it is given.
LEMMA RetireEffect ==
  ASSUME NEW r, RegistryOK(r), NEW gs
  PROVE  Retires(r, Retire(r, gs), gs)
<1> DEFINE f == [g \in DOMAIN r.slots |->
                   IF g \in gs THEN RetiredRecord(r.slots[g]) ELSE r.slots[g]]
           q == Retire(r, gs)
<1>1. /\ q = [slots |-> f, scope |-> r.scope, lastEpoch |-> r.lastEpoch,
              lastRequest |-> r.lastRequest, closed |-> r.closed]
      /\ q.slots = f /\ q.scope = r.scope /\ q.lastEpoch = r.lastEpoch
      /\ q.lastRequest = r.lastRequest /\ q.closed = r.closed
  <2>1. q = [r EXCEPT !.slots = f] BY DEF Retire
  <2> HIDE DEF f, q
  <2> QED BY <2>1 DEF RegistryOK
<1> HIDE DEF q
<1>2. ASSUME NEW g \in DOMAIN r.slots
      PROVE  /\ f[g] \in Slot /\ SlotOK(f[g])
             /\ g \in gs => f[g].retired /\ ~f[g].active
             /\ g \notin gs => f[g] = r.slots[g]
             /\ f[g].physical = r.slots[g].physical
             /\ f[g].running = r.slots[g].running
  <2>1. r.slots[g] \in Slot /\ SlotOK(r.slots[g]) BY DEF RegistryOK
  <2>2. CASE g \in gs BY <2>1, <2>2, RetiredSlot
  <2>3. CASE g \notin gs BY <2>1, <2>3
  <2> QED BY <2>2, <2>3
<1>3. DOMAIN f = DOMAIN r.slots /\ f \in [DOMAIN r.slots -> Slot] BY <1>2
<1> HIDE DEF f
<1>4. RegistryOK(q) BY <1>1, <1>2, <1>3 DEF RegistryOK
<1>5. LeasesKept(r, q) BY <1>1, <1>2, <1>3 DEF LeasesKept
<1>6. Retires(r, q, gs) BY <1>1, <1>2, <1>3, <1>4, <1>5 DEF Retires
<1> QED BY <1>6 DEF q

\* Retiring slots that are not active touches no active grant.
LEMMA RetireIsStep ==
  ASSUME NEW r, NEW q, NEW gs, RegistryOK(r), Retires(r, q, gs),
         \A g \in DOMAIN r.slots : g \in gs => ~r.slots[g].active
  PROVE  RegStep(r, q)
BY DEF Retires, RegStep

\* Jobs that end and leases that are kept leave every job in order.
LEMMA JobsKept ==
  ASSUME NEW w, NEW v, NEW gone, NEW r, NEW q, WorkerOK(w), Ends(w, v, gone),
         LeasesKept(r, q), JobsOK(w, r)
  PROVE  JobsOK(v, q)
<1> SUFFICES ASSUME NEW i \in DOMAIN v.jobs PROVE JobOK(i, v.jobs[i], q)
  BY DEF JobsOK
<1>1. i \in DOMAIN w.jobs /\ EndsJob(w.jobs[i], v.jobs[i], i \in gone) BY DEF Ends
<1>2. JobOK(i, w.jobs[i], r) BY <1>1 DEF JobsOK
<1>3. Nil # "ok" BY BrowserAssumption
<1> QED BY <1>1, <1>2, <1>3 DEF JobOK, EndsJob, LeasesKept

\* Retires composes.
LEMMA RetiresTransitive ==
  ASSUME NEW r, NEW q, NEW p, NEW A, NEW B, Retires(r, q, A), Retires(q, p, B)
  PROVE  Retires(r, p, A \cup B)
<1>1. LeasesKept(r, p) BY DEF Retires, LeasesKept
<1>2. ASSUME NEW g \in DOMAIN r.slots, g \in A \cup B
      PROVE  p.slots[g].retired /\ ~p.slots[g].active
  BY <1>2 DEF Retires
<1>3. ASSUME NEW g \in DOMAIN r.slots, g \notin A \cup B
      PROVE  p.slots[g] = r.slots[g]
  BY <1>3 DEF Retires
<1> QED BY <1>1, <1>2, <1>3 DEF Retires

\* A registry left alone retires nothing.
LEMMA RetiresNone ==
  ASSUME NEW r, RegistryOK(r)
  PROVE  Retires(r, r, {})
BY DEF Retires, LeasesKept

-----------------------------------------------------------------------------
(* Cancelling works of the browser. *)

GrantOf(b, K) == {g \in Nat : "granting" \in K /\ g = b.granting}

\* The browser forgets the works in the fields K and keeps everything else.
Forgets(b, c, K) ==
  /\ BrowserOK(c)
  /\ c.session = b.session /\ c.epoch = b.epoch /\ c.revision = b.revision
  /\ c.folders = b.folders /\ c.selection = b.selection
  /\ c.listing = b.listing /\ c.preview = b.preview /\ c.closed = b.closed
  /\ c.granting = IF "granting" \in K THEN Nil ELSE b.granting
  /\ c.reading = IF "reading" \in K THEN Nil ELSE b.reading
  /\ c.preparing = IF "preparing" \in K THEN Nil ELSE b.preparing
  /\ c.repository = IF "repository" \in K THEN Nil ELSE b.repository

\* Their jobs are cancelled and the reservation of a pending grant given up.
Drops(s, t, K) ==
  /\ Core(t)
  /\ Ends(s.w, t.w, IdsOf(s.b, K))
  /\ Retires(s.r, t.r, GrantOf(s.b, K))
  /\ Forgets(s.b, t.b, K)

\* Nil is neither an identity, a work nor an answer.
LEMMA NilIsNoId ==
  /\ Nil \notin Nat /\ Nil \notin ReadWork /\ Nil \notin ContextWork
  /\ Nil # "ok" /\ Nil # "failed"
BY BrowserAssumption

\* A state left alone drops nothing.
LEMMA DropsNothing ==
  ASSUME NEW s, Core(s)
  PROVE  Drops(s, s, {})
<1>1. IdsOf(s.b, {}) = {} BY DEF IdsOf
<1>2. GrantOf(s.b, {}) = {} BY DEF GrantOf
<1>3. Forgets(s.b, s.b, {}) BY DEF Forgets, Core
<1>4. Ends(s.w, s.w, {}) BY EndsUnchanged DEF Core
<1>5. Retires(s.r, s.r, {}) BY RetiresNone DEF Core
<1> QED BY <1>1, <1>2, <1>3, <1>4, <1>5 DEF Drops

\* Drops composes.
LEMMA DropsTransitive ==
  ASSUME NEW s, NEW t, NEW u, NEW K, NEW L, Drops(s, t, K), Drops(t, u, L)
  PROVE  Drops(s, u, K \cup L)
<1>1. IdsOf(s.b, K) \cup IdsOf(t.b, L) = IdsOf(s.b, K \cup L)
  BY NilIsNoId DEF IdsOf, Drops, Forgets
<1>2. GrantOf(s.b, K) \cup GrantOf(t.b, L) = GrantOf(s.b, K \cup L)
  BY NilIsNoId DEF GrantOf, Drops, Forgets
<1>3. Ends(s.w, u.w, IdsOf(s.b, K \cup L)) BY <1>1, EndsTransitive DEF Drops
<1>4. Retires(s.r, u.r, GrantOf(s.b, K \cup L)) BY <1>2, RetiresTransitive DEF Drops
<1>5. Forgets(s.b, u.b, K \cup L) BY DEF Drops, Forgets
<1> QED BY <1>3, <1>4, <1>5 DEF Drops

\* cancel_read drops the read.
LEMMA CancelReadEffect ==
  ASSUME NEW s, Core(s)
  PROVE  Drops(s, CancelRead(s), {"reading"})
<1>1. CASE s.b.reading = Nil
  <2>1. CancelRead(s) = s BY <1>1 DEF CancelRead
  <2>2. IdsOf(s.b, {"reading"}) = {} BY <1>1 DEF IdsOf
  <2>3. GrantOf(s.b, {"reading"}) = {} BY DEF GrantOf
  <2>4. Forgets(s.b, s.b, {"reading"}) BY <1>1 DEF Forgets, Core
  <2>5. Ends(s.w, s.w, {}) BY EndsUnchanged DEF Core
  <2>6. Retires(s.r, s.r, {}) BY RetiresNone DEF Core
  <2> QED BY <2>1, <2>2, <2>3, <2>4, <2>5, <2>6 DEF Drops
<1>2. CASE s.b.reading # Nil
  <2> DEFINE id == s.b.reading.id
             v == Cancel(s.w, id)
             c == [s.b EXCEPT !.reading = Nil]
             t == CancelRead(s)
  <2>1. t = [w |-> v, r |-> s.r, b |-> c] BY <1>2 DEF CancelRead, Core
  <2>2. Ends(s.w, v, {id}) BY EndsCancel DEF Core
  <2>3. s.b.reading \in ReadWork /\ id \in Nat BY <1>2 DEF Core, BrowserOK, ReadWork
  <2>4. IdsOf(s.b, {"reading"}) = {id} BY <1>2, <2>3 DEF IdsOf
  <2>5. GrantOf(s.b, {"reading"}) = {} BY DEF GrantOf
  <2>6. Forgets(s.b, c, {"reading"})
    <3>1. BrowserOK(s.b) BY DEF Core
    <3>2. BrowserOK(c) BY <3>1 DEF BrowserOK
    <3> QED BY <3>1, <3>2 DEF Forgets, BrowserOK
  <2>7. Retires(s.r, s.r, {}) BY RetiresNone DEF Core
  <2> HIDE DEF v, c, t
  <2>8. t.w = v /\ t.r = s.r /\ t.b = c BY <2>1
  <2>9. JobsOK(v, s.r) BY <2>2, <2>7, JobsKept DEF Core, Retires
  <2>10. Core(t) BY <2>1, <2>2, <2>6, <2>8, <2>9 DEF Core, Ends, Forgets
  <2>11. Drops(s, t, {"reading"}) BY <2>2, <2>4, <2>5, <2>6, <2>7, <2>8, <2>10 DEF Drops
  <2> QED BY <2>11 DEF t
<1> QED BY <1>1, <1>2

\* cancel_context drops the preparation.
LEMMA CancelContextEffect ==
  ASSUME NEW s, Core(s)
  PROVE  Drops(s, CancelContext(s), {"preparing"})
<1>1. CASE s.b.preparing = Nil
  <2>1. CancelContext(s) = s BY <1>1 DEF CancelContext
  <2>2. IdsOf(s.b, {"preparing"}) = {} BY <1>1 DEF IdsOf
  <2>3. GrantOf(s.b, {"preparing"}) = {} BY DEF GrantOf
  <2>4. Forgets(s.b, s.b, {"preparing"}) BY <1>1 DEF Forgets, Core
  <2>5. Ends(s.w, s.w, {}) BY EndsUnchanged DEF Core
  <2>6. Retires(s.r, s.r, {}) BY RetiresNone DEF Core
  <2> QED BY <2>1, <2>2, <2>3, <2>4, <2>5, <2>6 DEF Drops
<1>2. CASE s.b.preparing # Nil
  <2> DEFINE id == s.b.preparing.id
             v == Cancel(s.w, id)
             c == [s.b EXCEPT !.preparing = Nil]
             t == CancelContext(s)
  <2>1. t = [w |-> v, r |-> s.r, b |-> c] BY <1>2 DEF CancelContext, Core
  <2>2. Ends(s.w, v, {id}) BY EndsCancel DEF Core
  <2>3. s.b.preparing \in ContextWork /\ id \in Nat
    BY <1>2 DEF Core, BrowserOK, ContextWork
  <2>4. IdsOf(s.b, {"preparing"}) = {id} BY <1>2, <2>3 DEF IdsOf
  <2>5. GrantOf(s.b, {"preparing"}) = {} BY DEF GrantOf
  <2>6. Forgets(s.b, c, {"preparing"})
    <3>1. BrowserOK(s.b) BY DEF Core
    <3>2. BrowserOK(c) BY <3>1 DEF BrowserOK
    <3> QED BY <3>1, <3>2 DEF Forgets, BrowserOK
  <2>7. Retires(s.r, s.r, {}) BY RetiresNone DEF Core
  <2> HIDE DEF v, c, t
  <2>8. t.w = v /\ t.r = s.r /\ t.b = c BY <2>1
  <2>9. JobsOK(v, s.r) BY <2>2, <2>7, JobsKept DEF Core, Retires
  <2>10. Core(t) BY <2>1, <2>2, <2>6, <2>8, <2>9 DEF Core, Ends, Forgets
  <2>11. Drops(s, t, {"preparing"}) BY <2>2, <2>4, <2>5, <2>6, <2>7, <2>8, <2>10 DEF Drops
  <2> QED BY <2>11 DEF t
<1> QED BY <1>1, <1>2

\* cancel_repository drops the repository work.
LEMMA CancelRepositoryEffect ==
  ASSUME NEW s, Core(s)
  PROVE  Drops(s, CancelRepository(s), {"repository"})
<1>1. CASE s.b.repository = Nil
  <2>1. CancelRepository(s) = s BY <1>1 DEF CancelRepository
  <2>2. IdsOf(s.b, {"repository"}) = {} BY <1>1, NilIsNoId DEF IdsOf
  <2>3. GrantOf(s.b, {"repository"}) = {} BY DEF GrantOf
  <2>4. Forgets(s.b, s.b, {"repository"}) BY <1>1 DEF Forgets, Core
  <2>5. Ends(s.w, s.w, {}) BY EndsUnchanged DEF Core
  <2>6. Retires(s.r, s.r, {}) BY RetiresNone DEF Core
  <2> QED BY <2>1, <2>2, <2>3, <2>4, <2>5, <2>6 DEF Drops
<1>2. CASE s.b.repository # Nil
  <2> DEFINE id == s.b.repository
             v == Cancel(s.w, id)
             c == [s.b EXCEPT !.repository = Nil]
             t == CancelRepository(s)
  <2>1. t = [w |-> v, r |-> s.r, b |-> c] BY <1>2 DEF CancelRepository, Core
  <2>2. Ends(s.w, v, {id}) BY EndsCancel DEF Core
  <2>3. id \in Nat BY <1>2 DEF Core, BrowserOK
  <2>4. IdsOf(s.b, {"repository"}) = {id} BY <1>2, <2>3 DEF IdsOf
  <2>5. GrantOf(s.b, {"repository"}) = {} BY DEF GrantOf
  <2>6. Forgets(s.b, c, {"repository"})
    <3>1. BrowserOK(s.b) BY DEF Core
    <3>2. BrowserOK(c) BY <3>1 DEF BrowserOK
    <3> QED BY <3>1, <3>2 DEF Forgets, BrowserOK
  <2>7. Retires(s.r, s.r, {}) BY RetiresNone DEF Core
  <2> HIDE DEF v, c, t
  <2>8. t.w = v /\ t.r = s.r /\ t.b = c BY <2>1
  <2>9. JobsOK(v, s.r) BY <2>2, <2>7, JobsKept DEF Core, Retires
  <2>10. Core(t) BY <2>1, <2>2, <2>6, <2>8, <2>9 DEF Core, Ends, Forgets
  <2>11. Drops(s, t, {"repository"}) BY <2>2, <2>4, <2>5, <2>6, <2>7, <2>8, <2>10 DEF Drops
  <2> QED BY <2>11 DEF t
<1> QED BY <1>1, <1>2

\* The first half of CancelBrowsing.
GiveUpGrant(s) ==
  IF s.b.granting = Nil THEN s
  ELSE [s EXCEPT !.w = Cancel(@, s.b.granting),
                 !.r = Retire(@, {s.b.granting}),
                 !.b.granting = Nil]

\* Giving up the reservation drops the grant.
LEMMA GiveUpGrantEffect ==
  ASSUME NEW s, Core(s)
  PROVE  Drops(s, GiveUpGrant(s), {"granting"})
<1>1. CASE s.b.granting = Nil
  <2>1. GiveUpGrant(s) = s BY <1>1 DEF GiveUpGrant
  <2>2. IdsOf(s.b, {"granting"}) = {} BY <1>1, NilIsNoId DEF IdsOf
  <2>3. GrantOf(s.b, {"granting"}) = {} BY <1>1, NilIsNoId DEF GrantOf
  <2>4. Forgets(s.b, s.b, {"granting"}) BY <1>1 DEF Forgets, Core
  <2>5. Ends(s.w, s.w, {}) BY EndsUnchanged DEF Core
  <2>6. Retires(s.r, s.r, {}) BY RetiresNone DEF Core
  <2> QED BY <2>1, <2>2, <2>3, <2>4, <2>5, <2>6 DEF Drops
<1>2. CASE s.b.granting # Nil
  <2> DEFINE id == s.b.granting
             v == Cancel(s.w, id)
             q == Retire(s.r, {id})
             c == [s.b EXCEPT !.granting = Nil]
             t == GiveUpGrant(s)
  <2>1. t = [w |-> v, r |-> q, b |-> c] BY <1>2 DEF GiveUpGrant, Core
  <2>2. Ends(s.w, v, {id}) BY EndsCancel DEF Core
  <2>3. id \in Nat BY <1>2 DEF Core, BrowserOK
  <2>4. IdsOf(s.b, {"granting"}) = {id} BY <1>2, <2>3 DEF IdsOf
  <2>5. GrantOf(s.b, {"granting"}) = {id} BY <2>3 DEF GrantOf
  <2>6. Forgets(s.b, c, {"granting"})
    <3>1. BrowserOK(s.b) BY DEF Core
    <3>2. BrowserOK(c) BY <3>1 DEF BrowserOK
    <3> QED BY <3>1, <3>2 DEF Forgets, BrowserOK
  <2>7. Retires(s.r, q, {id}) BY RetireEffect DEF Core
  <2> HIDE DEF v, c, t, q
  <2>8. t.w = v /\ t.r = q /\ t.b = c BY <2>1
  <2>9. JobsOK(v, q) BY <2>2, <2>7, JobsKept DEF Core, Retires
  <2>10. Core(t) BY <2>1, <2>2, <2>6, <2>7, <2>8, <2>9 DEF Core, Ends, Forgets, Retires
  <2>11. Drops(s, t, {"granting"}) BY <2>2, <2>4, <2>5, <2>6, <2>7, <2>8, <2>10 DEF Drops
  <2> QED BY <2>11 DEF t
<1> QED BY <1>1, <1>2

\* cancel_browsing drops the grant and the read.
LEMMA CancelBrowsingEffect ==
  ASSUME NEW s, Core(s)
  PROVE  Drops(s, CancelBrowsing(s), {"granting", "reading"})
<1> DEFINE t == GiveUpGrant(s)
<1>1. Drops(s, t, {"granting"}) BY GiveUpGrantEffect
<1>2. CancelBrowsing(s) = CancelRead(t) BY DEF CancelBrowsing, GiveUpGrant
<1> HIDE DEF t
<1>3. Drops(t, CancelRead(t), {"reading"}) BY <1>1, CancelReadEffect DEF Drops
<1>4. {"granting"} \cup {"reading"} = {"granting", "reading"} OBVIOUS
<1>5. Drops(s, CancelRead(t), {"granting"} \cup {"reading"})
  BY <1>1, <1>3, DropsTransitive
<1> QED BY <1>2, <1>4, <1>5

\* Everything the browser waits for is dropped.
LEMMA CancelEverythingEffect ==
  ASSUME NEW s, Core(s)
  PROVE  Drops(s, CancelEverything(s), Fields)
<1> DEFINE t == CancelBrowsing(s)
           u == CancelContext(t)
           A == {"granting", "reading"}
<1>1. Drops(s, t, A) BY CancelBrowsingEffect
<1>2. CancelEverything(s) = CancelRepository(u) BY DEF CancelEverything
<1>3. Drops(t, u, {"preparing"}) BY <1>1, CancelContextEffect DEF Drops
<1> HIDE DEF t, u
<1>4. Drops(u, CancelRepository(u), {"repository"})
  BY <1>3, CancelRepositoryEffect DEF Drops
<1>5. Drops(s, u, A \cup {"preparing"}) BY <1>1, <1>3, DropsTransitive
<1>6. Drops(s, CancelRepository(u), (A \cup {"preparing"}) \cup {"repository"})
  BY <1>4, <1>5, DropsTransitive
<1>7. (A \cup {"preparing"}) \cup {"repository"} = Fields BY DEF Fields
<1> QED BY <1>2, <1>6, <1>7

\* The live jobs that are left.
LEMMA EndsLive ==
  ASSUME NEW w, NEW v, NEW gone, WorkerOK(w), Ends(w, v, gone)
  PROVE  LiveSet(v) = LiveSet(w) \ gone
<1>1. ASSUME NEW i \in LiveSet(v) PROVE i \in LiveSet(w) \ gone
  BY <1>1 DEF LiveSet, Ends, EndsJob
<1>2. ASSUME NEW i \in LiveSet(w) \ gone PROVE i \in LiveSet(v)
  <2>1. i \in DOMAIN w.jobs /\ Live(w.jobs[i]) /\ i \notin gone BY <1>2 DEF LiveSet
  <2>2. i \in DOMAIN v.jobs BY <2>1 DEF Ends
  <2>3. EndsJob(w.jobs[i], v.jobs[i], i \in gone) BY <2>2 DEF Ends
  <2> QED BY <2>1, <2>2, <2>3 DEF LiveSet, EndsJob
<1> QED BY <1>1, <1>2

\* The fields wait for different jobs.
LEMMA IdsForgotten ==
  ASSUME NEW w, NEW b, NEW c, NEW K, KindsOK(w, b), Forgets(b, c, K)
  PROVE  IdsOf(c, Fields) = IdsOf(b, Fields) \ IdsOf(b, K)
<1>1. /\ "granting" \in Fields /\ "reading" \in Fields /\ "preparing" \in Fields
      /\ "repository" \in Fields
  BY DEF Fields
<1>2. ASSUME NEW i \in IdsOf(c, Fields) PROVE i \in IdsOf(b, Fields) /\ i \notin IdsOf(b, K)
  <2>1. i \in Nat /\ i # Nil BY <1>2, NilIsNoId DEF IdsOf
  <2>2. CASE i = c.granting BY <2>1, <2>2, <1>1 DEF IdsOf, Forgets, KindsOK
  <2>3. CASE c.reading # Nil /\ i = c.reading.id
    BY <2>1, <2>3, <1>1 DEF IdsOf, Forgets, KindsOK
  <2>4. CASE c.preparing # Nil /\ i = c.preparing.id
    BY <2>1, <2>4, <1>1 DEF IdsOf, Forgets, KindsOK
  <2>5. CASE i = c.repository BY <2>1, <2>5, <1>1 DEF IdsOf, Forgets, KindsOK
  <2> QED BY <1>2, <2>2, <2>3, <2>4, <2>5 DEF IdsOf
<1>3. ASSUME NEW i \in IdsOf(b, Fields), i \notin IdsOf(b, K) PROVE i \in IdsOf(c, Fields)
  BY <1>1, <1>3 DEF IdsOf, Forgets
<1> QED BY <1>2, <1>3

\* What a field waits for is among the requests waited for.
LEMMA FieldIds ==
  ASSUME NEW b, BrowserOK(b)
  PROVE  /\ b.granting # Nil => b.granting \in IdsOf(b, Fields)
         /\ b.reading # Nil => b.reading.id \in IdsOf(b, Fields)
         /\ b.preparing # Nil => b.preparing.id \in IdsOf(b, Fields)
         /\ b.repository # Nil => b.repository \in IdsOf(b, Fields)
BY DEF BrowserOK, IdsOf, Fields, ReadWork, ContextWork

\* The works and the live jobs still match.
LEMMA PendingDrops ==
  ASSUME NEW w, NEW v, NEW b, NEW c, NEW K, WorkerOK(w), PendingOK(w, b),
         Ends(w, v, IdsOf(b, K)), Forgets(b, c, K)
  PROVE  PendingOK(v, c)
<1>1. LiveSet(v) = IdsOf(c, Fields) BY EndsLive, IdsForgotten DEF PendingOK
<1>2. \A i \in IdsOf(c, Fields) : v.jobs[i].task = w.jobs[i].task
  BY <1>1 DEF LiveSet, Ends, EndsJob
<1>3. BrowserOK(c) BY DEF Forgets
<1>4. KindsOK(v, c)
  <2>1. c.granting # Nil => v.jobs[c.granting].task.kind = "grant"
    BY <1>2, <1>3, FieldIds DEF PendingOK, KindsOK, Forgets
  <2>2. c.reading # Nil => v.jobs[c.reading.id].task.kind = "read"
    BY <1>2, <1>3, FieldIds DEF PendingOK, KindsOK, Forgets
  <2>3. c.preparing # Nil => v.jobs[c.preparing.id].task.kind = "context"
    BY <1>2, <1>3, FieldIds DEF PendingOK, KindsOK, Forgets
  <2>4. c.repository # Nil => v.jobs[c.repository].task.kind = "repository"
    BY <1>2, <1>3, FieldIds DEF PendingOK, KindsOK, Forgets
  <2> QED BY <2>1, <2>2, <2>3, <2>4 DEF KindsOK
<1> QED BY <1>1, <1>4 DEF PendingOK

\* The grants and the folders still match.
LEMMA ActiveDrops ==
  ASSUME NEW r, NEW q, NEW b, NEW c, NEW K, RegistryOK(r), ActiveOK(r, b),
         Retires(r, q, GrantOf(b, K)), Forgets(b, c, K)
  PROVE  ActiveOK(q, c) /\ RegStep(r, q)
<1>1. \A g \in DOMAIN r.slots : g \in GrantOf(b, K) <=> "granting" \in K /\ g = b.granting
  BY DEF GrantOf, RegistryOK
<1>2. RegStep(r, q) BY <1>1, RetireIsStep DEF ActiveOK
<1>3. \A g \in DOMAIN q.slots : ~q.slots[g].retired => g = c.granting \/ q.slots[g].active
  BY <1>1 DEF ActiveOK, Retires, Forgets
<1>4. \A g \in DOMAIN q.slots : q.slots[g].active => r.slots[g] = q.slots[g]
  BY DEF Retires
<1>5. \A g \in DOMAIN q.slots : g # Nil BY NilIsNoId DEF Retires, RegistryOK
<1>6. \A g \in DOMAIN q.slots : q.slots[g].active =>
       /\ g # c.granting
       /\ q.slots[g].session = c.session
       /\ q.slots[g].epoch = c.epoch
       /\ q.slots[g].root \in DOMAIN c.folders
       /\ c.folders[q.slots[g].root] = g
  BY <1>4, <1>5 DEF ActiveOK, Retires, Forgets
<1>7. \A root \in DOMAIN c.folders :
       /\ c.folders[root] \in DOMAIN q.slots
       /\ q.slots[c.folders[root]].active
       /\ q.slots[c.folders[root]].root = root
  BY <1>2 DEF ActiveOK, Forgets, RegStep
<1> QED BY <1>2, <1>3, <1>6, <1>7 DEF ActiveOK

\* A preparation that is left is still current.
LEMMA ContextDrops ==
  ASSUME NEW w, NEW v, NEW r, NEW q, NEW b, NEW c, NEW K, WorkerOK(w), PendingOK(v, c),
         Ends(w, v, IdsOf(b, K)), RegStep(r, q), Forgets(b, c, K), ContextOK(w, r, b)
  PROVE  ContextOK(v, q, c)
<1> SUFFICES ASSUME c.preparing # Nil PROVE ContextOK(v, q, c)
  BY DEF ContextOK
<1> DEFINE id == c.preparing.id
<1>1. c.preparing = b.preparing BY DEF Forgets
<1>2. id \in LiveSet(v) BY FieldIds DEF PendingOK, Forgets
<1>3. v.jobs[id].task = w.jobs[id].task BY <1>2 DEF LiveSet, Ends, EndsJob
<1>4. \A g \in v.jobs[id].task.checked : g \in DOMAIN q.slots /\ q.slots[g].active
  BY <1>1, <1>3 DEF ContextOK, RegStep
<1>5. ~c.preparing.recovery =>
         /\ v.jobs[id].task.sources = c.selection
         /\ c.preparing.revision = c.revision
         /\ c.reading # Nil => c.reading.purpose # "selection"
  BY <1>1, <1>3 DEF ContextOK, Forgets
<1> QED BY <1>4, <1>5 DEF ContextOK

\* Drops keeps the invariant, with or without its selection.
LEMMA DropsKeepOk ==
  ASSUME NEW s, NEW t, NEW K, OkBut(s), Drops(s, t, K)
  PROVE  OkBut(t) /\ (SelectedOK(s.b, s.b.selection) => SelectedOK(t.b, t.b.selection))
<1>1. Core(s) /\ Core(t) /\ Forgets(s.b, t.b, K) /\ Ends(s.w, t.w, IdsOf(s.b, K))
      /\ Retires(s.r, t.r, GrantOf(s.b, K))
  BY DEF OkBut, Drops
<1>2. WorkerOK(s.w) /\ RegistryOK(s.r) BY <1>1 DEF Core
<1>3. PendingOK(t.w, t.b) BY <1>1, <1>2, PendingDrops DEF OkBut
<1>4. ScopeOK(t.r, t.b) BY <1>1 DEF OkBut, ScopeOK, Retires, Forgets
<1>5. ActiveOK(t.r, t.b) /\ RegStep(s.r, t.r) BY <1>1, <1>2, ActiveDrops DEF OkBut
<1>6. ShownOK(t.b) BY <1>1 DEF OkBut, ShownOK, Forgets
<1>7. ContextOK(t.w, t.r, t.b) BY <1>1, <1>2, <1>3, <1>5, ContextDrops DEF OkBut
<1>8. SelectedOK(s.b, s.b.selection) => SelectedOK(t.b, t.b.selection)
  BY <1>1 DEF SelectedOK, Forgets
<1> QED BY <1>1, <1>3, <1>4, <1>5, <1>6, <1>7, <1>8 DEF OkBut

\* cancel_selected_context drops a preparation of the selection and nothing else.
LEMMA CancelSelectedEffect ==
  ASSUME NEW s, Core(s)
  PROVE  \E K : /\ Drops(s, CancelSelectedContext(s), K)
                /\ K \subseteq {"preparing"}
                /\ s.b.preparing # Nil /\ ~s.b.preparing.recovery => K = {"preparing"}
<1>1. CASE s.b.preparing = Nil \/ s.b.preparing.recovery
  <2>1. CancelSelectedContext(s) = s BY <1>1 DEF CancelSelectedContext
  <2>2. Drops(s, s, {}) BY DropsNothing
  <2> QED BY <1>1, <2>1, <2>2
<1>2. CASE ~(s.b.preparing = Nil \/ s.b.preparing.recovery)
  <2>1. CancelSelectedContext(s) = CancelContext(s) BY <1>2 DEF CancelSelectedContext
  <2>2. Drops(s, CancelContext(s), {"preparing"}) BY CancelContextEffect
  <2> QED BY <2>1, <2>2
<1> QED BY <1>1, <1>2

\* After it no preparation of a selection and no read is left.
LEMMA CancelReadAndSelected ==
  ASSUME NEW s, Core(s), NEW t, t = CancelSelectedContext(CancelRead(s))
  PROVE  /\ \E K : Drops(s, t, K)
         /\ t.b.reading = Nil
         /\ t.b.preparing # Nil => t.b.preparing.recovery
<1> DEFINE u == CancelRead(s)
<1>1. Drops(s, u, {"reading"}) BY CancelReadEffect
<1> HIDE DEF u
<1>2. Core(u) BY <1>1 DEF Drops
<1>3. PICK K : /\ Drops(u, CancelSelectedContext(u), K)
               /\ K \subseteq {"preparing"}
               /\ u.b.preparing # Nil /\ ~u.b.preparing.recovery => K = {"preparing"}
  BY <1>2, CancelSelectedEffect
<1>4. t = CancelSelectedContext(u) BY DEF u
<1>5. Drops(s, t, {"reading"} \cup K) BY <1>1, <1>3, <1>4, DropsTransitive
<1>6. u.b.reading = Nil BY <1>1 DEF Drops, Forgets
<1>7. t.b.reading = Nil BY <1>3, <1>4, <1>6 DEF Drops, Forgets
<1>8. t.b.preparing # Nil => t.b.preparing.recovery
  BY <1>3, <1>4 DEF Drops, Forgets
<1> QED BY <1>5, <1>7, <1>8

\* The browser with another selection and revision.
Selects(b, c, selection) ==
  /\ BrowserOK(c)
  /\ c.session = b.session /\ c.epoch = b.epoch
  /\ c.folders = b.folders /\ c.selection = selection
  /\ c.listing = b.listing /\ c.preview = b.preview /\ c.closed = b.closed
  /\ c.granting = b.granting /\ c.reading = b.reading
  /\ c.preparing = b.preparing /\ c.repository = b.repository

\* The browser with another selection and revision, field by field.
LEMMA SelectionFields ==
  ASSUME NEW b, BrowserOK(b), NEW selection, NEW n, NEW c,
         c = [b EXCEPT !.selection = selection, !.revision = n]
  PROVE  c = [session |-> b.session, epoch |-> b.epoch, revision |-> n,
              folders |-> b.folders, selection |-> selection,
              listing |-> b.listing, preview |-> b.preview,
              granting |-> b.granting, reading |-> b.reading,
              preparing |-> b.preparing, repository |-> b.repository,
              closed |-> b.closed]
BY DEF BrowserOK

\* It is a browser.
LEMMA SelectionRecord ==
  ASSUME NEW b, BrowserOK(b), NEW selection \in SUBSET Sources, NEW n \in Nat
  PROVE  Selects(b, [b EXCEPT !.selection = selection, !.revision = n], selection)
<1> DEFINE c == [b EXCEPT !.selection = selection, !.revision = n]
<1>2. c = [session |-> b.session, epoch |-> b.epoch, revision |-> n,
           folders |-> b.folders, selection |-> selection,
           listing |-> b.listing, preview |-> b.preview,
           granting |-> b.granting, reading |-> b.reading,
           preparing |-> b.preparing, repository |-> b.repository,
           closed |-> b.closed]
  BY SelectionFields, Zenon
<1> HIDE DEF c
<1>3. /\ c.session = b.session /\ c.epoch = b.epoch
      /\ c.folders = b.folders /\ c.selection = selection
      /\ c.listing = b.listing /\ c.preview = b.preview /\ c.closed = b.closed
      /\ c.granting = b.granting /\ c.reading = b.reading
      /\ c.preparing = b.preparing /\ c.repository = b.repository
      /\ c.revision = n
  BY <1>2
<1>4. c = [session |-> c.session, epoch |-> c.epoch, revision |-> c.revision,
           folders |-> c.folders, selection |-> c.selection,
           listing |-> c.listing, preview |-> c.preview,
           granting |-> c.granting, reading |-> c.reading,
           preparing |-> c.preparing, repository |-> c.repository,
           closed |-> c.closed]
  BY <1>2, <1>3
<1>5. BrowserOK(c) BY <1>3, <1>4 DEF BrowserOK
<1>6. Selects(b, c, selection) BY <1>3, <1>5 DEF Selects
<1> QED BY <1>6 DEF c

\* selection_changed restores the invariant from all of it but the selection.
LEMMA SelectionChangedOk ==
  ASSUME NEW s, OkBut(s), NEW selection \in SUBSET Sources, SelectedOK(s.b, selection)
  PROVE  Ok(SelectionChanged(s, selection))
<1>1. CASE selection = s.b.selection
  BY <1>1 DEF SelectionChanged, Ok
<1>2. CASE selection # s.b.selection
  <2> DEFINE t == CancelSelectedContext(CancelRead(s))
             u == SelectionChanged(s, selection)
             c == [t.b EXCEPT !.selection = selection, !.revision = @ + 1]
  <2>1. Core(s) BY DEF OkBut
  <2>2. PICK K : Drops(s, t, K) BY <2>1, CancelReadAndSelected
  <2>3. t.b.reading = Nil /\ (t.b.preparing # Nil => t.b.preparing.recovery)
    BY <2>1, CancelReadAndSelected
  <2>4. u = [t EXCEPT !.b.selection = selection, !.b.revision = @ + 1]
    BY <1>2 DEF SelectionChanged
  <2> HIDE DEF t, u
  <2>5. OkBut(t) BY <2>2, DropsKeepOk
  <2>6. Core(t) BY <2>5 DEF OkBut
  <2>7. BrowserOK(t.b) BY <2>6 DEF Core
  <2>8. u = [w |-> t.w, r |-> t.r, b |-> c] BY <2>4, <2>6, <2>7 DEF Core, BrowserOK
  <2>9. Selects(t.b, c, selection)
    <3> DEFINE n == t.b.revision + 1
    <3>1. n \in Nat BY <2>7 DEF BrowserOK
    <3> HIDE DEF n
    <3>2. Selects(t.b, [t.b EXCEPT !.selection = selection, !.revision = n], selection)
      BY <2>7, <3>1, SelectionRecord
    <3> QED BY <3>2 DEF n
  <2>11. u.w = t.w /\ u.r = t.r /\ u.b = c BY <2>8
  <2> HIDE DEF c
  <2>10. /\ c.session = t.b.session /\ c.epoch = t.b.epoch
         /\ c.folders = t.b.folders /\ c.selection = selection
         /\ c.listing = t.b.listing /\ c.preview = t.b.preview /\ c.closed = t.b.closed
         /\ c.granting = t.b.granting /\ c.reading = t.b.reading
         /\ c.preparing = t.b.preparing /\ c.repository = t.b.repository
    BY <2>9 DEF Selects
  <2>12. Core(u) BY <2>6, <2>8, <2>9, <2>11 DEF Core, Selects
  <2>13. PendingOK(u.w, u.b) BY <2>5, <2>10, <2>11 DEF OkBut, PendingOK, IdsOf, KindsOK
  <2>14. ScopeOK(u.r, u.b) BY <2>5, <2>10, <2>11 DEF OkBut, ScopeOK
  <2>15. ActiveOK(u.r, u.b) BY <2>5, <2>10, <2>11 DEF OkBut, ActiveOK
  <2>16. ShownOK(u.b) BY <2>5, <2>10, <2>11 DEF OkBut, ShownOK
  <2>17. ContextOK(u.w, u.r, u.b) BY <2>3, <2>5, <2>10, <2>11 DEF OkBut, ContextOK
  <2>18. SelectedOK(u.b, u.b.selection)
    BY <2>2, <2>10, <2>11 DEF SelectedOK, Drops, Forgets
  <2> QED BY <2>12, <2>13, <2>14, <2>15, <2>16, <2>17, <2>18 DEF Ok, OkBut, u
<1> QED BY <1>1, <1>2
-----------------------------------------------------------------------------
(* Steps of the threads. *)

Parts(w, r, b) ==
  /\ WorkerOK(w)
  /\ RegistryOK(r)
  /\ BrowserOK(b)
  /\ JobsOK(w, r)
  /\ PendingOK(w, b)
  /\ ScopeOK(r, b)
  /\ ActiveOK(r, b)
  /\ ShownOK(b)
  /\ ContextOK(w, r, b)
  /\ SelectedOK(b, b.selection)

\* The invariant of a state, from its three parts.
LEMMA OkParts ==
  ASSUME NEW w, NEW r, NEW b
  PROVE  Ok([w |-> w, r |-> r, b |-> b]) <=> Parts(w, r, b)
BY DEF Ok, OkBut, Core, Parts

\* The invariant, from the three variables.
LEMMA InvParts ==
  LocalInv <=> Parts(worker, grants, browser)
BY OkParts DEF LocalInv, Here

\* The state a handler starts in.
LEMMA HereOk ==
  ASSUME LocalInv
  PROVE  Ok(Here) /\ Core(Here) /\ Here.w = worker /\ Here.r = grants /\ Here.b = browser
BY DEF LocalInv, Here, Ok, OkBut

\* The state a handler ends in.
LEMMA BecomesOk ==
  ASSUME NEW s, Ok(s), Becomes(s)
  PROVE  Parts(worker', grants', browser')
BY DEF Ok, OkBut, Core, Parts, Becomes

\* A step of the registry that touches no active grant keeps what is said of it.
LEMMA RegStepKeeps ==
  ASSUME NEW r, NEW q, NEW b, RegStep(r, q), ActiveOK(r, b), ScopeOK(r, b)
  PROVE  ActiveOK(q, b) /\ ScopeOK(q, b)
<1>1. ScopeOK(q, b) BY DEF RegStep, ScopeOK
<1>2. \A g \in DOMAIN q.slots : g \in DOMAIN r.slots BY DEF RegStep
<1>3. \A g \in DOMAIN q.slots : ~q.slots[g].retired => g = b.granting \/ q.slots[g].active
  BY <1>2 DEF RegStep, ActiveOK
<1>4. \A g \in DOMAIN q.slots : q.slots[g].active => r.slots[g].active /\ q.slots[g] = r.slots[g]
  BY <1>2 DEF RegStep
<1>5. \A g \in DOMAIN q.slots : q.slots[g].active =>
       /\ g # b.granting
       /\ q.slots[g].session = b.session
       /\ q.slots[g].epoch = b.epoch
       /\ q.slots[g].root \in DOMAIN b.folders
       /\ b.folders[q.slots[g].root] = g
  BY <1>2, <1>4 DEF ActiveOK
<1>6. \A root \in DOMAIN b.folders :
       /\ b.folders[root] \in DOMAIN q.slots
       /\ q.slots[b.folders[root]].active
       /\ q.slots[b.folders[root]].root = root
  BY DEF ActiveOK, RegStep
<1> QED BY <1>1, <1>3, <1>5, <1>6 DEF ActiveOK

\* A step of the registry alone keeps the invariant.
LEMMA RegistryStep ==
  ASSUME NEW w, NEW r, NEW q, NEW b, Parts(w, r, b), RegistryOK(q), RegStep(r, q), JobsOK(w, q)
  PROVE  Parts(w, q, b)
<1>1. ActiveOK(q, b) /\ ScopeOK(q, b) BY RegStepKeeps DEF Parts
<1>2. ContextOK(w, q, b) BY DEF Parts, ContextOK, RegStep
<1> QED BY <1>1, <1>2 DEF Parts

\* What one thread may do to its job.
ThreadJob(j, x, q) ==
  /\ x \in Job
  /\ x.discarded = j.discarded
  /\ x.consumed = j.consumed
  /\ x.task.kind = j.task.kind
  /\ j.task.kind = "context" =>
       /\ x.task.sources = j.task.sources
       /\ \A g \in x.task.checked :
            g \in j.task.checked \/ (g \in DOMAIN q.slots /\ q.slots[g].active)

\* A step of one thread on its own job keeps the invariant.
LEMMA ThreadStep ==
  ASSUME NEW w, NEW r, NEW q, NEW b, NEW v, NEW x, NEW i \in DOMAIN w.jobs, Parts(w, r, b),
         v = [w EXCEPT !.jobs[i] = x], ThreadJob(w.jobs[i], x, q), JobOK(i, x, q),
         RegistryOK(q), RegStep(r, q),
         \A j \in DOMAIN w.jobs \ {i} : JobOK(j, w.jobs[j], q)
  PROVE  Parts(v, q, b)
<1> DEFINE f == [w.jobs EXCEPT ![i] = x]
<1>0. WorkerOK(w) BY DEF Parts
<1>1. /\ v = [jobs |-> f, lastRequest |-> w.lastRequest, lastAllocated |-> w.lastAllocated]
      /\ v.jobs = f /\ v.lastRequest = w.lastRequest /\ v.lastAllocated = w.lastAllocated
  BY <1>0 DEF WorkerOK
<1>2. /\ DOMAIN f = DOMAIN w.jobs
      /\ f[i] = x
      /\ \A j \in DOMAIN w.jobs \ {i} : f[j] = w.jobs[j]
      /\ f \in [DOMAIN w.jobs -> Job]
  BY <1>0 DEF WorkerOK, ThreadJob
<1> HIDE DEF f
<1>3. WorkerOK(v) BY <1>0, <1>1, <1>2 DEF WorkerOK
<1>4. JobsOK(v, q) BY <1>1, <1>2 DEF JobsOK
<1>5. LiveSet(v) = LiveSet(w)
  <2>1. \A j \in DOMAIN w.jobs : Live(f[j]) <=> Live(w.jobs[j])
    BY <1>2 DEF Live, ThreadJob
  <2> QED BY <1>1, <1>2, <2>1 DEF LiveSet
<1>6. \A j \in DOMAIN w.jobs : v.jobs[j].task.kind = w.jobs[j].task.kind
  BY <1>1, <1>2 DEF ThreadJob
<1>7. \A j \in IdsOf(b, Fields) : j \in DOMAIN w.jobs BY DEF Parts, PendingOK, LiveSet
<1>8. BrowserOK(b) BY DEF Parts
<1>9. KindsOK(v, b)
  <2>1. b.granting # Nil => v.jobs[b.granting].task.kind = "grant"
    BY <1>6, <1>7, <1>8, FieldIds DEF Parts, PendingOK, KindsOK
  <2>2. b.reading # Nil => v.jobs[b.reading.id].task.kind = "read"
    BY <1>6, <1>7, <1>8, FieldIds DEF Parts, PendingOK, KindsOK
  <2>3. b.preparing # Nil => v.jobs[b.preparing.id].task.kind = "context"
    BY <1>6, <1>7, <1>8, FieldIds DEF Parts, PendingOK, KindsOK
  <2>4. b.repository # Nil => v.jobs[b.repository].task.kind = "repository"
    BY <1>6, <1>7, <1>8, FieldIds DEF Parts, PendingOK, KindsOK
  <2> QED BY <2>1, <2>2, <2>3, <2>4 DEF KindsOK
<1>10. ActiveOK(q, b) /\ ScopeOK(q, b) BY RegStepKeeps DEF Parts
<1>11. ContextOK(v, q, b)
  <2> SUFFICES ASSUME b.preparing # Nil PROVE ContextOK(v, q, b) BY DEF ContextOK
  <2> DEFINE id == b.preparing.id
  <2>1. id \in DOMAIN w.jobs BY <1>7, <1>8, FieldIds
  <2>2. w.jobs[id].task.kind = "context" BY DEF Parts, PendingOK, KindsOK
  <2>3. ContextOK(w, r, b) BY DEF Parts
  <2>4. \A g \in w.jobs[id].task.checked : g \in DOMAIN q.slots /\ q.slots[g].active
    BY <2>3 DEF ContextOK, RegStep
  <2>5. CASE id = i
    <3>1. v.jobs[id] = x BY <1>1, <1>2, <2>5
    <3>2. x.task.sources = w.jobs[id].task.sources
      BY <2>2, <2>5 DEF ThreadJob
    <3>3. \A g \in x.task.checked : g \in DOMAIN q.slots /\ q.slots[g].active
      BY <2>2, <2>4, <2>5 DEF ThreadJob
    <3> QED BY <2>3, <3>1, <3>2, <3>3 DEF ContextOK
  <2>6. CASE id # i
    <3>1. v.jobs[id] = w.jobs[id] BY <1>1, <1>2, <2>1, <2>6
    <3> QED BY <2>3, <2>4, <3>1 DEF ContextOK
  <2> QED BY <2>5, <2>6
<1> QED BY <1>3, <1>4, <1>5, <1>9, <1>10, <1>11 DEF Parts, PendingOK

\* A step that leaves the registry alone.
LEMMA QuietThread ==
  ASSUME LocalInv, NEW i \in DOMAIN worker.jobs, NEW x,
         worker' = [worker EXCEPT !.jobs[i] = x], ThreadJob(worker.jobs[i], x, grants),
         JobOK(i, x, grants), UNCHANGED <<grants, browser>>
  PROVE  LocalInv'
<1>1. Parts(worker, grants, browser) BY InvParts
<1>2. RegStep(grants, grants) BY DEF RegStep
<1>3. \A j \in DOMAIN worker.jobs \ {i} : JobOK(j, worker.jobs[j], grants)
  BY <1>1 DEF Parts, JobsOK
<1>4. RegistryOK(grants) BY <1>1 DEF Parts
<1> DEFINE v == [worker EXCEPT !.jobs[i] = x]
<1>5. v = [worker EXCEPT !.jobs[i] = x] OBVIOUS
<1> HIDE DEF v
<1>6. Parts(v, grants, browser) BY <1>1, <1>2, <1>3, <1>4, <1>5, ThreadStep
<1>7. Parts(worker', grants', browser') BY <1>6 DEF v
<1> QED BY <1>7, OkParts DEF LocalInv, Here
\* The job of an answer.
AnsweredJob(j, x, answer, kept) ==
  /\ x \in Job
  /\ x.session = j.session
  /\ x.task = j.task
  /\ x.discarded = j.discarded
  /\ x.consumed = j.consumed
  /\ x.pc \in {"holding", "done"}
  /\ x.result \in {Nil, answer}
  /\ x.borrows \subseteq kept

\* What publishing an answer does to the job.
LEMMA PublishedEffect ==
  ASSUME NEW w, WorkerOK(w), NEW i \in DOMAIN w.jobs, NEW answer \in {"ok", "failed"},
         NEW kept, kept \subseteq Nat
  PROVE  \E x : Published(w, i, answer, kept) = [w EXCEPT !.jobs[i] = x]
                /\ AnsweredJob(w.jobs[i], x, answer, kept)
<1> DEFINE job == w.jobs[i]
           p == IF ProducerHoldsResult(job) THEN "holding" ELSE "done"
           a == IF job.discarded THEN Nil ELSE answer
           k == IF job.discarded THEN {} ELSE kept
           x == [job EXCEPT !.pc = p, !.result = a, !.borrows = k]
<1>1. job \in Job BY DEF WorkerOK
<1>2. p \in {"holding", "done"} /\ a \in {Nil, answer} /\ k \subseteq kept OBVIOUS
<1>3. Published(w, i, answer, kept)
        = [w EXCEPT !.jobs[i].pc = p, !.jobs[i].result = a, !.jobs[i].borrows = k]
  BY DEF Published
<1> HIDE DEF p, a, k
<1>4. [w EXCEPT !.jobs[i].pc = p, !.jobs[i].result = a, !.jobs[i].borrows = k]
        = [w EXCEPT !.jobs[i] = x]
  BY <1>1 DEF WorkerOK, Job
<1>5. AnsweredJob(job, x, answer, kept) BY <1>1, <1>2 DEF AnsweredJob, Job
<1> QED BY <1>3, <1>4, <1>5

\* The relay thread.
LEMMA RelayStep ==
  ASSUME LocalInv, NEW i, Relay(i), UNCHANGED <<grants, browser>>
  PROVE  LocalInv'
<1> DEFINE j == worker.jobs[i]
           x == [j EXCEPT !.stop = j.discarded, !.relayDone = TRUE]
<1>0. Parts(worker, grants, browser) BY InvParts
<1>1. i \in DOMAIN worker.jobs BY DEF Relay, Known
<1>2. j \in Job BY <1>0, <1>1 DEF Parts, WorkerOK
<1>3. worker' = [worker EXCEPT !.jobs[i] = x] BY <1>0, <1>1, <1>2 DEF Relay, Parts, WorkerOK, Job
<1>4. /\ x \in Job /\ x.discarded = j.discarded /\ x.consumed = j.consumed
      /\ x.task = j.task /\ x.borrows = j.borrows /\ x.pc = j.pc /\ x.result = j.result
  BY <1>2 DEF Job
<1>5. JobOK(i, j, grants) BY <1>0, <1>1 DEF Parts, JobsOK
<1> HIDE DEF x
<1>6. JobOK(i, x, grants) BY <1>4, <1>5 DEF JobOK
<1>7. ThreadJob(j, x, grants) BY <1>4 DEF ThreadJob
<1> QED BY <1>1, <1>3, <1>6, <1>7, QuietThread

\* A thread that moves on without an answer.
LEMMA PcStep ==
  ASSUME LocalInv, NEW i \in DOMAIN worker.jobs, NEW p \in {"calling", "disposing"},
         worker' = [worker EXCEPT !.jobs[i].pc = p], UNCHANGED <<grants, browser>>,
         p = "calling" => worker.jobs[i].pc = "waiting"
  PROVE  LocalInv'
<1> DEFINE j == worker.jobs[i]
           x == [j EXCEPT !.pc = p]
<1>0. Parts(worker, grants, browser) BY InvParts
<1>2. j \in Job BY <1>0 DEF Parts, WorkerOK
<1>3. worker' = [worker EXCEPT !.jobs[i] = x] BY <1>0, <1>2 DEF Parts, WorkerOK, Job
<1>4. /\ x \in Job /\ x.discarded = j.discarded /\ x.consumed = j.consumed
      /\ x.task = j.task /\ x.borrows = j.borrows /\ x.pc = p /\ x.result = j.result
  BY <1>2 DEF Job
<1>5. JobOK(i, j, grants) BY <1>0 DEF Parts, JobsOK
<1> HIDE DEF x
<1>6. JobOK(i, x, grants) BY <1>4, <1>5 DEF JobOK
<1>7. ThreadJob(j, x, grants) BY <1>4 DEF ThreadJob
<1> QED BY <1>3, <1>6, <1>7, QuietThread
\* An answer that leaves the registry alone.
LEMMA AnswerStep ==
  ASSUME LocalInv, NEW i \in DOMAIN worker.jobs, NEW answer \in {"ok", "failed"},
         worker' = Published(worker, i, answer, {}), UNCHANGED <<grants, browser>>,
         worker.jobs[i].task.kind = "context" /\ answer = "ok"
           => worker.jobs[i].task.checked = worker.jobs[i].task.got
  PROVE  LocalInv'
<1>0. Parts(worker, grants, browser) BY InvParts
<1>1. WorkerOK(worker) /\ {} \subseteq Nat BY <1>0 DEF Parts
<1>2. PICK x : Published(worker, i, answer, {}) = [worker EXCEPT !.jobs[i] = x]
               /\ AnsweredJob(worker.jobs[i], x, answer, {})
  BY <1>1, PublishedEffect
<1>3. JobOK(i, x, grants)
  <2>1. x.borrows = {} BY <1>2 DEF AnsweredJob
  <2>2. x.pc \notin {"waiting", "calling"} BY <1>2 DEF AnsweredJob
  <2>3. x.task = worker.jobs[i].task /\ (x.result = "ok" => answer = "ok")
    BY <1>2, NilIsNoId DEF AnsweredJob
  <2> QED BY <2>1, <2>2, <2>3 DEF JobOK
<1>4. ThreadJob(worker.jobs[i], x, grants) BY <1>2 DEF AnsweredJob, ThreadJob
<1> QED BY <1>2, <1>3, <1>4, QuietThread

\* A source thread that has disposed of its resource.
LEMMA FinishStep ==
  ASSUME LocalInv, NEW i, Finish(i), UNCHANGED <<grants, browser>>
  PROVE  LocalInv'
<1> DEFINE j == worker.jobs[i]
           x == [j EXCEPT !.pc = "done", !.result = Nil, !.borrows = {}]
<1>0. Parts(worker, grants, browser) BY InvParts
<1>1. i \in DOMAIN worker.jobs BY DEF Finish, Known
<1>2. j \in Job BY <1>0, <1>1 DEF Parts, WorkerOK
<1>3. worker' = [worker EXCEPT !.jobs[i] = x]
  BY <1>0, <1>1, <1>2 DEF Finish, Parts, WorkerOK, Job
<1>4. /\ x \in Job /\ x.discarded = j.discarded /\ x.consumed = j.consumed
      /\ x.task = j.task /\ x.borrows = {} /\ x.pc = "done" /\ x.result = Nil
  BY <1>2 DEF Job
<1> HIDE DEF x
<1>6. JobOK(i, x, grants) BY <1>4, NilIsNoId DEF JobOK
<1>7. ThreadJob(j, x, grants) BY <1>4 DEF ThreadJob
<1> QED BY <1>1, <1>3, <1>6, <1>7, QuietThread

\* Every step of the worker's threads keeps the invariant.
LEMMA WorkerStepInv ==
  ASSUME LocalInv, NEW i, WorkerStep(i)
  PROVE  LocalInv'
<1>1. UNCHANGED <<grants, browser>> BY DEF WorkerStep
<1>2. CASE Relay(i) BY <1>1, <1>2, RelayStep
<1>3. CASE Begin(i)
  <2>1. i \in DOMAIN worker.jobs /\ worker.jobs[i].pc = "waiting" BY <1>3 DEF Begin, Known
  <2>2. CASE worker.jobs[i].discarded
    BY <1>1, <1>3, <2>1, <2>2, AnswerStep DEF Begin
  <2>3. CASE ~worker.jobs[i].discarded
    BY <1>1, <1>3, <2>1, <2>3, PcStep DEF Begin
  <2> QED BY <2>2, <2>3
<1>4. CASE TakeBack(i)
  <2>1. i \in DOMAIN worker.jobs BY <1>4 DEF TakeBack, Known
  <2> QED BY <1>1, <1>4, <2>1, PcStep DEF TakeBack
<1>5. CASE Finish(i) BY <1>1, <1>5, FinishStep
<1> QED BY <1>2, <1>3, <1>4, <1>5 DEF WorkerStep, WorkerThread

\* An answer of a reader or of the repository keeps the invariant.
LEMMA PortReturnsInv ==
  ASSUME LocalInv, NEW i, PortReturns(i)
  PROVE  LocalInv'
<1>1. i \in DOMAIN worker.jobs /\ worker.jobs[i].task.kind # "context"
  BY DEF PortReturns, Calling, Known
<1>2. PICK answer \in {"ok", "failed"} : worker' = Published(worker, i, answer, {})
  BY DEF PortReturns, Return
<1>3. UNCHANGED <<grants, browser>> BY DEF PortReturns
<1> QED BY <1>1, <1>2, <1>3, AnswerStep
-----------------------------------------------------------------------------
(* Steps of the grant port and the reclaimer. *)

WithSlot(r, g, y) == [r EXCEPT !.slots[g] = y]

\* The registry with one slot replaced, field by field.
LEMMA WithSlotFields ==
  ASSUME NEW r, RegistryOK(r), NEW g \in DOMAIN r.slots, NEW y
  PROVE  /\ WithSlot(r, g, y).slots = [r.slots EXCEPT ![g] = y]
         /\ WithSlot(r, g, y).scope = r.scope
         /\ WithSlot(r, g, y).lastEpoch = r.lastEpoch
         /\ WithSlot(r, g, y).lastRequest = r.lastRequest
         /\ WithSlot(r, g, y).closed = r.closed
         /\ WithSlot(r, g, y) = [slots |-> [r.slots EXCEPT ![g] = y], scope |-> r.scope,
              lastEpoch |-> r.lastEpoch, lastRequest |-> r.lastRequest, closed |-> r.closed]
BY DEF WithSlot, RegistryOK

\* A slot that is not active changes and does not become so.
SlotChange(r, q, g, y) ==
  /\ RegistryOK(q)
  /\ RegStep(r, q)
  /\ DOMAIN q.slots = DOMAIN r.slots
  /\ q.slots[g] = y
  /\ \A h \in DOMAIN r.slots \ {g} : q.slots[h] = r.slots[h]

\* Replacing a slot that is not active by another such one touches no active grant.
LEMMA SlotStep ==
  ASSUME NEW r, RegistryOK(r), NEW g \in DOMAIN r.slots, NEW y \in Slot, SlotOK(y),
         ~r.slots[g].active, ~y.active, r.slots[g].retired => y.retired
  PROVE  SlotChange(r, WithSlot(r, g, y), g, y)
<1> DEFINE f == [r.slots EXCEPT ![g] = y]
           q == WithSlot(r, g, y)
<1>1. /\ q.slots = f /\ q.scope = r.scope /\ q.lastEpoch = r.lastEpoch
      /\ q.lastRequest = r.lastRequest /\ q.closed = r.closed
      /\ q = [slots |-> f, scope |-> r.scope, lastEpoch |-> r.lastEpoch,
              lastRequest |-> r.lastRequest, closed |-> r.closed]
  BY WithSlotFields
<1>2. /\ DOMAIN f = DOMAIN r.slots /\ f[g] = y
      /\ \A h \in DOMAIN r.slots \ {g} : f[h] = r.slots[h]
      /\ f \in [DOMAIN r.slots -> Slot]
  BY DEF RegistryOK
<1> HIDE DEF f, q
<1>3. RegistryOK(q) BY <1>1, <1>2 DEF RegistryOK
<1>4. RegStep(r, q) BY <1>1, <1>2 DEF RegStep
<1>5. SlotChange(r, q, g, y) BY <1>1, <1>2, <1>3, <1>4 DEF SlotChange
<1> QED BY <1>5 DEF q

\* Replacing a slot twice.
LEMMA WithSlotTwice ==
  ASSUME NEW r, RegistryOK(r), NEW g \in DOMAIN r.slots, NEW y, NEW z
  PROVE  /\ WithSlot(WithSlot(r, g, y), g, z) = WithSlot(r, g, z)
         /\ WithSlot(r, g, y).slots[g] = y
         /\ g \in DOMAIN WithSlot(r, g, y).slots
         /\ WithSlot(r, g, r.slots[g]) = r
<1>1. DOMAIN r.slots = DOMAIN [r.slots EXCEPT ![g] = y] OBVIOUS
<1>2. WithSlot(r, g, y) = [slots |-> [r.slots EXCEPT ![g] = y], scope |-> r.scope,
         lastEpoch |-> r.lastEpoch, lastRequest |-> r.lastRequest, closed |-> r.closed]
  BY WithSlotFields
<1>3. WithSlot(r, g, z) = [slots |-> [r.slots EXCEPT ![g] = z], scope |-> r.scope,
         lastEpoch |-> r.lastEpoch, lastRequest |-> r.lastRequest, closed |-> r.closed]
  BY WithSlotFields
<1>4. [[r.slots EXCEPT ![g] = y] EXCEPT ![g] = z] = [r.slots EXCEPT ![g] = z]
  BY DEF RegistryOK
<1>5. WithSlot(WithSlot(r, g, y), g, z) = WithSlot(r, g, z)
  BY <1>2, <1>3, <1>4 DEF WithSlot
<1>6. [r.slots EXCEPT ![g] = r.slots[g]] = r.slots BY DEF RegistryOK
<1>7. WithSlot(r, g, r.slots[g]) = r BY <1>6, WithSlotFields DEF RegistryOK
<1> QED BY <1>2, <1>5, <1>7 DEF RegistryOK

\* Retiring one slot, of a registry whose slot was set before.
LEMMA RetireOne ==
  ASSUME NEW r, RegistryOK(r), NEW g \in DOMAIN r.slots, NEW y
  PROVE  Retire(WithSlot(r, g, y), {g}) = WithSlot(r, g, RetiredRecord(y))
<1> DEFINE q == WithSlot(r, g, y)
           f == [r.slots EXCEPT ![g] = y]
           h == [k \in DOMAIN f |-> IF k \in {g} THEN RetiredRecord(f[k]) ELSE f[k]]
           z == RetiredRecord(y)
<1>1. q = [slots |-> f, scope |-> r.scope,
         lastEpoch |-> r.lastEpoch, lastRequest |-> r.lastRequest, closed |-> r.closed]
  BY WithSlotFields
<1>2. WithSlot(r, g, z) = [slots |-> [r.slots EXCEPT ![g] = z], scope |-> r.scope,
         lastEpoch |-> r.lastEpoch, lastRequest |-> r.lastRequest, closed |-> r.closed]
  BY WithSlotFields
<1>3. f[g] = y BY DEF RegistryOK
<1>4. h = [r.slots EXCEPT ![g] = z]
  <2> HIDE DEF z
  <2>1. RetiredRecord(f[g]) = z BY <1>3 DEF z
  <2> QED BY <2>1 DEF RegistryOK
<1> HIDE DEF z, f
<1>5. Retire(q, {g}) = [q EXCEPT !.slots = h] BY <1>1 DEF Retire
<1> HIDE DEF h
<1>6. [q EXCEPT !.slots = h] = [slots |-> h, scope |-> r.scope,
         lastEpoch |-> r.lastEpoch, lastRequest |-> r.lastRequest, closed |-> r.closed]
  <2> HIDE DEF q
  <2> QED BY <1>1
<1> QED BY <1>2, <1>4, <1>5, <1>6 DEF z

\* A grant job and its own slot change together.
LEMMA GrantStep ==
  ASSUME LocalInv, NEW i \in DOMAIN worker.jobs, NEW x, NEW y,
         worker' = [worker EXCEPT !.jobs[i] = x], ThreadJob(worker.jobs[i], x, grants'),
         JobOK(i, x, grants'), SlotChange(grants, grants', i, y),
         grants.slots[i].physical => y.physical, browser' = browser
  PROVE  LocalInv'
<1>1. Parts(worker, grants, browser) BY InvParts
<1>2. \A j \in DOMAIN worker.jobs \ {i} : JobOK(j, worker.jobs[j], grants')
  <2> TAKE j \in DOMAIN worker.jobs \ {i}
  <2>1. JobOK(j, worker.jobs[j], grants) BY <1>1 DEF Parts, JobsOK
  <2>2. \A g \in worker.jobs[j].borrows : g \in DOMAIN grants'.slots /\ grants'.slots[g].physical
    BY <2>1 DEF JobOK, SlotChange
  <2>3. j \in DOMAIN grants.slots /\ grants.slots[j].running
          => j \in DOMAIN grants'.slots /\ grants'.slots[j].running
    BY DEF SlotChange
  <2> QED BY <2>1, <2>2, <2>3 DEF JobOK
<1>3. RegistryOK(grants') /\ RegStep(grants, grants') BY DEF SlotChange
<1> DEFINE v == [worker EXCEPT !.jobs[i] = x]
<1>5. v = [worker EXCEPT !.jobs[i] = x] OBVIOUS
<1> HIDE DEF v
<1>6. Parts(v, grants', browser) BY <1>1, <1>2, <1>3, <1>5, ThreadStep
<1>7. Parts(worker', grants', browser') BY <1>6 DEF v
<1> QED BY <1>7, OkParts DEF LocalInv, Here

\* Dispatching a reservation keeps the invariant.
LEMMA GrantDispatchInv ==
  ASSUME LocalInv, NEW i, GrantDispatch(i)
  PROVE  LocalInv'
<1> DEFINE j == worker.jobs[i]
           old == grants.slots[i]
<1>0. Parts(worker, grants, browser) BY InvParts
<1>1. /\ i \in DOMAIN worker.jobs /\ j.pc = "calling" /\ j.task.kind = "grant"
      /\ browser' = browser
  BY DEF GrantDispatch, Calling, Known
<1>2. CASE ~CanDispatch(grants, i)
  BY <1>1, <1>2, AnswerStep DEF GrantDispatch, Return
<1>3. CASE CanDispatch(grants, i)
  <2> DEFINE y == [old EXCEPT !.attempted = TRUE, !.running = TRUE]
             x == [j EXCEPT !.task.phase = "running"]
  <2>1. i \in DOMAIN grants.slots /\ ~old.attempted /\ ~old.retired BY <1>3 DEF CanDispatch
  <2>2. RegistryOK(grants) /\ old \in Slot /\ SlotOK(old) BY <1>0, <2>1 DEF Parts, RegistryOK
  <2>3. grants' = WithSlot(grants, i, y)
    <3>1. grants' = [grants EXCEPT !.slots[i].attempted = TRUE, !.slots[i].running = TRUE]
      BY <1>3 DEF GrantDispatch, Dispatch
    <3> QED BY <3>1, <2>1, <2>2 DEF WithSlot, RegistryOK, Slot
  <2>4. /\ y \in Slot /\ y.physical = old.physical /\ y.running /\ y.active = old.active
        /\ y.retired = old.retired /\ y.destroying = old.destroying
    BY <2>2 DEF Slot
  <2> HIDE DEF y
  <2>5. ~old.active /\ SlotOK(y) BY <2>1, <2>2, <2>4 DEF SlotOK
  <2>6. SlotChange(grants, grants', i, y) BY <2>1, <2>2, <2>3, <2>4, <2>5, SlotStep
  <2>7. j \in Job /\ j.task \in GrantTask
    <3>1. j \in Job BY <1>0, <1>1 DEF Parts, WorkerOK
    <3>2. j.task \in Tasks BY <3>1 DEF Job
    <3> QED BY <1>1, <3>1, <3>2 DEF Tasks, GrantTask, ReadTask, ContextTask, RepositoryTask
  <2>8. worker' = [worker EXCEPT !.jobs[i] = x]
    <3>1. worker' = [worker EXCEPT !.jobs[i].task.phase = "running"]
      BY <1>3 DEF GrantDispatch
    <3> QED BY <3>1, <1>0, <1>1, <2>7 DEF Parts, WorkerOK, Job
  <2>9. /\ x \in Job /\ x.discarded = j.discarded /\ x.consumed = j.consumed
        /\ x.task.kind = "grant" /\ x.borrows = j.borrows
        /\ x.pc = j.pc /\ x.result = j.result
    <3>1. [j.task EXCEPT !.phase = "running"] \in GrantTask
          /\ [j.task EXCEPT !.phase = "running"].kind = "grant"
      BY <2>7 DEF GrantTask
    <3>2. x = [j EXCEPT !.task = [j.task EXCEPT !.phase = "running"]] BY <2>7 DEF Job
    <3> DEFINE task == [j.task EXCEPT !.phase = "running"]
    <3>3. task \in Tasks BY <3>1 DEF Tasks
    <3> HIDE DEF task
    <3> QED BY <2>7, <3>1, <3>2, <3>3 DEF Job, task
  <2> HIDE DEF x
  <2>10. ThreadJob(j, x, grants') BY <1>1, <2>9 DEF ThreadJob
  <2>11. JobOK(i, x, grants')
    <3>1. JobOK(i, j, grants) BY <1>0, <1>1 DEF Parts, JobsOK
    <3>2. \A g \in x.borrows : g \in DOMAIN grants'.slots /\ grants'.slots[g].physical
      BY <3>1, <2>4, <2>6, <2>9 DEF JobOK, SlotChange
    <3>3. i \in DOMAIN grants'.slots /\ grants'.slots[i].running
      BY <2>1, <2>4, <2>6 DEF SlotChange
    <3> QED BY <3>1, <3>2, <3>3, <2>9 DEF JobOK
  <2> QED BY <1>1, <2>4, <2>6, <2>8, <2>10, <2>11, GrantStep
<1> QED BY <1>2, <1>3

\* The port settles the slot it was making and answers.
LEMMA GrantAnswer ==
  ASSUME LocalInv, NEW i \in DOMAIN worker.jobs, worker.jobs[i].task.kind = "grant",
         i \in DOMAIN grants.slots, NEW y \in Slot, SlotOK(y), ~grants.slots[i].active,
         ~y.active, grants.slots[i].retired => y.retired,
         grants.slots[i].physical => y.physical,
         NEW answer \in {"ok", "failed"}, NEW kept \in SUBSET {i},
         kept # {} => y.physical,
         grants' = WithSlot(grants, i, y), Return(i, answer, kept), browser' = browser
  PROVE  LocalInv'
<1> DEFINE j == worker.jobs[i]
<1>0. Parts(worker, grants, browser) BY InvParts
<1>1. WorkerOK(worker) /\ RegistryOK(grants) BY <1>0 DEF Parts
<1>2. kept \subseteq Nat BY <1>1 DEF WorkerOK
<1>8. \E x : Published(worker, i, answer, kept) = [worker EXCEPT !.jobs[i] = x]
              /\ AnsweredJob(worker.jobs[i], x, answer, kept)
  <2>1. answer \in {"ok", "failed"} OBVIOUS
  <2> HIDE DEF j
  <2> QED BY ONLY <1>1, <1>2, <2>1, i \in DOMAIN worker.jobs, PublishedEffect
<1>3. PICK x : Published(worker, i, answer, kept) = [worker EXCEPT !.jobs[i] = x]
               /\ AnsweredJob(j, x, answer, kept)
  BY <1>8
<1>4. SlotChange(grants, grants', i, y) BY <1>1, SlotStep
<1>5. JobOK(i, x, grants')
  <2>1. x.pc \notin {"waiting", "calling"} /\ x.task.kind = "grant" /\ x.borrows \subseteq kept
    BY <1>3 DEF AnsweredJob
  <2>2. \A g \in x.borrows : g \in DOMAIN grants'.slots /\ grants'.slots[g].physical
    BY <2>1, <1>4 DEF SlotChange
  <2> QED BY <2>1, <2>2 DEF JobOK
<1>6. ThreadJob(j, x, grants') BY <1>3 DEF AnsweredJob, ThreadJob
<1>7. worker' = [worker EXCEPT !.jobs[i] = x] BY <1>3 DEF Return
<1> QED BY <1>4, <1>5, <1>6, <1>7, GrantStep

\* A grant in the making has a slot that is not in use.
LEMMA RunningSlot ==
  ASSUME LocalInv, NEW i, Calling(i, "grant"), worker.jobs[i].task.phase = "running"
  PROVE  /\ i \in DOMAIN worker.jobs
         /\ worker.jobs[i].task.kind = "grant"
         /\ i \in DOMAIN grants.slots
         /\ grants.slots[i] \in Slot
         /\ SlotOK(grants.slots[i])
         /\ ~grants.slots[i].active
         /\ ~grants.slots[i].destroying
         /\ RegistryOK(grants)
<1>0. Parts(worker, grants, browser) BY InvParts
<1>1. i \in DOMAIN worker.jobs /\ worker.jobs[i].pc = "calling"
      /\ worker.jobs[i].task.kind = "grant"
  BY DEF Calling, Known
<1>2. JobOK(i, worker.jobs[i], grants) BY <1>0, <1>1 DEF Parts, JobsOK
<1>3. i \in DOMAIN grants.slots /\ grants.slots[i].running BY <1>1, <1>2 DEF JobOK
<1>4. RegistryOK(grants) /\ grants.slots[i] \in Slot /\ SlotOK(grants.slots[i])
  BY <1>0, <1>3 DEF Parts, RegistryOK
<1> QED BY <1>1, <1>3, <1>4 DEF SlotOK

\* finish settles the slot.
LEMMA FinishGrantEffect ==
  ASSUME NEW r, RegistryOK(r), NEW g \in DOMAIN r.slots, NEW y \in Slot, NEW failed \in BOOLEAN
  PROVE  FinishGrant(WithSlot(r, g, y), g, failed)
           = WithSlot(r, g, [(IF failed THEN RetiredRecord(y) ELSE y) EXCEPT !.running = FALSE])
<1> DEFINE u == WithSlot(r, g, y)
           z == IF failed THEN RetiredRecord(y) ELSE y
           settled == IF failed THEN Retire(u, {g}) ELSE u
<1>1. settled = WithSlot(r, g, z) BY RetireOne
<1>2. FinishGrant(u, g, failed) = [settled EXCEPT !.slots[g].running = FALSE]
  BY DEF FinishGrant
<1> HIDE DEF u, settled, z
<1>3. settled.slots[g] = z /\ g \in DOMAIN settled.slots BY <1>1, WithSlotTwice
<1>4. [settled EXCEPT !.slots[g].running = FALSE]
        = WithSlot(settled, g, [z EXCEPT !.running = FALSE])
  BY <1>3 DEF WithSlot
<1>5. WithSlot(settled, g, [z EXCEPT !.running = FALSE])
        = WithSlot(r, g, [z EXCEPT !.running = FALSE])
  BY <1>1, WithSlotTwice
<1> QED BY <1>2, <1>4, <1>5 DEF u, z

\* A folder that could not be opened keeps the invariant.
LEMMA GrantFailsInv ==
  ASSUME LocalInv, NEW i, GrantFails(i)
  PROVE  LocalInv'
<1> DEFINE old == grants.slots[i]
           y == [RetiredRecord(old) EXCEPT !.running = FALSE]
<1>1. Calling(i, "grant") /\ worker.jobs[i].task.phase = "running" BY DEF GrantFails
<1>2. /\ i \in DOMAIN worker.jobs /\ worker.jobs[i].task.kind = "grant"
      /\ i \in DOMAIN grants.slots /\ old \in Slot /\ SlotOK(old) /\ ~old.active
      /\ ~old.destroying /\ RegistryOK(grants)
  BY <1>1, RunningSlot
<1>3. WithSlot(grants, i, old) = grants BY <1>2, WithSlotTwice
<1>4. grants' = WithSlot(grants, i, y)
  <2>1. FinishGrant(WithSlot(grants, i, old), i, TRUE) = WithSlot(grants, i, y)
    BY <1>2, FinishGrantEffect
  <2> QED BY <1>3, <2>1 DEF GrantFails
<1>5. /\ y \in Slot /\ y.retired /\ ~y.active /\ y.physical = old.physical
      /\ ~y.destroying
  BY <1>2 DEF RetiredRecord, Slot
<1> HIDE DEF y
<1>6. SlotOK(y) BY <1>5 DEF SlotOK
<1>7. Return(i, "failed", {}) /\ browser' = browser BY DEF GrantFails
<1>8. {} \in SUBSET {i} OBVIOUS
<1> QED BY <1>2, <1>4, <1>5, <1>6, <1>7, <1>8, GrantAnswer

\* stage_result: the lease belongs to the slot, in use or retired.
LEMMA StagedEffect ==
  ASSUME NEW r, RegistryOK(r), NEW g \in DOMAIN r.slots, NEW root \in Roots, NEW stopped,
         SlotOK(r.slots[g]), r.slots[g] \in Slot, ~r.slots[g].active, ~r.slots[g].destroying
  PROVE  \E y \in Slot : /\ Staged(r, g, root, stopped) = WithSlot(r, g, y)
                         /\ y.physical /\ ~y.active /\ ~y.destroying
                         /\ r.slots[g].retired => y.retired
<1> DEFINE old == r.slots[g]
           o == [old EXCEPT !.physical = TRUE]
           owned == [r EXCEPT !.slots[g].physical = TRUE]
           y == [o EXCEPT !.root = root]
<1>1. owned = WithSlot(r, g, o) BY DEF WithSlot, RegistryOK
<1>2. o \in Slot /\ o.physical /\ o.active = old.active /\ o.destroying = old.destroying
      /\ o.retired = old.retired /\ o.running = old.running
  BY DEF Slot
<1>3. CASE stopped \/ r.slots[g].retired \/ ~Current(r, r.slots[g])
  <2>1. Staged(r, g, root, stopped) = Retire(owned, {g}) BY <1>3 DEF Staged
  <2>2. Retire(owned, {g}) = WithSlot(r, g, RetiredRecord(o))
    <3> HIDE DEF o, owned
    <3> QED BY <1>1, RetireOne
  <2>3. SlotOK(o) BY <1>2 DEF SlotOK
  <2> HIDE DEF o, owned
  <2>4. /\ RetiredRecord(o) \in Slot /\ RetiredRecord(o).retired /\ ~RetiredRecord(o).active
        /\ RetiredRecord(o).physical /\ ~RetiredRecord(o).destroying
    BY <1>2, <2>3, RetiredSlot
  <2> QED BY <2>1, <2>2, <2>4
<1>4. CASE ~(stopped \/ r.slots[g].retired \/ ~Current(r, r.slots[g]))
  <2>1. Staged(r, g, root, stopped) = [owned EXCEPT !.slots[g].root = root]
    BY <1>4 DEF Staged
  <2>2. owned.slots[g] = o /\ g \in DOMAIN owned.slots
    <3> HIDE DEF o, owned
    <3> QED BY <1>1, WithSlotTwice
  <2>3. [owned EXCEPT !.slots[g].root = root] = WithSlot(owned, g, y)
    <3> HIDE DEF o, owned
    <3> QED BY <2>2 DEF WithSlot
  <2>4. WithSlot(owned, g, y) = WithSlot(r, g, y)
    <3> HIDE DEF o, owned, y
    <3> QED BY <1>1, WithSlotTwice
  <2>5. y \in Slot /\ y.physical /\ ~y.active /\ ~y.destroying /\ y.retired = o.retired
    <3> HIDE DEF o
    <3> QED BY <1>2 DEF Slot
  <2> HIDE DEF y, o, owned
  <2> QED BY <1>2, <2>1, <2>3, <2>4, <2>5
<1> QED BY <1>3, <1>4

\* A folder that was opened keeps the invariant, whether staged or retired on the spot.
LEMMA GrantReturnsInv ==
  ASSUME LocalInv, NEW i, NEW root \in Roots, GrantReturns(i, root)
  PROVE  LocalInv'
<1> DEFINE old == grants.slots[i]
           staged == Staged(grants, i, root, worker.jobs[i].stop)
           refused == staged.slots[i].retired
<1>1. Calling(i, "grant") /\ worker.jobs[i].task.phase = "running" /\ browser' = browser
  BY DEF GrantReturns
<1>2. /\ i \in DOMAIN worker.jobs /\ worker.jobs[i].task.kind = "grant"
      /\ i \in DOMAIN grants.slots /\ old \in Slot /\ SlotOK(old) /\ ~old.active
      /\ ~old.destroying /\ RegistryOK(grants)
  BY <1>1, RunningSlot
<1>3. PICK z \in Slot : /\ staged = WithSlot(grants, i, z)
                        /\ z.physical /\ ~z.active /\ ~z.destroying
                        /\ old.retired => z.retired
  BY <1>2, StagedEffect
<1>4. staged.slots[i] = z BY <1>2, <1>3, WithSlotTwice
<1>5. grants' = FinishGrant(staged, i, refused)
      /\ (IF refused THEN Return(i, "failed", {}) ELSE Return(i, "ok", {i}))
  BY DEF GrantReturns
<1> HIDE DEF staged
<1>6. refused = z.retired /\ z.retired \in BOOLEAN BY <1>4 DEF Slot
<1> HIDE DEF refused
<1> DEFINE e == IF z.retired THEN RetiredRecord(z) ELSE z
           y == [e EXCEPT !.running = FALSE]
<1>7. grants' = WithSlot(grants, i, y)
  <2>1. FinishGrant(WithSlot(grants, i, z), i, z.retired) = WithSlot(grants, i, y)
    BY <1>2, <1>6, FinishGrantEffect
  <2> QED BY <1>3, <1>5, <1>6, <2>1
<1>8. e \in Slot /\ e.physical /\ ~e.active /\ ~e.destroying /\ e.retired = z.retired
  BY <1>3 DEF RetiredRecord, Slot
<1> HIDE DEF e
<1>9. y \in Slot /\ y.physical /\ ~y.active /\ ~y.destroying /\ y.retired = z.retired
  BY <1>8 DEF Slot
<1> HIDE DEF y
<1>10. SlotOK(y) BY <1>9 DEF SlotOK
<1>11. CASE z.retired
  <2>1. Return(i, "failed", {}) BY <1>5, <1>6, <1>11
  <2>2. {} \in SUBSET {i} OBVIOUS
  <2> QED BY <1>1, <1>2, <1>3, <1>7, <1>9, <1>10, <2>1, <2>2, GrantAnswer
<1>12. CASE ~z.retired
  <2>1. Return(i, "ok", {i}) BY <1>5, <1>6, <1>12
  <2>2. {i} \in SUBSET {i} OBVIOUS
  <2> QED BY <1>1, <1>2, <1>3, <1>7, <1>9, <1>10, <2>1, <2>2, GrantAnswer
<1> QED BY <1>11, <1>12

\* The reclaimer begins only where nobody borrows.
LEMMA BeginReclaimInv ==
  ASSUME LocalInv, NEW g, BeginReclaim(g, Borrowed(g)), UNCHANGED <<worker, browser>>
  PROVE  LocalInv'
<1> DEFINE old == grants.slots[g]
           y == [old EXCEPT !.destroying = TRUE, !.physical = FALSE]
<1>0. Parts(worker, grants, browser) BY InvParts
<1>1. g \in DOMAIN grants.slots /\ old.retired /\ ~old.running /\ ~Borrowed(g)
  BY DEF BeginReclaim, Reclaimable
<1>2. RegistryOK(grants) /\ old \in Slot /\ SlotOK(old) BY <1>0, <1>1 DEF Parts, RegistryOK
<1>3. grants' = WithSlot(grants, g, y)
  <2>1. grants' = [grants EXCEPT !.slots[g].destroying = TRUE, !.slots[g].physical = FALSE]
    BY DEF BeginReclaim
  <2> QED BY <2>1, <1>1, <1>2 DEF WithSlot, RegistryOK, Slot
<1>4. /\ y \in Slot /\ ~y.physical /\ y.destroying /\ y.retired = old.retired
      /\ y.running = old.running /\ y.active = old.active
  BY <1>2 DEF Slot
<1> HIDE DEF y
<1>5. ~old.active BY <1>1, <1>2 DEF SlotOK
<1>6. SlotOK(y) BY <1>1, <1>4, <1>5 DEF SlotOK
<1>7. SlotChange(grants, grants', g, y) BY <1>1, <1>2, <1>3, <1>4, <1>5, <1>6, SlotStep
<1>8. JobsOK(worker, grants')
  <2> SUFFICES ASSUME NEW i \in DOMAIN worker.jobs PROVE JobOK(i, worker.jobs[i], grants')
    BY DEF JobsOK
  <2>1. JobOK(i, worker.jobs[i], grants) BY <1>0 DEF Parts, JobsOK
  <2>2. g \notin worker.jobs[i].borrows BY <1>1 DEF Borrowed
  <2> QED BY <1>1, <1>4, <1>7, <2>1, <2>2 DEF JobOK, SlotChange
<1>9. Parts(worker, grants', browser) BY <1>0, <1>7, <1>8, RegistryStep DEF SlotChange
<1> QED BY <1>9, OkParts DEF LocalInv, Here

\* The reclaimer frees a slot that is not active.
LEMMA EndReclaimInv ==
  ASSUME LocalInv, NEW g, EndReclaim(g), UNCHANGED <<worker, browser>>
  PROVE  LocalInv'
<1> DEFINE D == DOMAIN grants.slots \ {g}
           f == [h \in D |-> grants.slots[h]]
<1>0. Parts(worker, grants, browser) BY InvParts
<1>1. g \in DOMAIN grants.slots /\ grants.slots[g].destroying BY DEF EndReclaim
<1>2. RegistryOK(grants) /\ SlotOK(grants.slots[g]) BY <1>0, <1>1 DEF Parts, RegistryOK
<1>3. ~grants.slots[g].active /\ ~grants.slots[g].physical /\ ~grants.slots[g].running
  BY <1>1, <1>2 DEF SlotOK
<1>4. /\ grants' = [slots |-> f, scope |-> grants.scope, lastEpoch |-> grants.lastEpoch,
                    lastRequest |-> grants.lastRequest, closed |-> grants.closed]
      /\ grants'.slots = f /\ grants'.scope = grants.scope
      /\ grants'.lastEpoch = grants.lastEpoch
      /\ grants'.lastRequest = grants.lastRequest /\ grants'.closed = grants.closed
  <2>1. grants' = [grants EXCEPT !.slots = f] BY DEF EndReclaim, Restrict
  <2> HIDE DEF f
  <2> QED BY <2>1, <1>2 DEF RegistryOK
<1>5. /\ DOMAIN f = D /\ f \in [D -> Slot] /\ \A h \in D : f[h] = grants.slots[h]
      /\ D \subseteq DOMAIN grants.slots
      /\ \A h \in DOMAIN grants.slots : h # g => h \in D
  BY <1>2 DEF RegistryOK
<1> HIDE DEF f, D
<1>6. RegistryOK(grants') BY <1>2, <1>4, <1>5 DEF RegistryOK
<1>7. RegStep(grants, grants') BY <1>3, <1>4, <1>5 DEF RegStep
<1>8. JobsOK(worker, grants')
  <2> SUFFICES ASSUME NEW i \in DOMAIN worker.jobs PROVE JobOK(i, worker.jobs[i], grants')
    BY DEF JobsOK
  <2>1. JobOK(i, worker.jobs[i], grants) BY <1>0 DEF Parts, JobsOK
  <2>2. \A h \in DOMAIN grants.slots : grants.slots[h].physical \/ grants.slots[h].running
          => h \in DOMAIN grants'.slots /\ grants'.slots[h] = grants.slots[h]
    BY <1>3, <1>4, <1>5
  <2> QED BY <2>1, <2>2 DEF JobOK
<1>9. Parts(worker, grants', browser) BY <1>0, <1>6, <1>7, <1>8, RegistryStep
<1> QED BY <1>9, OkParts DEF LocalInv, Here
-----------------------------------------------------------------------------
(* Steps of the context port. *)

\* The job of a context that is still being prepared.
LEMMA ContextJob ==
  ASSUME LocalInv, NEW i, Calling(i, "context")
  PROVE  /\ i \in DOMAIN worker.jobs
         /\ worker.jobs[i].pc = "calling"
         /\ worker.jobs[i].task.kind = "context"
         /\ worker.jobs[i] \in Job
         /\ worker.jobs[i].task \in ContextTask
         /\ JobOK(i, worker.jobs[i], grants)
         /\ WorkerOK(worker)
<1>0. Parts(worker, grants, browser) BY InvParts
<1>1. i \in DOMAIN worker.jobs /\ worker.jobs[i].pc = "calling"
      /\ worker.jobs[i].task.kind = "context"
  BY DEF Calling, Known
<1>2. worker.jobs[i] \in Job BY <1>0, <1>1 DEF Parts, WorkerOK
<1>3. worker.jobs[i].task \in Tasks BY <1>2 DEF Job
<1>4. worker.jobs[i].task \in ContextTask
  BY <1>1, <1>3 DEF Tasks, GrantTask, ReadTask, ContextTask, RepositoryTask
<1> QED BY <1>0, <1>1, <1>2, <1>4 DEF Parts, JobsOK

\* A preparation goes on: other facts about what it has read.
LEMMA ContextStep ==
  ASSUME LocalInv, NEW i, Calling(i, "context"), NEW task \in ContextTask,
         NEW borrows \in SUBSET Nat,
         worker' = [worker EXCEPT !.jobs[i] =
                      [worker.jobs[i] EXCEPT !.task = task, !.borrows = borrows]],
         UNCHANGED <<grants, browser>>,
         worker.jobs[i].result # "ok",
         task.sources = worker.jobs[i].task.sources,
         \A g \in task.checked : g \in worker.jobs[i].task.checked
                                 \/ (g \in DOMAIN grants.slots /\ grants.slots[g].active),
         \A g \in borrows : g \in DOMAIN grants.slots /\ grants.slots[g].physical
  PROVE  LocalInv'
<1> DEFINE j == worker.jobs[i]
           x == [j EXCEPT !.task = task, !.borrows = borrows]
<1>1. i \in DOMAIN worker.jobs /\ j.task.kind = "context" /\ j \in Job BY ContextJob
<1>2. task \in Tasks /\ task.kind = "context" BY DEF Tasks, ContextTask
<1>3. /\ x \in Job /\ x.discarded = j.discarded /\ x.consumed = j.consumed
      /\ x.task = task /\ x.borrows = borrows /\ x.pc = j.pc /\ x.result = j.result
  BY <1>1, <1>2 DEF Job
<1>4. worker' = [worker EXCEPT !.jobs[i] = x] OBVIOUS
<1> HIDE DEF x
<1>5. ThreadJob(j, x, grants) BY <1>1, <1>2, <1>3 DEF ThreadJob
<1>6. JobOK(i, x, grants) BY <1>2, <1>3 DEF JobOK
<1> QED BY <1>1, <1>4, <1>5, <1>6, QuietThread

\* Resolving a root keeps the invariant.
LEMMA ContextResolveInv ==
  ASSUME LocalInv, NEW i, NEW source, ContextResolve(i, source)
  PROVE  LocalInv'
<1> DEFINE j == worker.jobs[i]
           found == Resolved(grants, j.session, source.root)
           got == j.task.got \cup found
           borrows == j.borrows \cup found
           task == [j.task EXCEPT !.got = got]
<1>0. Calling(i, "context") /\ UNCHANGED <<grants, browser>> BY DEF ContextResolve
<1>1. /\ i \in DOMAIN worker.jobs /\ j.pc = "calling" /\ j.task.kind = "context"
      /\ j \in Job /\ j.task \in ContextTask /\ JobOK(i, j, grants) /\ WorkerOK(worker)
  BY <1>0, ContextJob
<1>2. CASE found = {}
  <2>1. worker' = Published(worker, i, "failed", {}) BY <1>2 DEF ContextResolve, Return
  <2> QED BY <1>0, <1>1, <2>1, AnswerStep
<1>3. CASE found # {}
  <2>1. worker' = [worker EXCEPT !.jobs[i].task.got = @ \cup found,
                                 !.jobs[i].borrows = @ \cup found]
    BY <1>3 DEF ContextResolve
  <2>2. \A g \in found : g \in DOMAIN grants.slots /\ grants.slots[g].active
    BY DEF Resolved
  <2>3. Parts(worker, grants, browser) BY InvParts
  <2>4. \A g \in found : g \in Nat /\ grants.slots[g].physical
    BY <2>2, <2>3 DEF Parts, RegistryOK, SlotOK
  <2> HIDE DEF found
  <2>5. j.task.got \subseteq Nat /\ j.borrows \subseteq Nat BY <1>1 DEF ContextTask, Job
  <2>6. got \in SUBSET Nat /\ borrows \in SUBSET Nat BY <2>4, <2>5
  <2>7. worker' = [worker EXCEPT !.jobs[i] = [j EXCEPT !.task = task, !.borrows = borrows]]
    BY <2>1, <1>1 DEF WorkerOK, Job, ContextTask
  <2> HIDE DEF got
  <2>8. /\ task \in ContextTask /\ task.sources = j.task.sources
        /\ task.checked = j.task.checked
    BY <1>1, <2>6 DEF ContextTask
  <2> HIDE DEF task
  <2>9. \A g \in borrows : g \in DOMAIN grants.slots /\ grants.slots[g].physical
    BY <1>1, <2>2, <2>4 DEF JobOK
  <2>10. j.result # "ok" BY <1>1 DEF JobOK
  <2> HIDE DEF borrows
  <2> QED BY <1>0, <2>6, <2>7, <2>8, <2>9, <2>10, ContextStep
<1> QED BY <1>2, <1>3

\* Reading a source keeps the invariant.
LEMMA ContextReadInv ==
  ASSUME LocalInv, NEW i, NEW source, ContextRead(i, source)
  PROVE  LocalInv'
<1> DEFINE j == worker.jobs[i]
           todo == j.task.todo \ {source}
           borrows == j.borrows
           task == [j.task EXCEPT !.todo = todo]
<1>0. Calling(i, "context") /\ UNCHANGED <<grants, browser>> BY DEF ContextRead
<1>1. /\ i \in DOMAIN worker.jobs /\ j.pc = "calling" /\ j.task.kind = "context"
      /\ j \in Job /\ j.task \in ContextTask /\ JobOK(i, j, grants) /\ WorkerOK(worker)
  BY <1>0, ContextJob
<1>2. worker' = [worker EXCEPT !.jobs[i].task.todo = @ \ {source}] BY DEF ContextRead
<1>3. todo \in SUBSET Sources BY <1>1 DEF ContextTask
<1>4. worker' = [worker EXCEPT !.jobs[i] = [j EXCEPT !.task = task, !.borrows = borrows]]
  BY <1>2, <1>1 DEF WorkerOK, Job, ContextTask
<1> HIDE DEF todo
<1>5. /\ task \in ContextTask /\ task.sources = j.task.sources
      /\ task.checked = j.task.checked
  BY <1>1, <1>3 DEF ContextTask
<1> HIDE DEF task
<1>6. borrows \in SUBSET Nat /\ j.result # "ok" BY <1>1 DEF Job, JobOK
<1>7. \A g \in borrows : g \in DOMAIN grants.slots /\ grants.slots[g].physical
  BY <1>1 DEF JobOK
<1> HIDE DEF borrows
<1> QED BY <1>0, <1>4, <1>5, <1>6, <1>7, ContextStep

\* Checking that a root still resolves keeps the invariant.
LEMMA ContextCheckInv ==
  ASSUME LocalInv, NEW i, NEW g, ContextCheck(i, g)
  PROVE  LocalInv'
<1> DEFINE j == worker.jobs[i]
           root == grants.slots[g].root
           checked == j.task.checked \cup {g}
           borrows == j.borrows
           task == [j.task EXCEPT !.checked = checked]
<1>0. Calling(i, "context") /\ UNCHANGED <<grants, browser>> BY DEF ContextCheck
<1>1. /\ i \in DOMAIN worker.jobs /\ j.pc = "calling" /\ j.task.kind = "context"
      /\ j \in Job /\ j.task \in ContextTask /\ JobOK(i, j, grants) /\ WorkerOK(worker)
  BY <1>0, ContextJob
<1>2. CASE Resolved(grants, j.session, root) # {g}
  <2>1. worker' = Published(worker, i, "failed", {}) BY <1>2 DEF ContextCheck, Return
  <2> QED BY <1>0, <1>1, <2>1, AnswerStep
<1>3. CASE Resolved(grants, j.session, root) = {g}
  <2>1. worker' = [worker EXCEPT !.jobs[i].task.checked = @ \cup {g}]
    BY <1>3 DEF ContextCheck
  <2>2. g \in DOMAIN grants.slots /\ grants.slots[g].active
    <3>1. g \in Resolved(grants, j.session, root) BY <1>3
    <3> QED BY <3>1 DEF Resolved
  <2>3. Parts(worker, grants, browser) BY InvParts
  <2>4. g \in Nat BY <2>2, <2>3 DEF Parts, RegistryOK
  <2>5. checked \in SUBSET Nat BY <1>1, <2>4 DEF ContextTask
  <2>6. worker' = [worker EXCEPT !.jobs[i] = [j EXCEPT !.task = task, !.borrows = borrows]]
    BY <2>1, <1>1 DEF WorkerOK, Job, ContextTask
  <2>7. \A h \in checked : h \in j.task.checked
                           \/ (h \in DOMAIN grants.slots /\ grants.slots[h].active)
    BY <2>2
  <2> HIDE DEF checked
  <2>8. /\ task \in ContextTask /\ task.sources = j.task.sources
        /\ task.checked = checked
    BY <1>1, <2>5 DEF ContextTask
  <2> HIDE DEF task
  <2>9. borrows \in SUBSET Nat /\ j.result # "ok" BY <1>1 DEF Job, JobOK
  <2>10. \A h \in borrows : h \in DOMAIN grants.slots /\ grants.slots[h].physical
    BY <1>1 DEF JobOK
  <2> HIDE DEF borrows
  <2> QED BY <1>0, <2>6, <2>7, <2>8, <2>9, <2>10, ContextStep
<1> QED BY <1>2, <1>3

\* Every step of a thread keeps the invariant.
LEMMA ThreadsInv ==
  ASSUME LocalInv, Threads
  PROVE  LocalInv'
<1>1. ASSUME NEW i, ContextPort(i) PROVE LocalInv'
  <2>1. ASSUME NEW source, ContextResolve(i, source) \/ ContextRead(i, source) PROVE LocalInv'
    BY <2>1, ContextResolveInv, ContextReadInv
  <2>2. ASSUME NEW g, ContextCheck(i, g) PROVE LocalInv' BY <2>2, ContextCheckInv
  <2>3. CASE ContextFails(i)
    <3>1. Calling(i, "context") /\ worker' = Published(worker, i, "failed", {})
          /\ UNCHANGED <<grants, browser>>
      BY <2>3 DEF ContextFails, Return
    <3>2. i \in DOMAIN worker.jobs BY <3>1, ContextJob
    <3> QED BY <3>1, <3>2, AnswerStep
  <2>4. CASE ContextReturns(i)
    <3>1. Calling(i, "context") /\ worker' = Published(worker, i, "ok", {})
          /\ UNCHANGED <<grants, browser>>
          /\ worker.jobs[i].task.checked = worker.jobs[i].task.got
      BY <2>4 DEF ContextReturns, Return
    <3>2. i \in DOMAIN worker.jobs BY <3>1, ContextJob
    <3> QED BY <3>1, <3>2, AnswerStep
  <2> QED BY <1>1, <2>1, <2>2, <2>3, <2>4 DEF ContextPort
<1>2. ASSUME NEW i, GrantPort(i) PROVE LocalInv'
  BY <1>2, GrantDispatchInv, GrantReturnsInv, GrantFailsInv DEF GrantPort
<1>3. ASSUME NEW g, Reclaim(g) PROVE LocalInv'
  BY <1>3, BeginReclaimInv, EndReclaimInv DEF Reclaim
<1>4. ASSUME NEW i, WorkerStep(i) \/ PortReturns(i) PROVE LocalInv'
  BY <1>4, WorkerStepInv, PortReturnsInv
<1> QED BY <1>1, <1>2, <1>3, <1>4 DEF Threads
-----------------------------------------------------------------------------
(* Submitting work. *)

\* Drops keeps the invariant.
LEMMA DropsOk ==
  ASSUME NEW s, NEW t, NEW K, Ok(s), Drops(s, t, K)
  PROVE  Ok(t)
BY DropsKeepOk DEF Ok

\* The browser with other works, everything else the same.
KeepsState(b, c) ==
  /\ BrowserOK(c)
  /\ c.session = b.session /\ c.epoch = b.epoch /\ c.revision = b.revision
  /\ c.folders = b.folders /\ c.selection = b.selection
  /\ c.listing = b.listing /\ c.preview = b.preview /\ c.closed = b.closed

\* The browser with another work in one of its fields.
LEMMA GrantingField ==
  ASSUME NEW b, BrowserOK(b), NEW work \in Nat \cup {Nil}, NEW c,
         c = [b EXCEPT !["granting"] = work]
  PROVE  /\ KeepsState(b, c) /\ c.granting = work /\ c.reading = b.reading
         /\ c.preparing = b.preparing /\ c.repository = b.repository
BY DEF BrowserOK, KeepsState

\* The same for a read.
LEMMA ReadingField ==
  ASSUME NEW b, BrowserOK(b), NEW work \in ReadWork, NEW c,
         c = [b EXCEPT !["reading"] = work]
  PROVE  /\ KeepsState(b, c) /\ c.granting = b.granting /\ c.reading = work
         /\ c.preparing = b.preparing /\ c.repository = b.repository
BY DEF BrowserOK, KeepsState

\* The same for a preparation.
LEMMA PreparingField ==
  ASSUME NEW b, BrowserOK(b), NEW work \in ContextWork, NEW c,
         c = [b EXCEPT !["preparing"] = work]
  PROVE  /\ KeepsState(b, c) /\ c.granting = b.granting /\ c.reading = b.reading
         /\ c.preparing = work /\ c.repository = b.repository
BY DEF BrowserOK, KeepsState

\* The same for the repository.
LEMMA RepositoryField ==
  ASSUME NEW b, BrowserOK(b), NEW work \in Nat \cup {Nil}, NEW c,
         c = [b EXCEPT !["repository"] = work]
  PROVE  /\ KeepsState(b, c) /\ c.granting = b.granting /\ c.reading = b.reading
         /\ c.preparing = b.preparing /\ c.repository = work
BY DEF BrowserOK, KeepsState

\* What SubmitWork comes to.
LEMMA SubmitWorkEffect ==
  ASSUME NEW s, Core(s), NEW job, NEW launch, NEW field, NEW work, NEW c,
         c = [s.b EXCEPT ![field] = work]
  PROVE  /\ Admission(s.w, s.w.lastAllocated) = "launched" /\ launch = "started" =>
              SubmitWork(s, job, launch, field, work)
                = [w |-> Submit(s.w, s.w.lastAllocated, job, launch), r |-> s.r, b |-> c]
         /\ ~(Admission(s.w, s.w.lastAllocated) = "launched" /\ launch = "started") =>
              SubmitWork(s, job, launch, field, work)
                = [w |-> Submit(s.w, s.w.lastAllocated, job, launch), r |-> s.r, b |-> s.b]
<1> DEFINE v == Submit(s.w, s.w.lastAllocated, job, launch)
           submitted == [s EXCEPT !.w = v]
<1>1. submitted = [w |-> v, r |-> s.r, b |-> s.b]
  <2> HIDE DEF v
  <2> QED BY DEF Core
<1>2. CASE Admission(s.w, s.w.lastAllocated) = "launched" /\ launch = "started"
  <2>1. SubmitWork(s, job, launch, field, work) = [submitted EXCEPT !.b[field] = work]
    BY <1>2 DEF SubmitWork
  <2> HIDE DEF submitted, v
  <2>2. [submitted EXCEPT !.b[field] = work] = [w |-> v, r |-> s.r, b |-> c] BY <1>1
  <2> QED BY <1>2, <2>1, <2>2 DEF v
<1>3. CASE ~(Admission(s.w, s.w.lastAllocated) = "launched" /\ launch = "started")
  <2>1. SubmitWork(s, job, launch, field, work) = submitted BY <1>3 DEF SubmitWork
  <2> QED BY <1>1, <1>3, <2>1
<1> QED BY <1>2, <1>3

\* The live jobs once a job is added.
LEMMA AddsLive ==
  ASSUME NEW w, NEW v, NEW id, NEW x, Adds(w, v, id, x)
  PROVE  /\ Live(x) => LiveSet(v) = LiveSet(w) \cup {id}
         /\ ~Live(x) => LiveSet(v) = LiveSet(w)
         /\ \A i \in LiveSet(w) : i \in DOMAIN v.jobs /\ i # id /\ v.jobs[i].task = w.jobs[i].task
<1>1. \A i \in DOMAIN v.jobs : i # id =>
        i \in DOMAIN w.jobs /\ (Live(v.jobs[i]) <=> Live(w.jobs[i]))
  BY DEF Adds, EndsJob
<1>2. \A i \in DOMAIN w.jobs : Live(w.jobs[i]) => i \in DOMAIN v.jobs /\ i # id BY DEF Adds
<1>3. \A i \in LiveSet(w) : i \in DOMAIN v.jobs /\ i # id /\ v.jobs[i].task = w.jobs[i].task
  BY <1>2 DEF LiveSet, Adds, EndsJob
<1>4. id \in DOMAIN v.jobs /\ v.jobs[id] = x BY DEF Adds
<1> QED BY <1>1, <1>2, <1>3, <1>4 DEF LiveSet

\* A job in order is added to jobs in order.
LEMMA JobsAdded ==
  ASSUME NEW w, NEW v, NEW id, NEW x, NEW r, NEW q, WorkerOK(w), Adds(w, v, id, x),
         LeasesKept(r, q), JobsOK(w, r), JobOK(id, x, q)
  PROVE  JobsOK(v, q)
<1> SUFFICES ASSUME NEW i \in DOMAIN v.jobs PROVE JobOK(i, v.jobs[i], q)
  BY DEF JobsOK
<1>1. CASE i = id BY <1>1 DEF Adds
<1>2. CASE i # id
  <2>1. i \in DOMAIN w.jobs /\ EndsJob(w.jobs[i], v.jobs[i], FALSE) BY <1>2 DEF Adds
  <2>2. JobOK(i, w.jobs[i], r) BY <2>1 DEF JobsOK
  <2> QED BY <2>1, <2>2, NilIsNoId DEF JobOK, EndsJob, LeasesKept
<1> QED BY <1>1, <1>2
\* The browser begins to wait for one more job.
Begins(b, c, id, kind) ==
  \/ /\ kind = "grant" /\ b.granting = Nil /\ c.granting = id /\ c.reading = b.reading
     /\ c.preparing = b.preparing /\ c.repository = b.repository
  \/ /\ kind = "read" /\ b.reading = Nil /\ c.reading # Nil /\ c.reading.id = id
     /\ c.granting = b.granting /\ c.preparing = b.preparing /\ c.repository = b.repository
  \/ /\ kind = "context" /\ b.preparing = Nil /\ c.preparing # Nil /\ c.preparing.id = id
     /\ c.granting = b.granting /\ c.reading = b.reading /\ c.repository = b.repository
  \/ /\ kind = "repository" /\ b.repository = Nil /\ c.repository = id
     /\ c.granting = b.granting /\ c.reading = b.reading /\ c.preparing = b.preparing

\* The works and the live jobs still match.
LEMMA PendingBegins ==
  ASSUME NEW w, NEW v, NEW b, NEW c, NEW id \in Nat, NEW x, PendingOK(w, b), BrowserOK(b),
         Adds(w, v, id, x), Live(x), Begins(b, c, id, x.task.kind)
  PROVE  PendingOK(v, c)
<1>1. /\ "granting" \in Fields /\ "reading" \in Fields /\ "preparing" \in Fields
      /\ "repository" \in Fields
  BY DEF Fields
<1>2. LiveSet(v) = LiveSet(w) \cup {id} BY AddsLive
<1>3. \A i \in LiveSet(w) : v.jobs[i].task = w.jobs[i].task BY AddsLive
<1>4. v.jobs[id] = x BY DEF Adds
<1>5. LiveSet(w) = IdsOf(b, Fields) /\ KindsOK(w, b) BY DEF PendingOK
<1>6. /\ b.granting # Nil => v.jobs[b.granting].task.kind = "grant"
      /\ b.reading # Nil => v.jobs[b.reading.id].task.kind = "read"
      /\ b.preparing # Nil => v.jobs[b.preparing.id].task.kind = "context"
      /\ b.repository # Nil => v.jobs[b.repository].task.kind = "repository"
  BY <1>3, <1>5, FieldIds DEF KindsOK
<1>7. CASE /\ x.task.kind = "grant" /\ b.granting = Nil /\ c.granting = id
           /\ c.reading = b.reading /\ c.preparing = b.preparing /\ c.repository = b.repository
  <2>1. IdsOf(c, Fields) = IdsOf(b, Fields) \cup {id} BY <1>1, <1>7, NilIsNoId DEF IdsOf
  <2>2. KindsOK(v, c) BY <1>4, <1>6, <1>7 DEF KindsOK
  <2> QED BY <1>2, <1>5, <2>1, <2>2 DEF PendingOK
<1>8. CASE /\ x.task.kind = "read" /\ b.reading = Nil /\ c.reading # Nil /\ c.reading.id = id
           /\ c.granting = b.granting /\ c.preparing = b.preparing
           /\ c.repository = b.repository
  <2>1. IdsOf(c, Fields) = IdsOf(b, Fields) \cup {id} BY <1>1, <1>8, NilIsNoId DEF IdsOf
  <2>2. KindsOK(v, c) BY <1>4, <1>6, <1>8 DEF KindsOK
  <2> QED BY <1>2, <1>5, <2>1, <2>2 DEF PendingOK
<1>9. CASE /\ x.task.kind = "context" /\ b.preparing = Nil /\ c.preparing # Nil
           /\ c.preparing.id = id /\ c.granting = b.granting /\ c.reading = b.reading
           /\ c.repository = b.repository
  <2>1. IdsOf(c, Fields) = IdsOf(b, Fields) \cup {id} BY <1>1, <1>9, NilIsNoId DEF IdsOf
  <2>2. KindsOK(v, c) BY <1>4, <1>6, <1>9 DEF KindsOK
  <2> QED BY <1>2, <1>5, <2>1, <2>2 DEF PendingOK
<1>10. CASE /\ x.task.kind = "repository" /\ b.repository = Nil /\ c.repository = id
            /\ c.granting = b.granting /\ c.reading = b.reading /\ c.preparing = b.preparing
  <2>1. IdsOf(c, Fields) = IdsOf(b, Fields) \cup {id} BY <1>1, <1>10, NilIsNoId DEF IdsOf
  <2>2. KindsOK(v, c) BY <1>4, <1>6, <1>10 DEF KindsOK
  <2> QED BY <1>2, <1>5, <2>1, <2>2 DEF PendingOK
<1> QED BY <1>7, <1>8, <1>9, <1>10 DEF Begins

\* The live jobs are the same with the same tasks.
SameLive(w, v) ==
  /\ LiveSet(v) = LiveSet(w)
  /\ \A i \in LiveSet(w) : v.jobs[i].task = w.jobs[i].task

\* Nothing waited for changes when the live jobs do not.
LEMMA SameLiveKeeps ==
  ASSUME NEW w, NEW v, NEW b, SameLive(w, v), PendingOK(w, b), BrowserOK(b)
  PROVE  /\ PendingOK(v, b)
         /\ \A r : ContextOK(w, r, b) => ContextOK(v, r, b)
<1>1. LiveSet(w) = IdsOf(b, Fields) /\ KindsOK(w, b) BY DEF PendingOK
<1>2. /\ b.granting # Nil => v.jobs[b.granting].task.kind = "grant"
      /\ b.reading # Nil => v.jobs[b.reading.id].task.kind = "read"
      /\ b.preparing # Nil => v.jobs[b.preparing.id].task = w.jobs[b.preparing.id].task
      /\ b.preparing # Nil => v.jobs[b.preparing.id].task.kind = "context"
      /\ b.repository # Nil => v.jobs[b.repository].task.kind = "repository"
  BY <1>1, FieldIds DEF KindsOK, SameLive
<1>3. PendingOK(v, b) BY <1>1, <1>2 DEF PendingOK, KindsOK, SameLive
<1>4. \A r : ContextOK(w, r, b) => ContextOK(v, r, b)
  BY <1>2 DEF ContextOK
<1> QED BY <1>3, <1>4

\* A submission that started no threads.
LEMMA NotStartedEffect ==
  ASSUME NEW w, NEW v, NEW id, NEW job, NEW launch, WorkerOK(w),
         Submitted(w, v, id, job, launch), job.result # "ok",
         ~(Admission(w, id) = "launched" /\ launch = "started")
  PROVE  /\ WorkerOK(v) /\ SameLive(w, v)
         /\ \A r, q : JobsOK(w, r) /\ LeasesKept(r, q) => JobsOK(v, q)
<1>1. CASE Admission(w, id) = "launched"
  <2>1. PICK x : Adds(w, v, id, x) /\ NotStarted(x, job) BY <1>1 DEF Submitted
  <2>2. ~Live(x) BY <2>1 DEF NotStarted, Live
  <2>3. SameLive(w, v) BY <2>1, <2>2, AddsLive DEF SameLive
  <2>4. \A q : JobOK(id, x, q) BY <2>1 DEF JobOK, NotStarted
  <2>5. \A r, q : JobsOK(w, r) /\ LeasesKept(r, q) => JobsOK(v, q)
    BY <2>1, <2>4, JobsAdded
  <2> QED BY <2>1, <2>3, <2>5 DEF Adds
<1>2. CASE Admission(w, id) # "launched"
  <2>1. Ends(w, v, {}) BY <1>2 DEF Submitted
  <2>2. LiveSet(v) = LiveSet(w) BY <2>1, EndsLive
  <2>3. \A i \in LiveSet(w) : v.jobs[i].task = w.jobs[i].task
    BY <2>1, <2>2 DEF LiveSet, Ends, EndsJob
  <2>4. \A r, q : JobsOK(w, r) /\ LeasesKept(r, q) => JobsOK(v, q)
    BY <2>1, JobsKept
  <2> QED BY <2>1, <2>2, <2>3, <2>4 DEF SameLive, Ends
<1> QED BY <1>1, <1>2

\* A registry left alone keeps its leases.
LEMMA LeasesKeptSelf ==
  ASSUME NEW r
  PROVE  LeasesKept(r, r)
BY DEF LeasesKept

\* SubmitWork for a job that touches no grant, in a state where all is well.
LEMMA SubmitWorkOk ==
  ASSUME NEW s, Ok(s), s.w.lastAllocated > s.w.lastRequest,
         NEW job \in Job, Live(job), job.result # "ok", NEW launch, NEW field, NEW work,
         JobOK(s.w.lastAllocated, job, s.r), NEW c, c = [s.b EXCEPT ![field] = work],
         KeepsState(s.b, c), c.granting = s.b.granting,
         Begins(s.b, c, s.w.lastAllocated, job.task.kind),
         \/ c.preparing = s.b.preparing /\
            (c.preparing # Nil /\ ~c.preparing.recovery /\ c.reading # Nil
               => c.reading.purpose # "selection")
         \/ /\ job.task.kind = "context"
            /\ c.preparing # Nil
            /\ c.preparing.id = s.w.lastAllocated
            /\ job.task.checked = {}
            /\ ~c.preparing.recovery =>
                 /\ job.task.sources = c.selection
                 /\ c.preparing.revision = c.revision
                 /\ c.reading # Nil => c.reading.purpose # "selection"
  PROVE  Ok(SubmitWork(s, job, launch, field, work))
<1> DEFINE id == s.w.lastAllocated
           v == Submit(s.w, id, job, launch)
           started == Admission(s.w, id) = "launched" /\ launch = "started"
           t == SubmitWork(s, job, launch, field, work)
<1>0. /\ Core(s) /\ PendingOK(s.w, s.b) /\ ScopeOK(s.r, s.b) /\ ActiveOK(s.r, s.b)
      /\ ShownOK(s.b) /\ ContextOK(s.w, s.r, s.b) /\ SelectedOK(s.b, s.b.selection)
  BY DEF Ok, OkBut
<1>1. WorkerOK(s.w) /\ RegistryOK(s.r) /\ BrowserOK(s.b) /\ JobsOK(s.w, s.r) BY <1>0 DEF Core
<1>2. id \in Nat BY <1>1 DEF WorkerOK
<1>3. Submitted(s.w, v, id, job, launch) BY <1>1, <1>2, SubmitEffect
<1>4. /\ started => t = [w |-> v, r |-> s.r, b |-> c]
      /\ ~started => t = [w |-> v, r |-> s.r, b |-> s.b]
  BY <1>0, SubmitWorkEffect
<1> HIDE DEF v, t
<1>5. CASE ~started
  <2>1. t = [w |-> v, r |-> s.r, b |-> s.b] BY <1>4, <1>5
  <2>2. WorkerOK(v) /\ SameLive(s.w, v) /\ JobsOK(v, s.r)
    BY <1>1, <1>3, <1>5, LeasesKeptSelf, NotStartedEffect
  <2>3. PendingOK(v, s.b) /\ ContextOK(v, s.r, s.b) BY <1>0, <1>1, <2>2, SameLiveKeeps
  <2>4. Parts(v, s.r, s.b) BY <1>0, <1>1, <2>2, <2>3 DEF Parts
  <2> QED BY <2>1, <2>4, OkParts DEF t
<1>6. CASE started
  <2>1. t = [w |-> v, r |-> s.r, b |-> c] BY <1>4, <1>6
  <2>2. Adds(s.w, v, id, job) BY <1>3, <1>6 DEF Submitted
  <2>3. PendingOK(v, c) BY <1>0, <1>1, <1>2, <2>2, PendingBegins
  <2>4. JobsOK(v, s.r) BY <1>1, <2>2, LeasesKeptSelf, JobsAdded
  <2>5. ScopeOK(s.r, c) BY <1>0 DEF ScopeOK, KeepsState
  <2>6. ActiveOK(s.r, c)
    <3>1. /\ c.granting = s.b.granting /\ c.session = s.b.session /\ c.epoch = s.b.epoch
          /\ c.folders = s.b.folders
      BY DEF KeepsState
    <3> QED BY ONLY <1>0, <3>1 DEF ActiveOK
  <2>7. ShownOK(c) /\ SelectedOK(c, c.selection) BY <1>0 DEF ShownOK, SelectedOK, KeepsState
  <2>8. ContextOK(v, s.r, c)
    <3>1. v.jobs[id] = job BY <2>2 DEF Adds
    <3>2. CASE c.preparing = s.b.preparing
      <4> SUFFICES ASSUME c.preparing # Nil PROVE ContextOK(v, s.r, c) BY DEF ContextOK
      <4>1. c.preparing.id \in LiveSet(s.w) BY <1>0, <1>1, <3>2, FieldIds DEF PendingOK
      <4>2. v.jobs[c.preparing.id].task = s.w.jobs[c.preparing.id].task
        BY <4>1, <2>2, AddsLive
      <4>3. c.preparing.id # id BY <4>1, <2>2, AddsLive
      <4> QED BY <1>0, <3>2, <4>2, <4>3 DEF ContextOK, KeepsState
    <3>3. CASE c.preparing # s.b.preparing
      BY <3>1, <3>3 DEF ContextOK
    <3> QED BY <3>2, <3>3
  <2>9. WorkerOK(v) /\ BrowserOK(c) BY <2>2 DEF Adds, KeepsState
  <2>10. Parts(v, s.r, c) BY <1>1, <2>3, <2>4, <2>5, <2>6, <2>7, <2>8, <2>9 DEF Parts
  <2> QED BY <2>1, <2>10, OkParts DEF t
<1> QED BY <1>5, <1>6
Allocated(s) == [s EXCEPT !.w = Allocate(@)]

\* allocate_request_id keeps the invariant and brings a new identity.
LEMMA AllocatedOk ==
  ASSUME NEW s, Ok(s)
  PROVE  /\ Ok(Allocated(s))
         /\ Allocated(s).w.jobs = s.w.jobs
         /\ Allocated(s).w.lastRequest = s.w.lastRequest
         /\ Allocated(s).r = s.r
         /\ Allocated(s).b = s.b
         /\ Allocated(s).w.lastAllocated \in Nat
         /\ Allocated(s).w.lastAllocated > s.w.lastRequest
<1> DEFINE n == NextRequest(s.w)
           v == [jobs |-> s.w.jobs, lastRequest |-> s.w.lastRequest, lastAllocated |-> n]
           t == Allocated(s)
<1>0. Core(s) /\ WorkerOK(s.w) BY DEF Ok, OkBut, Core
<1>1. n \in Nat /\ n > s.w.lastRequest BY <1>0 DEF WorkerOK, NextRequest
<1> HIDE DEF n
<1>2. Allocate(s.w) = v BY <1>0 DEF Allocate, WorkerOK, n
<1>3. t = [w |-> v, r |-> s.r, b |-> s.b]
  <2>1. t = [s EXCEPT !.w = v] BY <1>2 DEF Allocated
  <2> HIDE DEF v
  <2> QED BY <2>1, <1>0 DEF Core
<1>4. v.jobs = s.w.jobs /\ v.lastRequest = s.w.lastRequest /\ v.lastAllocated = n OBVIOUS
<1>5. v = [jobs |-> v.jobs, lastRequest |-> v.lastRequest, lastAllocated |-> v.lastAllocated]
  OBVIOUS
<1> HIDE DEF v, t
<1>6. WorkerOK(v) BY <1>0, <1>1, <1>4, <1>5 DEF WorkerOK
<1>7. Parts(v, s.r, s.b)
  <2>1. JobsOK(v, s.r) BY <1>0, <1>4 DEF Core, JobsOK
  <2>2. PendingOK(v, s.b) BY <1>4 DEF Ok, OkBut, PendingOK, LiveSet, KindsOK
  <2>3. ContextOK(v, s.r, s.b) BY <1>4 DEF Ok, OkBut, ContextOK
  <2> QED BY <1>0, <1>6, <2>1, <2>2, <2>3 DEF Parts, Ok, OkBut, Core
<1>8. Ok(t) BY <1>3, <1>7, OkParts
<1>9. t.w = v /\ t.r = s.r /\ t.b = s.b BY <1>3
<1> QED BY <1>1, <1>4, <1>8, <1>9 DEF t

\* A job at its submission.
LEMMA NewJobFacts ==
  ASSUME NEW session \in Sessions, NEW task \in Tasks, NEW borrows \in SUBSET Nat, NEW job,
         job = NewJob(session, task, borrows)
  PROVE  /\ job \in Job /\ Live(job) /\ job.result # "ok" /\ job.task = task
         /\ job.borrows = borrows /\ job.pc = "waiting"
BY NilIsNoId DEF NewJob, Job, Live

\* prepare_repository keeps the invariant.
LEMMA PrepareRepositoryInv ==
  ASSUME LocalInv, NEW launch, PrepareRepository(launch)
  PROVE  LocalInv'
<1> DEFINE s == Allocated(Here)
           id == s.w.lastAllocated
           task == [kind |-> "repository"]
           job == NewJob(browser.session, task, {})
           c == [s.b EXCEPT !["repository"] = id]
<1>0. /\ browser.session # Nil /\ browser.repository = Nil
      /\ Becomes(SubmitWork(s, job, launch, "repository", id))
  BY DEF PrepareRepository, Allocated
<1>1. Ok(Here) /\ Here.w = worker /\ Here.r = grants /\ Here.b = browser BY HereOk
<1>2. /\ Ok(s) /\ s.r = grants /\ s.b = browser /\ id \in Nat /\ id > s.w.lastRequest
  BY <1>1, AllocatedOk
<1> HIDE DEF s
<1>3. BrowserOK(s.b) BY <1>2 DEF Ok, OkBut, Core
<1>4. browser.session \in Sessions BY <1>0, <1>2, <1>3 DEF BrowserOK
<1>5. task \in Tasks /\ task.kind = "repository" BY DEF Tasks, RepositoryTask
<1> HIDE DEF task
<1>6. /\ job \in Job /\ Live(job) /\ job.result # "ok" /\ job.task = task
      /\ job.borrows = {} /\ job.pc = "waiting"
  BY <1>4, <1>5, NewJobFacts
<1> HIDE DEF job, id
<1>7. /\ KeepsState(s.b, c) /\ c.granting = s.b.granting /\ c.reading = s.b.reading
      /\ c.preparing = s.b.preparing /\ c.repository = id
  BY <1>2, <1>3, RepositoryField
<1>8. c = [s.b EXCEPT !["repository"] = id] OBVIOUS
<1> HIDE DEF c
<1>9. JobOK(id, job, s.r) BY <1>5, <1>6 DEF JobOK
<1>10. Begins(s.b, c, id, job.task.kind) BY <1>0, <1>2, <1>5, <1>6, <1>7 DEF Begins
<1>11. c.preparing # Nil /\ ~c.preparing.recovery /\ c.reading # Nil
         => c.reading.purpose # "selection"
  BY <1>2, <1>7 DEF Ok, OkBut, ContextOK
<1>12. id = s.w.lastAllocated BY DEF id
<1>13. Ok(SubmitWork(s, job, launch, "repository", id))
  BY <1>2, <1>6, <1>7, <1>8, <1>9, <1>10, <1>11, <1>12, SubmitWorkOk
<1>14. Parts(worker', grants', browser') BY <1>0, <1>13, BecomesOk
<1> QED BY <1>14, OkParts DEF LocalInv, Here

\* begin_context keeps the invariant, if it prepares the selection there is.
LEMMA BeginContextInv ==
  ASSUME LocalInv, NEW sources \in SUBSET Sources, NEW revision \in Nat,
         NEW recovery \in BOOLEAN, NEW launch,
         BeginContext(sources, revision, recovery, launch),
         ~recovery => /\ sources = browser.selection
                      /\ revision = browser.revision
                      /\ browser.reading # Nil => browser.reading.purpose # "selection"
  PROVE  LocalInv'
<1> DEFINE s == Allocated(Here)
           id == s.w.lastAllocated
           task == [kind |-> "context", sources |-> sources, todo |-> sources,
                    got |-> {}, checked |-> {}]
           job == NewJob(browser.session, task, {})
           asked == [id |-> id, recovery |-> recovery, revision |-> revision]
           c == [s.b EXCEPT !["preparing"] = asked]
<1>0. /\ browser.session # Nil /\ browser.preparing = Nil
      /\ Becomes(SubmitWork(s, job, launch, "preparing", asked))
  BY DEF BeginContext, Allocated
<1>1. Ok(Here) /\ Here.w = worker /\ Here.r = grants /\ Here.b = browser BY HereOk
<1>2. /\ Ok(s) /\ s.r = grants /\ s.b = browser /\ id \in Nat /\ id > s.w.lastRequest
  BY <1>1, AllocatedOk
<1> HIDE DEF s
<1>3. BrowserOK(s.b) BY <1>2 DEF Ok, OkBut, Core
<1>4. browser.session \in Sessions BY <1>0, <1>2, <1>3 DEF BrowserOK
<1>5. /\ task \in ContextTask /\ task.kind = "context" /\ task.sources = sources
      /\ task.checked = {} /\ task.got = {}
  BY DEF ContextTask
<1> HIDE DEF task
<1>15. task \in Tasks BY <1>5 DEF Tasks
<1>6. /\ job \in Job /\ Live(job) /\ job.result # "ok" /\ job.task = task
      /\ job.borrows = {} /\ job.pc = "waiting"
  BY <1>4, <1>15, NewJobFacts
<1> HIDE DEF job
<1>16. /\ asked \in ContextWork /\ asked.id = id /\ asked.recovery = recovery
       /\ asked.revision = revision
  BY <1>2 DEF ContextWork
<1>17. asked # Nil BY <1>16, NilIsNoId
<1> HIDE DEF id, asked
<1>8. c = [s.b EXCEPT !["preparing"] = asked] OBVIOUS
<1> HIDE DEF c
<1>7. /\ KeepsState(s.b, c) /\ c.granting = s.b.granting /\ c.reading = s.b.reading
      /\ c.preparing = asked /\ c.repository = s.b.repository
  <2>1. KeepsState(s.b, c) BY <1>3, <1>8, <1>16, PreparingField
  <2>2. c.granting = s.b.granting /\ c.reading = s.b.reading
    BY <1>3, <1>8, <1>16, PreparingField
  <2>3. c.repository = s.b.repository BY <1>3, <1>8, <1>16, PreparingField
  <2>4. c.preparing = asked BY <1>3, <1>8 DEF BrowserOK
  <2> QED BY <2>1, <2>2, <2>3, <2>4
<1>9. JobOK(id, job, s.r) BY <1>5, <1>6 DEF JobOK
<1>10. Begins(s.b, c, id, job.task.kind)
  BY <1>0, <1>2, <1>5, <1>6, <1>7, <1>16, <1>17 DEF Begins
<1>11. /\ job.task.kind = "context"
       /\ c.preparing # Nil
       /\ c.preparing.id = id
       /\ job.task.checked = {}
       /\ ~c.preparing.recovery =>
            /\ job.task.sources = c.selection
            /\ c.preparing.revision = c.revision
            /\ c.reading # Nil => c.reading.purpose # "selection"
  BY <1>2, <1>5, <1>6, <1>7, <1>16, <1>17 DEF KeepsState
<1>12. id = s.w.lastAllocated BY DEF id
<1>13. Ok(SubmitWork(s, job, launch, "preparing", asked))
  BY <1>2, <1>6, <1>7, <1>8, <1>9, <1>10, <1>11, <1>12, SubmitWorkOk
<1>14. Parts(worker', grants', browser') BY <1>0, <1>13, BecomesOk
<1> QED BY <1>14, OkParts DEF LocalInv, Here

\* begin_read keeps the invariant.
LEMMA BeginReadInv ==
  ASSUME LocalInv, NEW root \in Roots, NEW purpose \in Purposes, NEW launch,
         BeginRead(root, purpose, launch)
  PROVE  LocalInv'
<1> DEFINE a == Allocated(Here)
           id == a.w.lastAllocated
           task == [kind |-> "read", purpose |-> purpose]
<1>0. browser.session # Nil BY DEF BeginRead
<1>1. PICK g \in Resolved(grants, browser.session, root) :
        Becomes(SubmitWork(
          IF purpose = "selection" THEN CancelSelectedContext(CancelRead(a)) ELSE CancelRead(a),
          NewJob(browser.session, task, {g}), launch, "reading",
          [id |-> id, purpose |-> purpose, root |-> root,
           generation |-> g, revision |-> browser.revision]))
  BY DEF BeginRead, Allocated
<1> DEFINE s == IF purpose = "selection" THEN CancelSelectedContext(CancelRead(a))
                ELSE CancelRead(a)
           job == NewJob(browser.session, task, {g})
           asked == [id |-> id, purpose |-> purpose, root |-> root,
                    generation |-> g, revision |-> browser.revision]
           c == [s.b EXCEPT !["reading"] = asked]
<1>2. Ok(Here) /\ Here.w = worker /\ Here.r = grants /\ Here.b = browser BY HereOk
<1>3. /\ Ok(a) /\ a.r = grants /\ a.b = browser /\ id \in Nat /\ id > a.w.lastRequest
  BY <1>2, AllocatedOk
<1> HIDE DEF a
<1>4. Core(a) BY <1>3 DEF Ok, OkBut
<1>5. /\ \E K : Drops(a, s, K)
      /\ s.b.reading = Nil
      /\ purpose = "selection" /\ s.b.preparing # Nil => s.b.preparing.recovery
  <2>1. CASE purpose = "selection"
    <3>1. s = CancelSelectedContext(CancelRead(a)) BY <2>1
    <3> HIDE DEF s
    <3> QED BY <1>4, <3>1, CancelReadAndSelected
  <2>2. CASE purpose # "selection"
    <3>1. s = CancelRead(a) BY <2>2
    <3>2. Drops(a, s, {"reading"}) BY <1>4, <3>1, CancelReadEffect
    <3> HIDE DEF s
    <3> QED BY <2>2, <3>2 DEF Drops, Forgets
  <2> QED BY <2>1, <2>2
<1>6. PICK K : Drops(a, s, K) BY <1>5
<1>7. Becomes(SubmitWork(s, job, launch, "reading", asked)) BY <1>1
<1> HIDE DEF s
<1>8. Ok(s) BY <1>3, <1>6, DropsOk
<1>9. /\ s.w.lastAllocated = id /\ s.w.lastRequest = a.w.lastRequest
  BY <1>6 DEF Drops, Ends
<1>10. s.b.session = browser.session /\ s.b.revision = browser.revision
  BY <1>3, <1>6 DEF Drops, Forgets
<1>11. BrowserOK(s.b) /\ RegistryOK(s.r) BY <1>8 DEF Ok, OkBut, Core
<1>12. browser.session \in Sessions /\ browser.revision \in Nat
  BY <1>0, <1>10, <1>11 DEF BrowserOK
<1>13. g \in DOMAIN grants.slots /\ grants.slots[g].active BY DEF Resolved
<1>14. g \in Nat /\ grants.slots[g].physical
  BY <1>13, <1>3, <1>4 DEF Core, RegistryOK, SlotOK
<1>15. g \in DOMAIN s.r.slots /\ s.r.slots[g].physical
  BY <1>3, <1>6, <1>13, <1>14 DEF Drops, Retires, LeasesKept
<1>16. task \in ReadTask /\ task.kind = "read" BY DEF ReadTask
<1> HIDE DEF task
<1>17. task \in Tasks BY <1>16 DEF Tasks
<1>18. {g} \in SUBSET Nat BY <1>14
<1>19. /\ job \in Job /\ Live(job) /\ job.result # "ok" /\ job.task = task
       /\ job.borrows = {g} /\ job.pc = "waiting"
  BY <1>12, <1>17, <1>18, NewJobFacts
<1> HIDE DEF job
<1>20. /\ asked \in ReadWork /\ asked.id = id /\ asked.purpose = purpose
  BY <1>3, <1>12, <1>14, BrowserAssumption DEF ReadWork
<1>21. asked # Nil BY <1>20, NilIsNoId
<1> HIDE DEF id, asked
<1>23. c = [s.b EXCEPT !["reading"] = asked] OBVIOUS
<1> HIDE DEF c
<1>22. /\ KeepsState(s.b, c) /\ c.granting = s.b.granting /\ c.reading = asked
       /\ c.preparing = s.b.preparing /\ c.repository = s.b.repository
  <2>1. KeepsState(s.b, c) BY <1>11, <1>23, <1>20, ReadingField
  <2>2. c.granting = s.b.granting /\ c.preparing = s.b.preparing /\ c.repository = s.b.repository
    BY <1>11, <1>23, <1>20, ReadingField
  <2>3. c.reading = asked BY <1>11, <1>23 DEF BrowserOK
  <2> QED BY <2>1, <2>2, <2>3
<1>24. JobOK(id, job, s.r) BY <1>15, <1>16, <1>19 DEF JobOK
<1>25. Begins(s.b, c, id, job.task.kind)
  BY <1>5, <1>16, <1>19, <1>20, <1>21, <1>22 DEF Begins
<1>26. c.preparing # Nil /\ ~c.preparing.recovery /\ c.reading # Nil
         => c.reading.purpose # "selection"
  BY <1>5, <1>20, <1>22
<1>27. s.w.lastAllocated > s.w.lastRequest BY <1>3, <1>9
<1>28. JobOK(s.w.lastAllocated, job, s.r) BY <1>9, <1>24
<1>29. Begins(s.b, c, s.w.lastAllocated, job.task.kind) BY <1>9, <1>25
<1>30. Ok(SubmitWork(s, job, launch, "reading", asked))
  BY <1>8, <1>19, <1>22, <1>23, <1>26, <1>27, <1>28, <1>29, SubmitWorkOk
<1>31. Parts(worker', grants', browser') BY <1>7, <1>30, BecomesOk
<1> QED BY <1>31, OkParts DEF LocalInv, Here

\* prepare_selection and revalidate keep the invariant.
LEMMA PreparationsInv ==
  ASSUME LocalInv, NEW launch,
         \/ PrepareSelection(launch)
         \/ \E sources \in Selections \ {{}} : Revalidate(sources, launch)
  PROVE  LocalInv'
<1>1. browser.selection \in SUBSET Sources /\ browser.revision \in Nat
  BY InvParts DEF Parts, BrowserOK
<1>2. CASE PrepareSelection(launch)
  <2>1. BeginContext(browser.selection, browser.revision, FALSE, launch)
    BY <1>2 DEF PrepareSelection
  <2>2. browser.reading # Nil => browser.reading.purpose # "selection"
    BY <1>2 DEF PrepareSelection
  <2> QED BY <1>1, <2>1, <2>2, BeginContextInv
<1>3. ASSUME NEW sources \in Selections, Revalidate(sources, launch)
      PROVE  LocalInv'
  <2>1. sources \in SUBSET Sources BY DEF Selections
  <2>2. BeginContext(sources, 1, TRUE, launch) BY <1>3 DEF Revalidate
  <2> QED BY <2>1, <2>2, BeginContextInv
<1> QED BY <1>2, <1>3

\* A handler that leaves a good state leaves the invariant.
LEMMA BecomesInv ==
  ASSUME NEW s, Ok(s), Becomes(s)
  PROVE  LocalInv'
BY BecomesOk, OkParts DEF LocalInv, Here

\* The three cancellations keep the invariant.
LEMMA CancelsInv ==
  ASSUME LocalInv, CancelBrowsingNow \/ CancelContextNow \/ CancelRepositoryNow
  PROVE  LocalInv'
<1>1. Ok(Here) /\ Core(Here) BY HereOk
<1>2. CASE CancelBrowsingNow
  <2>1. Ok(CancelBrowsing(Here)) BY <1>1, CancelBrowsingEffect, DropsOk
  <2> QED BY <1>2, <2>1, BecomesInv DEF CancelBrowsingNow
<1>3. CASE CancelContextNow
  <2>1. Ok(CancelContext(Here)) BY <1>1, CancelContextEffect, DropsOk
  <2> QED BY <1>3, <2>1, BecomesInv DEF CancelContextNow
<1>4. CASE CancelRepositoryNow
  <2>1. Ok(CancelRepository(Here)) BY <1>1, CancelRepositoryEffect, DropsOk
  <2> QED BY <1>4, <2>1, BecomesInv DEF CancelRepositoryNow
<1> QED BY <1>2, <1>3, <1>4

\* remove_evidence and clear_evidence keep the invariant.
LEMMA EvidenceInv ==
  ASSUME LocalInv, ClearEvidence \/ \E source \in Sources : RemoveEvidence(source)
  PROVE  LocalInv'
<1>1. Ok(Here) /\ Core(Here) /\ Here.b = browser BY HereOk
<1>2. ASSUME NEW source \in Sources, RemoveEvidence(source)
      PROVE  LocalInv'
  <2> DEFINE left == browser.selection \ {source}
  <2>1. left \in SUBSET Sources /\ SelectedOK(Here.b, left)
    BY <1>1 DEF Core, BrowserOK, Ok, SelectedOK
  <2> HIDE DEF left
  <2>2. Ok(SelectionChanged(Here, left)) BY <1>1, <2>1, SelectionChangedOk DEF Ok
  <2>3. Becomes(SelectionChanged(Here, left)) BY <1>2 DEF RemoveEvidence, left
  <2> QED BY <2>2, <2>3, BecomesInv
<1>3. CASE ClearEvidence
  <2> DEFINE s == CancelRead(Here)
  <2>1. Drops(Here, s, {"reading"}) BY <1>1, CancelReadEffect
  <2> HIDE DEF s
  <2>2. Ok(s) BY <1>1, <2>1, DropsOk
  <2>3. {} \in SUBSET Sources /\ SelectedOK(s.b, {}) BY DEF SelectedOK
  <2>4. Ok(SelectionChanged(s, {})) BY <2>2, <2>3, SelectionChangedOk DEF Ok
  <2>5. Becomes(SelectionChanged(s, {})) BY <1>3 DEF ClearEvidence, s
  <2> QED BY <2>4, <2>5, BecomesInv
<1> QED BY <1>2, <1>3

-----------------------------------------------------------------------------
(* Polls. *)

\* Drops, from what becomes of the three parts.
LEMMA DropsFrom ==
  ASSUME NEW s, Core(s), NEW v, NEW q, NEW c, NEW K, NEW t,
         t = [w |-> v, r |-> q, b |-> c], Ends(s.w, v, IdsOf(s.b, K)),
         Retires(s.r, q, GrantOf(s.b, K)), Forgets(s.b, c, K)
  PROVE  Drops(s, t, K)
<1>1. t.w = v /\ t.r = q /\ t.b = c /\ t = [w |-> t.w, r |-> t.r, b |-> t.b] OBVIOUS
<1>2. JobsOK(v, q) BY JobsKept DEF Core, Retires
<1>3. Core(t) BY <1>1, <1>2 DEF Core, Ends, Retires, Forgets
<1> QED BY <1>1, <1>3 DEF Drops

\* A polled job that is not there yet changes nothing but what was retired.
LEMMA QuietEnds ==
  ASSUME NEW s, Ok(s), NEW v, Ends(s.w, v, {}), NEW t, t = [w |-> v, r |-> s.r, b |-> s.b]
  PROVE  Ok(t)
<1>1. Core(s) BY DEF Ok, OkBut
<1>2. IdsOf(s.b, {}) = {} /\ GrantOf(s.b, {}) = {} BY DEF IdsOf, GrantOf
<1>3. Retires(s.r, s.r, {}) BY <1>1, RetiresNone DEF Core
<1>4. Forgets(s.b, s.b, {}) BY <1>1 DEF Forgets, Core
<1>5. Drops(s, t, {}) BY <1>1, <1>2, <1>3, <1>4, DropsFrom
<1> QED BY <1>5, DropsOk

\* The fields, emptied one at a time.
LEMMA ForgetOne ==
  ASSUME NEW b, BrowserOK(b)
  PROVE  /\ Forgets(b, [b EXCEPT !.granting = Nil], {"granting"})
         /\ Forgets(b, [b EXCEPT !.reading = Nil], {"reading"})
         /\ Forgets(b, [b EXCEPT !.preparing = Nil], {"preparing"})
         /\ Forgets(b, [b EXCEPT !.repository = Nil], {"repository"})
<1>1. Forgets(b, [b EXCEPT !.granting = Nil], {"granting"}) BY DEF BrowserOK, Forgets
<1>2. Forgets(b, [b EXCEPT !.reading = Nil], {"reading"}) BY DEF BrowserOK, Forgets
<1>3. Forgets(b, [b EXCEPT !.preparing = Nil], {"preparing"}) BY DEF BrowserOK, Forgets
<1>4. Forgets(b, [b EXCEPT !.repository = Nil], {"repository"}) BY DEF BrowserOK, Forgets
<1> QED BY <1>1, <1>2, <1>3, <1>4

\* Polling the preparation keeps the invariant.
LEMMA PollContextInv ==
  ASSUME LocalInv, PollContext
  PROVE  LocalInv'
<1> DEFINE id == browser.preparing.id
           v == Poll(worker, id, FALSE)
           c == [browser EXCEPT !.preparing = Nil]
<1>0. Parts(worker, grants, browser) BY InvParts
<1>1. Ok(Here) /\ Core(Here) /\ Here.w = worker /\ Here.r = grants /\ Here.b = browser BY HereOk
<1>2. WorkerOK(worker) /\ RegistryOK(grants) /\ BrowserOK(browser) BY <1>0 DEF Parts
<1>3. browser.preparing # Nil BY DEF PollContext
<1>4. browser.preparing \in ContextWork /\ id \in Nat
  BY <1>2, <1>3 DEF BrowserOK, ContextWork
<1>5. CASE PollStatus(worker, id) = "delivered"
  <2> DEFINE t == [w |-> v, r |-> grants, b |-> c]
  <2>1. Becomes(t) BY <1>5 DEF PollContext, Here, Becomes
  <2>2. IdsOf(browser, {"preparing"}) = {id} BY <1>3, <1>4 DEF IdsOf
  <2>3. GrantOf(browser, {"preparing"}) = {} BY DEF GrantOf
  <2>4. Ends(worker, v, {id}) BY <1>2, <1>5, EndsPoll
  <2>5. Forgets(browser, c, {"preparing"}) BY <1>2, ForgetOne
  <2>6. Retires(grants, grants, {}) BY <1>2, RetiresNone
  <2> HIDE DEF v, c
  <2>7. t = [w |-> v, r |-> grants, b |-> c] OBVIOUS
  <2> HIDE DEF t, id
  <2>8. Drops(Here, t, {"preparing"})
    BY <1>1, <2>2, <2>3, <2>4, <2>5, <2>6, <2>7, DropsFrom
  <2>9. Ok(t) BY <1>1, <2>8, DropsOk
  <2> QED BY <2>1, <2>9, BecomesInv
<1>6. CASE PollStatus(worker, id) # "delivered"
  <2> DEFINE t == [w |-> v, r |-> grants, b |-> browser]
  <2>1. Becomes(t) BY <1>6 DEF PollContext, Here, Becomes
  <2>2. Ends(worker, v, {}) BY <1>2, <1>6, EndsPoll
  <2> HIDE DEF v
  <2>3. t = [w |-> v, r |-> Here.r, b |-> Here.b] BY <1>1
  <2> HIDE DEF t
  <2>4. Ok(t) BY <1>1, <2>2, <2>3, QuietEnds
  <2> QED BY <2>1, <2>4, BecomesInv
<1> QED BY <1>5, <1>6

\* Polling the repository work keeps the invariant.
LEMMA PollRepositoryInv ==
  ASSUME LocalInv, PollRepository
  PROVE  LocalInv'
<1> DEFINE id == browser.repository
           v == Poll(worker, id, FALSE)
           c == [browser EXCEPT !.repository = Nil]
<1>0. Parts(worker, grants, browser) BY InvParts
<1>1. Ok(Here) /\ Core(Here) /\ Here.w = worker /\ Here.r = grants /\ Here.b = browser BY HereOk
<1>2. WorkerOK(worker) /\ RegistryOK(grants) /\ BrowserOK(browser) BY <1>0 DEF Parts
<1>3. browser.repository # Nil BY DEF PollRepository
<1>4. id \in Nat BY <1>2, <1>3 DEF BrowserOK
<1>5. CASE PollStatus(worker, id) = "delivered"
  <2> DEFINE t == [w |-> v, r |-> grants, b |-> c]
  <2>1. Becomes(t) BY <1>5 DEF PollRepository, Here, Becomes
  <2>2. IdsOf(browser, {"repository"}) = {id} BY <1>3, <1>4 DEF IdsOf
  <2>3. GrantOf(browser, {"repository"}) = {} BY DEF GrantOf
  <2>4. Ends(worker, v, {id}) BY <1>2, <1>5, EndsPoll
  <2>5. Forgets(browser, c, {"repository"}) BY <1>2, ForgetOne
  <2>6. Retires(grants, grants, {}) BY <1>2, RetiresNone
  <2> HIDE DEF v, c
  <2>7. t = [w |-> v, r |-> grants, b |-> c] OBVIOUS
  <2> HIDE DEF t, id
  <2>8. Drops(Here, t, {"repository"})
    BY <1>1, <2>2, <2>3, <2>4, <2>5, <2>6, <2>7, DropsFrom
  <2>9. Ok(t) BY <1>1, <2>8, DropsOk
  <2> QED BY <2>1, <2>9, BecomesInv
<1>6. CASE PollStatus(worker, id) # "delivered"
  <2> DEFINE t == [w |-> v, r |-> grants, b |-> browser]
  <2>1. Becomes(t) BY <1>6 DEF PollRepository, Here, Becomes
  <2>2. Ends(worker, v, {}) BY <1>2, <1>6, EndsPoll
  <2> HIDE DEF v
  <2>3. t = [w |-> v, r |-> Here.r, b |-> Here.b] BY <1>1
  <2> HIDE DEF t
  <2>4. Ok(t) BY <1>1, <2>2, <2>3, QuietEnds
  <2> QED BY <2>1, <2>4, BecomesInv
<1> QED BY <1>5, <1>6
\* The browser with other folders.
LEMMA FoldersField ==
  ASSUME NEW b, BrowserOK(b), NEW folders, folders \in [DOMAIN folders -> Nat],
         DOMAIN folders \subseteq Roots, NEW c, c = [b EXCEPT !.folders = folders]
  PROVE  /\ BrowserOK(c)
         /\ c.session = b.session /\ c.epoch = b.epoch /\ c.revision = b.revision
         /\ c.folders = folders /\ c.selection = b.selection
         /\ c.listing = b.listing /\ c.preview = b.preview /\ c.closed = b.closed
         /\ c.granting = b.granting /\ c.reading = b.reading
         /\ c.preparing = b.preparing /\ c.repository = b.repository
<1>1. c = [session |-> b.session, epoch |-> b.epoch, revision |-> b.revision,
              folders |-> folders, selection |-> b.selection,
              listing |-> b.listing, preview |-> b.preview,
              granting |-> b.granting, reading |-> b.reading,
              preparing |-> b.preparing, repository |-> b.repository,
              closed |-> b.closed]
  BY DEF BrowserOK
<1>2. /\ c.session = b.session /\ c.epoch = b.epoch /\ c.revision = b.revision
      /\ c.folders = folders /\ c.selection = b.selection
      /\ c.listing = b.listing /\ c.preview = b.preview /\ c.closed = b.closed
      /\ c.granting = b.granting /\ c.reading = b.reading
      /\ c.preparing = b.preparing /\ c.repository = b.repository
  BY <1>1
<1>3. BrowserOK(c) BY <1>1, <1>2 DEF BrowserOK
<1> QED BY <1>2, <1>3

\* What accept comes to when it accepts.
Accepted(r, q, id) ==
  /\ RegistryOK(q)
  /\ LeasesKept(r, q)
  /\ q.scope = r.scope
  /\ q.lastEpoch = r.lastEpoch
  /\ q.closed = r.closed
  /\ DOMAIN q.slots = DOMAIN r.slots
  /\ \A g \in DOMAIN r.slots \ {id} : q.slots[g] = r.slots[g]
  /\ q.slots[id].active
  /\ q.slots[id].session = r.slots[id].session
  /\ q.slots[id].epoch = r.slots[id].epoch
  /\ q.slots[id].root = r.slots[id].root

\* accept makes the slot of its reservation active.
LEMMA AcceptEffect ==
  ASSUME NEW r, RegistryOK(r), NEW id, CanAccept(r, id), NEW q, q = Accept(r, id)
  PROVE  Accepted(r, q, id)
<1> DEFINE x == r.slots[id]
           y == [x EXCEPT !.active = TRUE]
           f == [r.slots EXCEPT ![id] = y]
<1>0. id \in DOMAIN r.slots BY DEF CanAccept
<1>1. x \in Slot /\ SlotOK(x) BY <1>0 DEF RegistryOK
<1>2. /\ x.physical /\ x.attempted /\ ~x.running /\ ~x.retired /\ x.root # NoRoot
  BY DEF CanAccept
<1>3. q = WithSlot(r, id, y)
  <2>1. q = [r EXCEPT !.slots[id].active = TRUE] BY DEF Accept
  <2> QED BY <2>1, <1>0 DEF WithSlot, RegistryOK
<1> HIDE DEF x
<1>4. /\ y \in Slot /\ y.active /\ y.session = x.session /\ y.epoch = x.epoch
      /\ y.root = x.root /\ y.physical = x.physical /\ y.running = x.running
      /\ y.retired = x.retired /\ y.destroying = x.destroying /\ y.attempted = x.attempted
  BY <1>1 DEF Slot
<1> HIDE DEF y
<1>5. SlotOK(y) BY <1>1, <1>2, <1>4 DEF SlotOK
<1>6. /\ q.slots = f /\ q.scope = r.scope /\ q.lastEpoch = r.lastEpoch
      /\ q.lastRequest = r.lastRequest /\ q.closed = r.closed
      /\ q = [slots |-> f, scope |-> r.scope, lastEpoch |-> r.lastEpoch,
              lastRequest |-> r.lastRequest, closed |-> r.closed]
  BY <1>0, <1>3, WithSlotFields
<1>7. /\ DOMAIN f = DOMAIN r.slots /\ f[id] = y
      /\ \A h \in DOMAIN r.slots \ {id} : f[h] = r.slots[h]
      /\ f \in [DOMAIN r.slots -> Slot]
  BY <1>0, <1>4 DEF RegistryOK
<1> HIDE DEF f
<1>8. RegistryOK(q) BY <1>5, <1>6, <1>7 DEF RegistryOK
<1>9. r.slots[id] = x BY DEF x
<1>10. LeasesKept(r, q) BY <1>4, <1>6, <1>7, <1>9 DEF LeasesKept
<1> QED BY <1>4, <1>6, <1>7, <1>8, <1>9, <1>10 DEF Accepted

\* The root of an accepted grant is not listed yet.
LEMMA AcceptedRootIsNew ==
  ASSUME NEW r, NEW b, RegistryOK(r), ScopeOK(r, b), ActiveOK(r, b), BrowserOK(b),
         b.granting # Nil, CanAccept(r, b.granting)
  PROVE  /\ r.slots[b.granting].root \in Roots
         /\ r.slots[b.granting].root \notin DOMAIN b.folders
         /\ r.slots[b.granting].session = b.session
         /\ r.slots[b.granting].epoch = b.epoch
<1> DEFINE id == b.granting
           root == r.slots[id].root
<1>1. id \in DOMAIN r.slots /\ root # NoRoot /\ Current(r, r.slots[id])
      /\ ~DuplicateRoot(r, id)
  BY DEF CanAccept
<1>2. root \in Roots BY <1>1 DEF RegistryOK, Slot
<1>3. r.slots[id].session = b.session /\ r.slots[id].epoch = b.epoch
  BY <1>1 DEF Current, ScopeOK
<1>4. ASSUME root \in DOMAIN b.folders PROVE FALSE
  <2> DEFINE g == b.folders[root]
  <2>1. g \in DOMAIN r.slots /\ r.slots[g].active /\ r.slots[g].root = root
    BY <1>4 DEF ActiveOK
  <2>2. g # id /\ r.slots[g].session = b.session BY <2>1 DEF ActiveOK
  <2>3. ~r.slots[g].retired BY <2>1 DEF RegistryOK, SlotOK
  <2> QED BY <1>1, <1>3, <2>1, <2>2, <2>3 DEF DuplicateRoot
<1> QED BY <1>2, <1>3, <1>4

\* The folders once a grant is accepted.
LEMMA FolderAdded ==
  ASSUME NEW r, NEW q, NEW b, NEW c, NEW id, NEW root, RegistryOK(r), RegistryOK(q),
         ActiveOK(r, b), Accepted(r, q, id), id \in DOMAIN r.slots, id = b.granting,
         root = r.slots[id].root, root \notin DOMAIN b.folders,
         r.slots[id].session = b.session, r.slots[id].epoch = b.epoch,
         c.granting = Nil, c.session = b.session, c.epoch = b.epoch,
         DOMAIN c.folders = DOMAIN b.folders \cup {root}, c.folders[root] = id,
         \A x \in DOMAIN b.folders : c.folders[x] = b.folders[x]
  PROVE  ActiveOK(q, c)
<1>1. \A g \in DOMAIN q.slots : g # Nil BY NilIsNoId DEF RegistryOK
<1>2. \A g \in DOMAIN q.slots : ~q.slots[g].retired => q.slots[g].active
  BY DEF Accepted, ActiveOK
<1>3. ASSUME NEW g \in DOMAIN q.slots, q.slots[g].active
      PROVE  /\ g # c.granting
             /\ q.slots[g].session = c.session
             /\ q.slots[g].epoch = c.epoch
             /\ q.slots[g].root \in DOMAIN c.folders
             /\ c.folders[q.slots[g].root] = g
  <2>1. CASE g = id BY <1>1, <2>1 DEF Accepted
  <2>2. CASE g # id
    <3>1. g \in DOMAIN r.slots /\ q.slots[g] = r.slots[g] BY <2>2 DEF Accepted
    <3> QED BY <1>1, <1>3, <3>1 DEF ActiveOK
  <2> QED BY <2>1, <2>2
<1>4. ASSUME NEW x \in DOMAIN c.folders
      PROVE  /\ c.folders[x] \in DOMAIN q.slots
             /\ q.slots[c.folders[x]].active
             /\ q.slots[c.folders[x]].root = x
  <2>1. CASE x = root BY <2>1 DEF Accepted
  <2>2. CASE x # root
    <3>1. x \in DOMAIN b.folders /\ c.folders[x] = b.folders[x] BY <2>2
    <3>2. b.folders[x] \in DOMAIN r.slots /\ b.folders[x] # id
          /\ r.slots[b.folders[x]].active /\ r.slots[b.folders[x]].root = x
      BY <3>1 DEF ActiveOK
    <3> QED BY <3>1, <3>2 DEF Accepted
  <2> QED BY <2>1, <2>2
<1> QED BY <1>2, <1>3, <1>4 DEF ActiveOK
AcceptedState(s) ==
  LET id == s.b.granting
      e == [s.b EXCEPT !.granting = Nil]
      root == s.r.slots[id].root
      folders == [x \in DOMAIN e.folders \cup {root} |->
                    IF x = root THEN id ELSE e.folders[x]]
  IN [w |-> Poll(s.w, id, FALSE), r |-> Accept(s.r, id),
      b |-> [e EXCEPT !.folders = folders]]

\* An accepted grant and its folder keep the invariant.
LEMMA PollGrantAccepts ==
  ASSUME NEW s, Ok(s), s.b.granting # Nil, PollStatus(s.w, s.b.granting) = "delivered",
         CanAccept(s.r, s.b.granting)
  PROVE  Ok(AcceptedState(s))
<1> DEFINE id == s.b.granting
           b == s.b
           v == Poll(s.w, id, FALSE)
           q == Accept(s.r, id)
           e == [b EXCEPT !.granting = Nil]
           root == s.r.slots[id].root
           folders == [x \in DOMAIN e.folders \cup {root} |->
                         IF x = root THEN id ELSE e.folders[x]]
           c == [e EXCEPT !.folders = folders]
<1>0. id \in DOMAIN s.r.slots BY DEF CanAccept
<1>1. /\ Core(s) /\ PendingOK(s.w, b) /\ ScopeOK(s.r, b) /\ ActiveOK(s.r, b) /\ ShownOK(b)
      /\ ContextOK(s.w, s.r, b) /\ SelectedOK(b, b.selection)
  BY DEF Ok, OkBut
<1>2. WorkerOK(s.w) /\ RegistryOK(s.r) /\ BrowserOK(b) /\ JobsOK(s.w, s.r) BY <1>1 DEF Core
<1>3. id \in Nat BY <1>2 DEF BrowserOK
<1>4. Ends(s.w, v, {id}) BY <1>2, EndsPoll
<1>5. IdsOf(b, {"granting"}) = {id} BY <1>3 DEF IdsOf
<1>23. AcceptedState(s) = [w |-> v, r |-> q, b |-> c] BY DEF AcceptedState
<1>6. Forgets(b, e, {"granting"}) BY <1>2, ForgetOne
<1>7. Accepted(s.r, q, id) BY <1>2, AcceptEffect
<1>8. /\ root \in Roots /\ root \notin DOMAIN b.folders
      /\ s.r.slots[id].session = b.session /\ s.r.slots[id].epoch = b.epoch
  BY <1>1, <1>2, AcceptedRootIsNew
<1>24. /\ root = s.r.slots[id].root /\ id = b.granting /\ b.granting # Nil
       /\ c = [e EXCEPT !.folders = folders]
  OBVIOUS
<1> HIDE DEF v, q, e, root, c, id, b
<1>9. /\ BrowserOK(e) /\ e.folders = b.folders /\ e.granting = Nil
      /\ e.session = b.session /\ e.epoch = b.epoch /\ e.selection = b.selection
      /\ e.listing = b.listing /\ e.preview = b.preview /\ e.closed = b.closed
  BY <1>6 DEF Forgets
<1>10. /\ DOMAIN folders = DOMAIN b.folders \cup {root} /\ folders[root] = id
       /\ \A x \in DOMAIN b.folders : folders[x] = b.folders[x]
       /\ folders \in [DOMAIN folders -> Nat] /\ DOMAIN folders \subseteq Roots
  BY <1>2, <1>3, <1>8, <1>9 DEF BrowserOK
<1> HIDE DEF folders
<1>11. /\ BrowserOK(c)
       /\ c.session = e.session /\ c.epoch = e.epoch /\ c.revision = e.revision
       /\ c.folders = folders /\ c.selection = e.selection
       /\ c.listing = e.listing /\ c.preview = e.preview /\ c.closed = e.closed
       /\ c.granting = e.granting /\ c.reading = e.reading
       /\ c.preparing = e.preparing /\ c.repository = e.repository
  BY ONLY <1>9, <1>10, <1>24, FoldersField
<1>12. RegistryOK(q) /\ LeasesKept(s.r, q) BY <1>7 DEF Accepted
<1>13. JobsOK(v, q) BY <1>2, <1>4, <1>12, JobsKept
<1>14. PendingOK(v, e) BY <1>1, <1>2, <1>4, <1>5, <1>6, PendingDrops
<1>15. PendingOK(v, c)
  BY ONLY <1>11, <1>14 DEF PendingOK, IdsOf, KindsOK
<1>16. ScopeOK(q, c) BY ONLY <1>1, <1>7, <1>9, <1>11 DEF ScopeOK, Accepted
<1>18. ActiveOK(q, c)
  <2>2. /\ c.granting = Nil /\ c.session = b.session /\ c.epoch = b.epoch
        /\ DOMAIN c.folders = DOMAIN b.folders \cup {root} /\ c.folders[root] = id
        /\ \A x \in DOMAIN b.folders : c.folders[x] = b.folders[x]
    BY ONLY <1>9, <1>10, <1>11
  <2> QED BY ONLY <1>0, <1>1, <1>2, <1>7, <1>8, <1>12, <1>24, <2>2, FolderAdded
<1>19. ShownOK(c) BY ONLY <1>1, <1>9, <1>10, <1>11 DEF ShownOK
<1>20. SelectedOK(c, c.selection) BY <1>1, <1>9, <1>10, <1>11 DEF SelectedOK
<1>21. ContextOK(v, q, c)
  <2>1. RegStep(s.r, s.r) BY DEF RegStep
  <2>2. ContextOK(v, s.r, e)
    BY <1>1, <1>2, <1>4, <1>5, <1>6, <1>14, <2>1, ContextDrops
  <2>3. \A g \in DOMAIN s.r.slots : s.r.slots[g].active => g \in DOMAIN q.slots /\ q.slots[g].active
    BY <1>7 DEF Accepted
  <2> QED BY <1>11, <2>2, <2>3 DEF ContextOK
<1>22. Parts(v, q, c)
  BY <1>4, <1>11, <1>12, <1>13, <1>15, <1>16, <1>18, <1>19, <1>20, <1>21 DEF Parts, Ends
<1> QED BY <1>22, <1>23, OkParts

\* A state polled for a grant, part by part.
LEMMA PolledState ==
  ASSUME NEW s, s = [w |-> s.w, r |-> s.r, b |-> s.b], NEW v, NEW q, NEW t,
         t = [[s EXCEPT !.w = v, !.b.granting = Nil] EXCEPT !.r = q]
  PROVE  t = [w |-> v, r |-> q, b |-> [s.b EXCEPT !.granting = Nil]]
OBVIOUS

\* A state with other folders, part by part.
LEMMA FolderedState ==
  ASSUME NEW v, NEW q, NEW e, NEW folders
  PROVE  [[w |-> v, r |-> q, b |-> e] EXCEPT !.b.folders = folders]
           = [w |-> v, r |-> q, b |-> [e EXCEPT !.folders = folders]]
OBVIOUS

\* poll_grant keeps the invariant.
LEMMA PollGrantOk ==
  ASSUME NEW s, Ok(s), NEW t, t = PollGrant(s)
  PROVE  Ok(t)
<1> DEFINE id == s.b.granting
           v == Poll(s.w, id, FALSE)
           e == [s.b EXCEPT !.granting = Nil]
<1>1. Core(s) BY DEF Ok, OkBut
<1>2. WorkerOK(s.w) /\ RegistryOK(s.r) /\ BrowserOK(s.b) BY <1>1 DEF Core
<1>3. s = [w |-> s.w, r |-> s.r, b |-> s.b] BY <1>1 DEF Core
<1>4. CASE id = Nil BY <1>4 DEF PollGrant
<1>5. CASE id # Nil /\ PollStatus(s.w, id) # "delivered"
  <2> DEFINE x == Reap(s.w)
  <2>1. Ends(s.w, x, {}) BY <1>2, EndsReap
  <2>2. t = [s EXCEPT !.w = x] BY <1>5 DEF PollGrant
  <2> HIDE DEF x
  <2>3. t = [w |-> x, r |-> s.r, b |-> s.b] BY <1>3, <2>2
  <2> QED BY <2>1, <2>3, QuietEnds
<1>6. ASSUME id # Nil, PollStatus(s.w, id) = "delivered"
      PROVE  Ok([w |-> v, r |-> Retire(s.r, {id}), b |-> e])
  <2> DEFINE x == Retire(s.r, {id})
             u == [w |-> v, r |-> x, b |-> e]
  <2>1. Ends(s.w, v, {id}) BY <1>2, <1>6, EndsPoll
  <2>2. Retires(s.r, x, {id}) BY <1>2, RetireEffect
  <2>3. Forgets(s.b, e, {"granting"}) BY <1>2, ForgetOne
  <2>4. id \in Nat BY <1>2, <1>6 DEF BrowserOK
  <2>5. IdsOf(s.b, {"granting"}) = {id} /\ GrantOf(s.b, {"granting"}) = {id}
    BY <2>4 DEF IdsOf, GrantOf
  <2> HIDE DEF v, e, x, id
  <2>6. Drops(s, u, {"granting"}) BY <1>1, <2>1, <2>2, <2>3, <2>5, DropsFrom
  <2> HIDE DEF u
  <2>7. Ok(u) BY <2>6, DropsOk
  <2> QED BY <2>7 DEF u, x, v, e
<1>7. CASE /\ id # Nil /\ PollStatus(s.w, id) = "delivered"
           /\ s.w.jobs[id].result = "failed" \/ ~CanAccept(s.r, id)
  <2>1. t = [[s EXCEPT !.w = Poll(@, id, FALSE), !.b.granting = Nil]
               EXCEPT !.r = Retire(@, {id})]
    BY <1>7 DEF PollGrant, Accept
  <2>2. t = [w |-> v, r |-> Retire(s.r, {id}), b |-> e] BY <1>3, <2>1
  <2> QED BY <1>6, <1>7, <2>2
<1>8. CASE /\ id # Nil /\ PollStatus(s.w, id) = "delivered"
           /\ s.w.jobs[id].result # "failed" /\ CanAccept(s.r, id)
  <2> DEFINE q == Accept(s.r, id)
             root == s.r.slots[id].root
             folders == [x \in DOMAIN e.folders \cup {root} |->
                           IF x = root THEN id ELSE e.folders[x]]
             c == [e EXCEPT !.folders = folders]
             u == [w |-> v, r |-> q, b |-> c]
  <2>1. t = CancelContext(u)
    <3> DEFINE polled == [[s EXCEPT !.w = v, !.b.granting = Nil] EXCEPT !.r = q]
               listed == [x \in DOMAIN polled.b.folders \cup {root} |->
                            IF x = root THEN id ELSE polled.b.folders[x]]
    <3>1. t = CancelContext([polled EXCEPT !.b.folders = listed])
      BY <1>8 DEF PollGrant
    <3> HIDE DEF v, q, root, id
    <3>2. polled = [w |-> v, r |-> q, b |-> e] BY <1>3, PolledState
    <3> HIDE DEF polled, e
    <3>3. listed = folders BY <3>2
    <3> HIDE DEF listed, folders
    <3>4. [polled EXCEPT !.b.folders = listed] = u BY <3>2, <3>3, FolderedState
    <3> QED BY <3>1, <3>4
  <2>4. u = AcceptedState(s) BY DEF AcceptedState
  <2> HIDE DEF u, v, q, e, c, root, folders
  <2>2. Ok(u) BY <1>8, <2>4, PollGrantAccepts
  <2>3. Core(u) BY <2>2 DEF Ok, OkBut
  <2> QED BY <2>1, <2>2, <2>3, CancelContextEffect, DropsOk
<1> QED BY <1>4, <1>5, <1>7, <1>8
\* The browser shows something else.
Shows(b, c) ==
  /\ BrowserOK(c)
  /\ c.session = b.session /\ c.epoch = b.epoch /\ c.revision = b.revision
  /\ c.folders = b.folders /\ c.selection = b.selection /\ c.closed = b.closed
  /\ c.granting = b.granting /\ c.reading = b.reading
  /\ c.preparing = b.preparing /\ c.repository = b.repository

\* Field by field.
LEMMA ShowsFields ==
  ASSUME NEW b, BrowserOK(b), NEW l \in Shown \cup {Nil}, NEW p \in Shown \cup {Nil}, NEW c,
         c = [session |-> b.session, epoch |-> b.epoch, revision |-> b.revision,
              folders |-> b.folders, selection |-> b.selection,
              listing |-> l, preview |-> p,
              granting |-> b.granting, reading |-> b.reading,
              preparing |-> b.preparing, repository |-> b.repository,
              closed |-> b.closed]
  PROVE  Shows(b, c) /\ c.listing = l /\ c.preview = p
<1>1. /\ c.session = b.session /\ c.epoch = b.epoch /\ c.revision = b.revision
      /\ c.folders = b.folders /\ c.selection = b.selection /\ c.closed = b.closed
      /\ c.granting = b.granting /\ c.reading = b.reading
      /\ c.preparing = b.preparing /\ c.repository = b.repository
      /\ c.listing = l /\ c.preview = p
  OBVIOUS
<1>2. BrowserOK(c) BY <1>1 DEF BrowserOK
<1> QED BY <1>1, <1>2 DEF Shows

\* Another listing, another preview.
LEMMA ShowsRecord ==
  ASSUME NEW b, BrowserOK(b), NEW shown \in Shown
  PROVE  /\ Shows(b, [b EXCEPT !.listing = shown])
         /\ [b EXCEPT !.listing = shown].listing = shown
         /\ [b EXCEPT !.listing = shown].preview = b.preview
         /\ Shows(b, [b EXCEPT !.preview = shown])
         /\ [b EXCEPT !.preview = shown].preview = shown
         /\ [b EXCEPT !.preview = shown].listing = b.listing
<1> DEFINE c == [b EXCEPT !.listing = shown]
           d == [b EXCEPT !.preview = shown]
<1>1. c = [session |-> b.session, epoch |-> b.epoch, revision |-> b.revision,
           folders |-> b.folders, selection |-> b.selection,
           listing |-> shown, preview |-> b.preview,
           granting |-> b.granting, reading |-> b.reading,
           preparing |-> b.preparing, repository |-> b.repository,
           closed |-> b.closed]
  BY DEF BrowserOK
<1>2. d = [session |-> b.session, epoch |-> b.epoch, revision |-> b.revision,
           folders |-> b.folders, selection |-> b.selection,
           listing |-> b.listing, preview |-> shown,
           granting |-> b.granting, reading |-> b.reading,
           preparing |-> b.preparing, repository |-> b.repository,
           closed |-> b.closed]
  BY DEF BrowserOK
<1>3. /\ shown \in Shown \cup {Nil} /\ b.listing \in Shown \cup {Nil}
      /\ b.preview \in Shown \cup {Nil}
  BY DEF BrowserOK
<1> HIDE DEF c, d
<1>4. Shows(b, c) /\ c.listing = shown /\ c.preview = b.preview
  BY ONLY <1>1, <1>3, BrowserOK(b), ShowsFields
<1>5. Shows(b, d) /\ d.listing = b.listing /\ d.preview = shown
  BY ONLY <1>2, <1>3, BrowserOK(b), ShowsFields
<1> QED BY <1>4, <1>5 DEF c, d

\* A browser that shows listed folders keeps the invariant.
LEMMA ShowsOk ==
  ASSUME NEW s, Ok(s), NEW c, Shows(s.b, c), ShownOK(c), NEW t,
         t = [w |-> s.w, r |-> s.r, b |-> c]
  PROVE  Ok(t)
<1>1. /\ Core(s) /\ PendingOK(s.w, s.b) /\ ScopeOK(s.r, s.b) /\ ActiveOK(s.r, s.b)
      /\ ContextOK(s.w, s.r, s.b) /\ SelectedOK(s.b, s.b.selection)
  BY DEF Ok, OkBut
<1>2. PendingOK(s.w, c) BY <1>1 DEF PendingOK, IdsOf, KindsOK, Shows
<1>3. ScopeOK(s.r, c) BY <1>1 DEF ScopeOK, Shows
<1>4. ActiveOK(s.r, c) BY <1>1 DEF ActiveOK, Shows
<1>5. ContextOK(s.w, s.r, c) BY <1>1 DEF ContextOK, Shows
<1>6. SelectedOK(c, c.selection) BY <1>1 DEF SelectedOK, Shows
<1>7. Parts(s.w, s.r, c)
  BY <1>1, <1>2, <1>3, <1>4, <1>5, <1>6 DEF Parts, Core, Shows
<1> QED BY <1>7, OkParts

\* What is shown belongs to a listed folder.
LEMMA ShowOk ==
  ASSUME NEW s, Ok(s), NEW shown \in Shown, shown.root \in DOMAIN s.b.folders,
         s.b.folders[shown.root] = shown.generation
  PROVE  Ok([s EXCEPT !.b.listing = shown]) /\ Ok([s EXCEPT !.b.preview = shown])
<1> DEFINE c == [s.b EXCEPT !.listing = shown]
           d == [s.b EXCEPT !.preview = shown]
           t == [s EXCEPT !.b.listing = shown]
           u == [s EXCEPT !.b.preview = shown]
<1>1. Core(s) /\ ShownOK(s.b) BY DEF Ok, OkBut
<1>2. BrowserOK(s.b) /\ s = [w |-> s.w, r |-> s.r, b |-> s.b] BY <1>1 DEF Core
<1>3. t = [w |-> s.w, r |-> s.r, b |-> c] BY <1>2
<1>4. u = [w |-> s.w, r |-> s.r, b |-> d] BY <1>2
<1>5. Shows(s.b, c) /\ c.listing = shown /\ c.preview = s.b.preview BY <1>2, ShowsRecord
<1>6. Shows(s.b, d) /\ d.preview = shown /\ d.listing = s.b.listing BY <1>2, ShowsRecord
<1> HIDE DEF c, d, t, u
<1>7. ShownOK(c) BY <1>1, <1>5 DEF ShownOK, Shows
<1>8. ShownOK(d) BY <1>1, <1>6 DEF ShownOK, Shows
<1>9. Ok(t) BY <1>3, <1>5, <1>7, ShowsOk
<1>10. Ok(u) BY <1>4, <1>6, <1>8, ShowsOk
<1> QED BY <1>9, <1>10 DEF t, u

\* A changed selection leaves the folders alone.
LEMMA SelectionChangedFolders ==
  ASSUME NEW s, Core(s), NEW selection
  PROVE  SelectionChanged(s, selection).b.folders = s.b.folders
<1>1. CASE selection = s.b.selection BY <1>1 DEF SelectionChanged
<1>2. CASE selection # s.b.selection
  <2> DEFINE t == CancelSelectedContext(CancelRead(s))
             u == SelectionChanged(s, selection)
             n == t.b.revision + 1
             c == [t.b EXCEPT !.selection = selection, !.revision = n]
  <2>1. PICK K : Drops(s, t, K) BY CancelReadAndSelected
  <2>2. u = [t EXCEPT !.b.selection = selection, !.b.revision = @ + 1]
    BY <1>2 DEF SelectionChanged
  <2> HIDE DEF t, u
  <2>3. t.b.folders = s.b.folders /\ Core(t) BY <2>1 DEF Drops, Forgets
  <2>4. BrowserOK(t.b) /\ t = [w |-> t.w, r |-> t.r, b |-> t.b] BY <2>3 DEF Core
  <2>5. u = [w |-> t.w, r |-> t.r, b |-> c] BY <2>2, <2>4 DEF BrowserOK
  <2> HIDE DEF n
  <2>6. c.folders = t.b.folders BY <2>4 DEF BrowserOK
  <2> HIDE DEF c
  <2>7. u.b.folders = c.folders BY <2>5
  <2> QED BY <2>3, <2>6, <2>7 DEF u
<1> QED BY <1>1, <1>2

\* A current result was read under the grant of a listed folder.
LEMMA CurrentIsListed ==
  ASSUME NEW s, Ok(s), s.b.reading # Nil, StillCurrent(s, s.b.reading)
  PROVE  /\ s.b.reading.root \in DOMAIN s.b.folders
         /\ s.b.folders[s.b.reading.root] = s.b.reading.generation
BY DEF Ok, OkBut, ActiveOK, StillCurrent, Resolved

\* A state polled for a read, part by part.
LEMMA PolledRead ==
  ASSUME NEW s, s = [w |-> s.w, r |-> s.r, b |-> s.b], NEW v, NEW t,
         t = [s EXCEPT !.w = v, !.b.reading = Nil]
  PROVE  t = [w |-> v, r |-> s.r, b |-> [s.b EXCEPT !.reading = Nil]]
OBVIOUS

\* poll_read keeps the invariant.
LEMMA PollReadOk ==
  ASSUME NEW s, Ok(s), NEW digest \in Digests, NEW t, t = PollRead(s, digest)
  PROVE  Ok(t)
<1> DEFINE work == s.b.reading
           v == Poll(s.w, work.id, FALSE)
           c == [s.b EXCEPT !.reading = Nil]
           p == [s EXCEPT !.w = Poll(@, work.id, FALSE), !.b.reading = Nil]
           shown == [root |-> work.root, generation |-> work.generation]
           source == [root |-> work.root, digest |-> digest]
           chosen == WithSource(s.b.selection, source)
<1>1. Core(s) BY DEF Ok, OkBut
<1>2. WorkerOK(s.w) /\ RegistryOK(s.r) /\ BrowserOK(s.b) BY <1>1 DEF Core
<1>3. s = [w |-> s.w, r |-> s.r, b |-> s.b] BY <1>1 DEF Core
<1>4. CASE work = Nil BY <1>4 DEF PollRead
<1>5. CASE work # Nil /\ PollStatus(s.w, work.id) # "delivered"
  <2> DEFINE x == Reap(s.w)
  <2>1. Ends(s.w, x, {}) BY <1>2, EndsReap
  <2>2. t = [s EXCEPT !.w = x] BY <1>5 DEF PollRead
  <2> HIDE DEF x
  <2>3. t = [w |-> x, r |-> s.r, b |-> s.b] BY <1>3, <2>2
  <2> QED BY <2>1, <2>3, QuietEnds
<1>6. CASE work # Nil /\ PollStatus(s.w, work.id) = "delivered"
  <2>1. work \in ReadWork /\ work.id \in Nat BY <1>2, <1>6 DEF BrowserOK, ReadWork
  <2>2. Ends(s.w, v, {work.id}) BY <1>2, <1>6, EndsPoll
  <2>3. Forgets(s.b, c, {"reading"}) BY <1>2, ForgetOne
  <2>4. IdsOf(s.b, {"reading"}) = {work.id} /\ GrantOf(s.b, {"reading"}) = {}
    BY <1>6, <2>1 DEF IdsOf, GrantOf
  <2>5. Retires(s.r, s.r, {}) BY <1>2, RetiresNone
  <2>6. p = [w |-> v, r |-> s.r, b |-> c]
    <3> HIDE DEF v, work
    <3>1. p = [s EXCEPT !.w = v, !.b.reading = Nil] BY DEF v
    <3> HIDE DEF p
    <3> QED BY ONLY <1>3, <3>1, PolledRead
  <2>7. /\ shown \in Shown /\ shown.root = work.root /\ shown.generation = work.generation
        /\ source \in Sources /\ source.root = work.root
    BY <2>1 DEF ReadWork, Shown, Sources
  <2>8. t \in {p, [p EXCEPT !.b.listing = shown], [p EXCEPT !.b.preview = shown],
               [SelectionChanged(p, chosen) EXCEPT !.b.preview = shown]}
        /\ (t # p => StillCurrent(s, work))
    BY <1>6 DEF PollRead
  <2> HIDE DEF v, c, p, shown, source
  <2>9. Drops(s, p, {"reading"}) BY <1>1, <2>2, <2>3, <2>4, <2>5, <2>6, DropsFrom
  <2>10. Ok(p) BY <2>9, DropsOk
  <2>11. p.b.folders = s.b.folders /\ p.b.selection = s.b.selection
    BY <2>9 DEF Drops, Forgets
  <2>12. CASE t = p BY <2>10, <2>12
  <2>13. CASE StillCurrent(s, work)
    <3>1. work.root \in DOMAIN s.b.folders /\ s.b.folders[work.root] = work.generation
      BY <1>6, <2>13, CurrentIsListed
    <3>2. Ok([p EXCEPT !.b.listing = shown]) /\ Ok([p EXCEPT !.b.preview = shown])
      BY <2>7, <2>10, <2>11, <3>1, ShowOk
    <3>3. chosen \in SUBSET Sources
      BY <1>2, <2>7 DEF BrowserOK, WithSource
    <3>4. SelectedOK(p.b, chosen)
      BY <2>7, <2>11, <3>1 DEF SelectedOK, WithSource, Ok
    <3> DEFINE u == SelectionChanged(p, chosen)
    <3> HIDE DEF chosen
    <3>5. Ok(u) BY <2>10, <3>3, <3>4, SelectionChangedOk DEF Ok
    <3>6. u.b.folders = s.b.folders
      BY <2>10, <2>11, SelectionChangedFolders DEF Ok, OkBut
    <3> HIDE DEF u
    <3>7. Ok([u EXCEPT !.b.preview = shown]) BY <2>7, <3>1, <3>5, <3>6, ShowOk
    <3>8. u = SelectionChanged(p, chosen) BY DEF u
    <3> QED BY <2>8, <2>10, <3>2, <3>7, <3>8
  <2> QED BY <2>8, <2>12, <2>13
<1> QED BY <1>4, <1>5, <1>6

\* poll keeps the invariant.
LEMMA PollBrowserInv ==
  ASSUME LocalInv, PollBrowser
  PROVE  LocalInv'
<1>1. PICK digest \in Digests : Becomes(PollRead(PollGrant(Here), digest))
  BY DEF PollBrowser
<1>2. Ok(Here) BY HereOk
<1>3. Ok(PollGrant(Here)) BY <1>2, PollGrantOk
<1>4. Ok(PollRead(PollGrant(Here), digest)) BY <1>3, PollReadOk
<1> QED BY <1>1, <1>4, BecomesInv
-----------------------------------------------------------------------------
(* Folders and sessions. *)

Reserved(r, q, id, record) ==
  /\ RegistryOK(q)
  /\ LeasesKept(r, q)
  /\ q.scope = r.scope
  /\ q.lastEpoch = r.lastEpoch
  /\ q.closed = r.closed
  /\ id \notin DOMAIN r.slots
  /\ DOMAIN q.slots = DOMAIN r.slots \cup {id}
  /\ q.slots[id] = record
  /\ \A g \in DOMAIN r.slots : q.slots[g] = r.slots[g]

\* reserve takes a slot of its own.
LEMMA ReserveEffect ==
  ASSUME NEW r, RegistryOK(r), NEW id \in Nat, id > r.lastRequest, NEW record \in Slot,
         SlotOK(record), NEW q, q = Reserve(r, id, record)
  PROVE  Reserved(r, q, id, record)
<1> DEFINE f == [g \in DOMAIN r.slots \cup {id} |-> IF g = id THEN record ELSE r.slots[g]]
<1>1. id \notin DOMAIN r.slots BY DEF RegistryOK
<1>2. q = [r EXCEPT !.slots = f, !.lastRequest = id] BY DEF Reserve
<1>3. /\ DOMAIN f = DOMAIN r.slots \cup {id} /\ f[id] = record
      /\ \A g \in DOMAIN r.slots : f[g] = r.slots[g]
  BY <1>1
<1> HIDE DEF f
<1>4. q = [slots |-> f, scope |-> r.scope, lastEpoch |-> r.lastEpoch,
           lastRequest |-> id, closed |-> r.closed]
  BY <1>2 DEF RegistryOK
<1>5. /\ q.slots = f /\ q.scope = r.scope /\ q.lastEpoch = r.lastEpoch
      /\ q.lastRequest = id /\ q.closed = r.closed
  BY <1>4
<1>6. f \in [DOMAIN f -> Slot]
  <2>1. \A g \in DOMAIN f : f[g] \in Slot BY <1>3 DEF RegistryOK
  <2>2. f = [g \in DOMAIN f |-> f[g]] BY DEF f
  <2> QED BY <2>1, <2>2
<1>7. \A g \in DOMAIN f : g \in Nat /\ g <= id /\ SlotOK(f[g])
  BY <1>3 DEF RegistryOK
<1>8. RegistryOK(q) BY <1>4, <1>5, <1>6, <1>7 DEF RegistryOK
<1>9. LeasesKept(r, q) BY <1>3, <1>5 DEF LeasesKept
<1> QED BY <1>1, <1>3, <1>5, <1>8, <1>9 DEF Reserved

\* A reservation whose work started is the pending grant.
LEMMA GrantStarted ==
  ASSUME NEW s, Ok(s), s.b.granting = Nil, NEW id \in Nat, NEW q, NEW record,
         Reserved(s.r, q, id, record), ~record.active, NEW v, NEW job,
         Adds(s.w, v, id, job), Live(job), job.task.kind = "grant", JobOK(id, job, q),
         NEW c, KeepsState(s.b, c), c.granting = id, c.reading = s.b.reading,
         c.preparing = s.b.preparing, c.repository = s.b.repository
  PROVE  Parts(v, q, c)
<1>0. /\ Core(s) /\ PendingOK(s.w, s.b) /\ ScopeOK(s.r, s.b) /\ ActiveOK(s.r, s.b)
      /\ ShownOK(s.b) /\ ContextOK(s.w, s.r, s.b) /\ SelectedOK(s.b, s.b.selection)
  BY DEF Ok, OkBut
<1>1. WorkerOK(s.w) /\ RegistryOK(s.r) /\ BrowserOK(s.b) /\ JobsOK(s.w, s.r) BY <1>0 DEF Core
<1>2. Begins(s.b, c, id, job.task.kind) BY DEF Begins
<1>3. PendingOK(v, c) BY <1>0, <1>1, <1>2, PendingBegins
<1>4. JobsOK(v, q) BY <1>1, JobsAdded DEF Reserved
<1>5. ScopeOK(q, c) BY <1>0 DEF ScopeOK, KeepsState, Reserved
<1>6. ActiveOK(q, c)
  <2>1. /\ c.session = s.b.session /\ c.epoch = s.b.epoch /\ c.folders = s.b.folders
    BY DEF KeepsState
  <2>2. ASSUME NEW g \in DOMAIN s.r.slots PROVE g # Nil /\ g # id /\ q.slots[g] = s.r.slots[g]
    BY <1>1, NilIsNoId DEF Reserved, RegistryOK
  <2>3. \A g \in DOMAIN q.slots : g = id \/ g \in DOMAIN s.r.slots BY DEF Reserved
  <2>4. \A g \in DOMAIN s.r.slots : g \in DOMAIN q.slots BY DEF Reserved
  <2>5. ~q.slots[id].active BY DEF Reserved
  <2>6. \A g \in DOMAIN q.slots : ~q.slots[g].retired => g = c.granting \/ q.slots[g].active
    BY <1>0, <2>2, <2>3 DEF ActiveOK
  <2>7. \A g \in DOMAIN q.slots : q.slots[g].active =>
          /\ g # c.granting
          /\ q.slots[g].session = c.session
          /\ q.slots[g].epoch = c.epoch
          /\ q.slots[g].root \in DOMAIN c.folders
          /\ c.folders[q.slots[g].root] = g
    BY <1>0, <2>1, <2>2, <2>3, <2>5 DEF ActiveOK
  <2>8. \A root \in DOMAIN c.folders :
          /\ c.folders[root] \in DOMAIN q.slots
          /\ q.slots[c.folders[root]].active
          /\ q.slots[c.folders[root]].root = root
    BY <1>0, <2>1, <2>2, <2>4 DEF ActiveOK
  <2> QED BY <2>6, <2>7, <2>8 DEF ActiveOK
<1>7. ShownOK(c) /\ SelectedOK(c, c.selection) BY <1>0 DEF ShownOK, SelectedOK, KeepsState
<1>8. ContextOK(v, q, c)
  <2> SUFFICES ASSUME c.preparing # Nil PROVE ContextOK(v, q, c) BY DEF ContextOK
  <2>1. c.preparing.id \in LiveSet(s.w) BY <1>0, <1>1, FieldIds DEF PendingOK
  <2>2. v.jobs[c.preparing.id].task = s.w.jobs[c.preparing.id].task BY <2>1, AddsLive
  <2>3. \A g \in DOMAIN s.r.slots : g \in DOMAIN q.slots /\ q.slots[g] = s.r.slots[g]
    BY DEF Reserved
  <2> QED BY <1>0, <2>2, <2>3 DEF ContextOK, KeepsState
<1> QED BY <1>3, <1>4, <1>5, <1>6, <1>7, <1>8 DEF Parts, Adds, KeepsState, Reserved

\* A reservation whose work did not start is given up.
LEMMA GrantNotStarted ==
  ASSUME NEW s, Ok(s), s.b.granting = Nil, NEW id \in Nat, NEW q, NEW p, NEW record,
         Reserved(s.r, q, id, record), Retires(q, p, {id}), NEW v, WorkerOK(v),
         SameLive(s.w, v), \A r, x : JobsOK(s.w, r) /\ LeasesKept(r, x) => JobsOK(v, x)
  PROVE  Parts(v, p, s.b)
<1>0. /\ Core(s) /\ PendingOK(s.w, s.b) /\ ScopeOK(s.r, s.b) /\ ActiveOK(s.r, s.b)
      /\ ShownOK(s.b) /\ ContextOK(s.w, s.r, s.b) /\ SelectedOK(s.b, s.b.selection)
  BY DEF Ok, OkBut
<1>1. RegistryOK(s.r) /\ BrowserOK(s.b) /\ JobsOK(s.w, s.r) BY <1>0 DEF Core
<1>2. LeasesKept(s.r, p) BY DEF Reserved, Retires, LeasesKept
<1>3. JobsOK(v, p) BY <1>1, <1>2
<1>4. PendingOK(v, s.b) /\ ContextOK(v, s.r, s.b) BY <1>0, <1>1, SameLiveKeeps
<1>5. ScopeOK(p, s.b) BY <1>0 DEF ScopeOK, Reserved, Retires
<1>6. \A g \in DOMAIN s.r.slots :
        g \in DOMAIN p.slots /\ g # id /\ g # Nil /\ p.slots[g] = s.r.slots[g]
  BY <1>1, NilIsNoId DEF Reserved, Retires, RegistryOK
<1>7. \A g \in DOMAIN p.slots : g = id \/ g \in DOMAIN s.r.slots BY DEF Reserved, Retires
<1>8. p.slots[id].retired /\ ~p.slots[id].active BY DEF Reserved, Retires
<1>9. ActiveOK(p, s.b)
  <2>1. \A g \in DOMAIN p.slots : ~p.slots[g].retired => g = s.b.granting \/ p.slots[g].active
    BY <1>0, <1>6, <1>7, <1>8 DEF ActiveOK
  <2>2. \A g \in DOMAIN p.slots : p.slots[g].active =>
          /\ g # s.b.granting
          /\ p.slots[g].session = s.b.session
          /\ p.slots[g].epoch = s.b.epoch
          /\ p.slots[g].root \in DOMAIN s.b.folders
          /\ s.b.folders[p.slots[g].root] = g
    BY <1>0, <1>6, <1>7, <1>8 DEF ActiveOK
  <2>3. \A root \in DOMAIN s.b.folders :
          /\ s.b.folders[root] \in DOMAIN p.slots
          /\ p.slots[s.b.folders[root]].active
          /\ p.slots[s.b.folders[root]].root = root
    BY <1>0, <1>6 DEF ActiveOK
  <2> QED BY <2>1, <2>2, <2>3 DEF ActiveOK
<1>10. ContextOK(v, p, s.b) BY <1>4, <1>6 DEF ContextOK
<1> QED BY <1>0, <1>1, <1>3, <1>4, <1>5, <1>9, <1>10 DEF Parts, Retires

\* A slot at its reservation.
LEMMA NewRecordFacts ==
  ASSUME NEW session \in Sessions, NEW epoch \in Nat, NEW record,
         record = NewRecord(session, epoch)
  PROVE  record \in Slot /\ SlotOK(record) /\ ~record.active
BY DEF NewRecord, Slot, SlotOK

\* add_folder keeps the invariant.
LEMMA AddFolderInv ==
  ASSUME LocalInv, NEW launch, AddFolder(launch)
  PROVE  LocalInv'
<1> DEFINE a == Allocated(Here)
           id == a.w.lastAllocated
           record == NewRecord(browser.session, browser.epoch)
           reserved == [a EXCEPT !.r = Reserve(@, id, record)]
           task == [kind |-> "grant", phase |-> "reserved"]
           job == NewJob(browser.session, task, {})
           submitted == SubmitWork(reserved, job, launch, "granting", id)
<1>0. /\ browser.session # Nil /\ browser.granting = Nil
      /\ ~CanReserve(grants, id, record) => Becomes(a)
      /\ CanReserve(grants, id, record) /\ submitted.b.granting = id => Becomes(submitted)
      /\ CanReserve(grants, id, record) /\ submitted.b.granting # id
           => Becomes([submitted EXCEPT !.r = Retire(@, {id})])
  BY DEF AddFolder, Allocated
<1>1. Ok(Here) /\ Here.w = worker /\ Here.r = grants /\ Here.b = browser BY HereOk
<1>2. /\ Ok(a) /\ a.r = grants /\ a.b = browser /\ id \in Nat /\ id > a.w.lastRequest
  BY <1>1, AllocatedOk
<1> HIDE DEF a
<1>3. CASE ~CanReserve(grants, id, record) BY <1>0, <1>2, <1>3, BecomesInv
<1>4. CASE CanReserve(grants, id, record)
  <2> DEFINE q == Reserve(grants, id, record)
             v == Submit(a.w, id, job, launch)
             c == [browser EXCEPT !["granting"] = id]
             started == Admission(a.w, id) = "launched" /\ launch = "started"
  <2>1. Core(a) BY <1>2 DEF Ok, OkBut
  <2>2. WorkerOK(a.w) /\ RegistryOK(grants) /\ BrowserOK(browser) /\ JobsOK(a.w, grants)
    BY <1>2, <2>1 DEF Core
  <2>3. browser.session \in Sessions /\ browser.epoch \in Nat
    BY <1>0, <2>2 DEF BrowserOK
  <2>4. record \in Slot /\ SlotOK(record) /\ ~record.active BY <2>3, NewRecordFacts
  <2>5. id > grants.lastRequest BY <1>4 DEF CanReserve
  <2> HIDE DEF record
  <2>6. Reserved(grants, q, id, record) BY <1>2, <2>2, <2>4, <2>5, ReserveEffect
  <2>7. a = [w |-> a.w, r |-> grants, b |-> browser] BY <1>2, <2>1 DEF Core
  <2>8. reserved = [w |-> a.w, r |-> q, b |-> browser] BY <2>7
  <2> HIDE DEF q, reserved
  <2>9. reserved.w = a.w /\ reserved.r = q /\ reserved.b = browser BY <2>8
  <2>10. JobsOK(a.w, q)
    <3>1. LeasesKept(grants, q) BY <2>6 DEF Reserved
    <3> QED BY <2>2, <3>1, EndsUnchanged, JobsKept
  <2>11. Core(reserved) BY <2>2, <2>6, <2>8, <2>9, <2>10 DEF Core, Reserved
  <2>12. task \in Tasks /\ task.kind = "grant" /\ task.phase = "reserved"
    BY DEF Tasks, GrantTask
  <2> HIDE DEF task
  <2>13. /\ job \in Job /\ Live(job) /\ job.result # "ok" /\ job.task = task
         /\ job.borrows = {} /\ job.pc = "waiting"
    BY <2>3, <2>12, NewJobFacts
  <2> HIDE DEF job
  <2>14. Submitted(a.w, v, id, job, launch) BY <1>2, <2>2, <2>13, SubmitEffect
  <2>15. JobOK(id, job, q) BY <2>12, <2>13 DEF JobOK
  <2>16. id = a.w.lastAllocated BY DEF id
  <2> HIDE DEF id
  <2>17. /\ KeepsState(browser, c) /\ c.granting = id /\ c.reading = browser.reading
         /\ c.preparing = browser.preparing /\ c.repository = browser.repository
    BY <1>2, <2>2, GrantingField
  <2>18. /\ started => submitted = [w |-> v, r |-> q, b |-> c]
         /\ ~started => submitted = [w |-> v, r |-> q, b |-> browser]
    <3>1. c = [reserved.b EXCEPT !["granting"] = id] BY <2>9
    <3> HIDE DEF c
    <3>2. /\ Admission(reserved.w, reserved.w.lastAllocated) = "launched" /\ launch = "started" =>
               submitted = [w |-> Submit(reserved.w, reserved.w.lastAllocated, job, launch),
                            r |-> reserved.r, b |-> c]
          /\ ~(Admission(reserved.w, reserved.w.lastAllocated) = "launched" /\ launch = "started") =>
               submitted = [w |-> Submit(reserved.w, reserved.w.lastAllocated, job, launch),
                            r |-> reserved.r, b |-> reserved.b]
      BY <2>11, <3>1, SubmitWorkEffect
    <3> QED BY <2>9, <2>16, <3>2
  <2> HIDE DEF v, c, submitted
  <2>19. CASE started
    <3>1. submitted = [w |-> v, r |-> q, b |-> c] BY <2>18, <2>19
    <3>2. submitted.b = c BY <3>1
    <3>3. Becomes(submitted) BY <1>0, <1>4, <2>17, <3>2
    <3>4. Adds(a.w, v, id, job) BY <2>14, <2>19 DEF Submitted
    <3>5. job.task.kind = "grant" BY <2>12, <2>13
    <3> HIDE DEF started
    <3>6. Parts(v, q, c)
      BY <1>0, <1>2, <2>4, <2>6, <2>13, <2>15, <2>17, <3>4, <3>5, GrantStarted
    <3>7. Ok(submitted) BY <3>1, <3>6, OkParts
    <3> QED BY <3>3, <3>7, BecomesInv
  <2>20. CASE ~started
    <3> DEFINE p == Retire(q, {id})
               u == [submitted EXCEPT !.r = p]
    <3>1. submitted = [w |-> v, r |-> q, b |-> browser] BY <2>18, <2>20
    <3>2. submitted.b = browser /\ submitted.r = q BY <3>1
    <3>3. submitted.b.granting # id BY <1>0, <1>2, <3>2, NilIsNoId
    <3>4. Becomes(u) BY <1>0, <1>4, <3>2, <3>3
    <3>5. RegistryOK(q) BY <2>6 DEF Reserved
    <3>6. Retires(q, p, {id}) BY <3>5, RetireEffect
    <3> HIDE DEF p
    <3>7. u = [w |-> v, r |-> p, b |-> browser] BY <3>1
    <3>8. /\ WorkerOK(v) /\ SameLive(a.w, v)
          /\ \A r, x : JobsOK(a.w, r) /\ LeasesKept(r, x) => JobsOK(v, x)
      BY <2>2, <2>13, <2>14, <2>20, NotStartedEffect
    <3> HIDE DEF u, started
    <3>9. Parts(v, p, a.b) BY <1>0, <1>2, <2>6, <3>6, <3>8, GrantNotStarted
    <3>10. Ok(u) BY <1>2, <3>7, <3>9, OkParts
    <3> QED BY <3>4, <3>10, BecomesInv
  <2> QED BY <2>19, <2>20
<1> QED BY <1>3, <1>4
\* The browser with other folders and other things shown.
Erases(b, c, folders, l, p) ==
  /\ BrowserOK(c)
  /\ c.session = b.session /\ c.epoch = b.epoch /\ c.revision = b.revision
  /\ c.folders = folders /\ c.selection = b.selection
  /\ c.listing = l /\ c.preview = p /\ c.closed = b.closed
  /\ c.granting = b.granting /\ c.reading = b.reading
  /\ c.preparing = b.preparing /\ c.repository = b.repository

\* Field by field.
LEMMA ErasedFields ==
  ASSUME NEW b, BrowserOK(b), NEW folders, folders \in [DOMAIN folders -> Nat],
         DOMAIN folders \subseteq Roots, NEW l \in Shown \cup {Nil}, NEW p \in Shown \cup {Nil},
         NEW c, c = [b EXCEPT !.folders = folders, !.listing = l, !.preview = p]
  PROVE  Erases(b, c, folders, l, p)
<1>1. c = [session |-> b.session, epoch |-> b.epoch, revision |-> b.revision,
              folders |-> folders, selection |-> b.selection,
              listing |-> l, preview |-> p,
              granting |-> b.granting, reading |-> b.reading,
              preparing |-> b.preparing, repository |-> b.repository,
              closed |-> b.closed]
  BY DEF BrowserOK
<1>2. /\ c.session = b.session /\ c.epoch = b.epoch /\ c.revision = b.revision
      /\ c.folders = folders /\ c.selection = b.selection
      /\ c.listing = l /\ c.preview = p /\ c.closed = b.closed
      /\ c.granting = b.granting /\ c.reading = b.reading
      /\ c.preparing = b.preparing /\ c.repository = b.repository
  BY <1>1
<1>3. BrowserOK(c) BY ONLY <1>1, <1>2, BrowserOK(b), folders \in [DOMAIN folders -> Nat],
         DOMAIN folders \subseteq Roots, l \in Shown \cup {Nil}, p \in Shown \cup {Nil}
  DEF BrowserOK
<1> QED BY <1>2, <1>3 DEF Erases

\* A grant revoked with its folder, and whatever was pending given up.
LEMMA FolderErased ==
  ASSUME NEW r, NEW q, NEW b, NEW c, NEW root, RegistryOK(r), RegistryOK(q), ActiveOK(r, b),
         root \in DOMAIN b.folders, Retires(r, q, {b.folders[root]} \cup GrantOf(b, Fields)),
         c.granting = Nil, c.session = b.session, c.epoch = b.epoch,
         DOMAIN c.folders = DOMAIN b.folders \ {root},
         \A x \in DOMAIN c.folders : c.folders[x] = b.folders[x]
  PROVE  ActiveOK(q, c)
<1> DEFINE g0 == b.folders[root]
<1>1. \A g \in DOMAIN r.slots : g \in GrantOf(b, Fields) <=> g = b.granting
  BY DEF GrantOf, RegistryOK, Fields
<1>2. DOMAIN q.slots = DOMAIN r.slots BY DEF Retires
<1>3. \A g \in DOMAIN r.slots : g # Nil BY NilIsNoId DEF RegistryOK
<1>4. \A g \in DOMAIN r.slots : g = g0 \/ g = b.granting => q.slots[g].retired /\ ~q.slots[g].active
  BY <1>1 DEF Retires
<1>5. \A g \in DOMAIN r.slots : g # g0 /\ g # b.granting => q.slots[g] = r.slots[g]
  BY <1>1 DEF Retires
<1>6. \A g \in DOMAIN q.slots : ~q.slots[g].retired => q.slots[g].active
  BY <1>2, <1>4, <1>5 DEF ActiveOK
<1>7. ASSUME NEW g \in DOMAIN q.slots, q.slots[g].active
      PROVE  /\ g # c.granting
             /\ q.slots[g].session = c.session
             /\ q.slots[g].epoch = c.epoch
             /\ q.slots[g].root \in DOMAIN c.folders
             /\ c.folders[q.slots[g].root] = g
  <2>1. g \in DOMAIN r.slots /\ g # g0 /\ q.slots[g] = r.slots[g] BY <1>2, <1>4, <1>5, <1>7
  <2>2. r.slots[g].root \in DOMAIN b.folders /\ b.folders[r.slots[g].root] = g
    BY <1>7, <2>1 DEF ActiveOK
  <2>3. r.slots[g].root # root BY <2>1, <2>2
  <2> QED BY <1>3, <1>7, <2>1, <2>2, <2>3 DEF ActiveOK
<1>8. ASSUME NEW x \in DOMAIN c.folders
      PROVE  /\ c.folders[x] \in DOMAIN q.slots
             /\ q.slots[c.folders[x]].active
             /\ q.slots[c.folders[x]].root = x
  <2> DEFINE g == b.folders[x]
  <2>1. x \in DOMAIN b.folders /\ x # root /\ c.folders[x] = g BY <1>8
  <2>2. g \in DOMAIN r.slots /\ r.slots[g].active /\ r.slots[g].root = x BY <2>1 DEF ActiveOK
  <2>3. r.slots[g0].root = root BY DEF ActiveOK
  <2>4. g # g0 /\ g # b.granting BY <2>1, <2>2, <2>3 DEF ActiveOK
  <2> QED BY <1>2, <1>5, <2>1, <2>2, <2>4
<1> QED BY <1>6, <1>7, <1>8 DEF ActiveOK
\* A state whose grants were given up, before anything was cancelled.
LEMMA CoreWith ==
  ASSUME NEW s, Core(s), NEW v, NEW q, NEW gone, Ends(s.w, v, gone), RegistryOK(q),
         LeasesKept(s.r, q), NEW t, t = [w |-> v, r |-> q, b |-> s.b]
  PROVE  Core(t)
<1>1. t.w = v /\ t.r = q /\ t.b = s.b /\ t = [w |-> t.w, r |-> t.r, b |-> t.b] OBVIOUS
<1>2. JobsOK(v, q) BY JobsKept DEF Core
<1> QED BY <1>1, <1>2 DEF Core, Ends

\* What RemoveFolder leaves before it looks at the selection.
ErasedState(t, root) ==
  LET of(shown) == shown # Nil /\ shown.root = root
  IN [t EXCEPT
        !.b.folders = Restrict(@, DOMAIN @ \ {root}),
        !.b.listing = IF of(@) THEN Nil ELSE @,
        !.b.preview = IF of(@) THEN Nil ELSE @]

StillShown(shown, root) == IF shown # Nil /\ shown.root = root THEN Nil ELSE shown

ErasedBrowser(b, root) ==
  [b EXCEPT !.folders = Restrict(b.folders, DOMAIN b.folders \ {root}),
            !.listing = StillShown(b.listing, root),
            !.preview = StillShown(b.preview, root)]

\* Part by part.
LEMMA ErasedRecord ==
  ASSUME NEW t, Core(t), NEW root
  PROVE  ErasedState(t, root) = [w |-> t.w, r |-> t.r, b |-> ErasedBrowser(t.b, root)]
<1> DEFINE folders == Restrict(t.b.folders, DOMAIN t.b.folders \ {root})
           l == StillShown(t.b.listing, root)
           p == StillShown(t.b.preview, root)
<1>1. t = [w |-> t.w, r |-> t.r, b |-> t.b] /\ BrowserOK(t.b) BY DEF Core
<1>2. ErasedState(t, root) = [t EXCEPT !.b.folders = folders, !.b.listing = l, !.b.preview = p]
  BY <1>1 DEF ErasedState, BrowserOK, StillShown
<1>4. ErasedBrowser(t.b, root) = [t.b EXCEPT !.folders = folders, !.listing = l, !.preview = p]
  BY DEF ErasedBrowser
<1> HIDE DEF folders, l, p
<1>3. [t EXCEPT !.b.folders = folders, !.b.listing = l, !.b.preview = p]
        = [w |-> t.w, r |-> t.r, b |-> [t.b EXCEPT !.folders = folders, !.listing = l, !.preview = p]]
  <2> DEFINE b1 == [t.b EXCEPT !.folders = folders]
             b2 == [b1 EXCEPT !.listing = l]
             b3 == [b2 EXCEPT !.preview = p]
             t1 == [t EXCEPT !.b.folders = folders]
             t2 == [t1 EXCEPT !.b.listing = l]
             t3 == [t2 EXCEPT !.b.preview = p]
  <2>1. t1 = [w |-> t.w, r |-> t.r, b |-> b1] BY ONLY <1>1
  <2>2. b3 = [t.b EXCEPT !.folders = folders, !.listing = l, !.preview = p] OBVIOUS
  <2>3. t3 = [t EXCEPT !.b.folders = folders, !.b.listing = l, !.b.preview = p] OBVIOUS
  <2> HIDE DEF b1, t1
  <2>4. t2 = [w |-> t.w, r |-> t.r, b |-> b2] BY ONLY <2>1
  <2> HIDE DEF b2, t2
  <2>5. t3 = [w |-> t.w, r |-> t.r, b |-> b3] BY ONLY <2>4
  <2> HIDE DEF b3, t3
  <2> QED BY ONLY <2>2, <2>3, <2>5
<1> QED BY ONLY <1>2, <1>3, <1>4

\* What Restrict is.
LEMMA RestrictFacts ==
  ASSUME NEW f, NEW S, S \subseteq DOMAIN f, NEW h, h = Restrict(f, S)
  PROVE  DOMAIN h = S /\ \A x \in S : h[x] = f[x]
BY DEF Restrict

\* remove_folder keeps the invariant.
LEMMA RemoveFolderInv ==
  ASSUME LocalInv, NEW root, RemoveFolder(root)
  PROVE  LocalInv'
<1> DEFINE g == browser.folders[root]
           revoked == Revocable(grants, browser.session, root, g)
           q == Retire(grants, revoked)
           s == [w |-> worker, r |-> q, b |-> browser]
           t == CancelEverything(s)
           e == ErasedState(t, root)
           left == {source \in browser.selection : source.root # root}
<1>1. /\ root \in DOMAIN browser.folders
      /\ revoked # {}
      /\ Becomes(SelectionChanged(e, left))
  <2>1. [Here EXCEPT !.r = Retire(@, revoked)] = s BY DEF Here
  <2> QED BY <2>1 DEF RemoveFolder, ErasedState
<1>2. Parts(worker, grants, browser) BY InvParts
<1>3. /\ WorkerOK(worker) /\ RegistryOK(grants) /\ BrowserOK(browser) /\ PendingOK(worker, browser)
      /\ ScopeOK(grants, browser) /\ ActiveOK(grants, browser) /\ ShownOK(browser)
      /\ SelectedOK(browser, browser.selection)
  BY <1>2 DEF Parts
<1>4. Core(Here) /\ Here.w = worker /\ Here.r = grants /\ Here.b = browser BY HereOk
<1>5. revoked = {g} BY <1>1 DEF Revocable
<1>6. Retires(grants, q, {g}) BY <1>3, <1>5, RetireEffect
<1> HIDE DEF revoked, q
<1>7. s = [w |-> worker, r |-> q, b |-> browser] /\ s.w = worker /\ s.r = q /\ s.b = browser
  OBVIOUS
<1> HIDE DEF s
<1>8. Core(s)
  <2>1. Ends(worker, worker, {}) BY <1>3, EndsUnchanged
  <2>2. RegistryOK(q) /\ LeasesKept(grants, q) BY <1>6 DEF Retires
  <2> QED BY <1>4, <1>7, <2>1, <2>2, CoreWith
<1>9. Drops(s, t, Fields) BY <1>8, CancelEverythingEffect
<1> HIDE DEF t
<1>10. /\ Core(t) /\ Ends(worker, t.w, IdsOf(browser, Fields))
       /\ Retires(q, t.r, GrantOf(browser, Fields)) /\ Forgets(browser, t.b, Fields)
  BY <1>7, <1>9 DEF Drops
<1>11. Retires(grants, t.r, {g} \cup GrantOf(browser, Fields))
  BY <1>6, <1>10, RetiresTransitive
<1>12. PendingOK(t.w, t.b) BY <1>3, <1>10, PendingDrops
<1>13. /\ t.b.granting = Nil /\ t.b.reading = Nil /\ t.b.preparing = Nil /\ t.b.repository = Nil
       /\ t.b.session = browser.session /\ t.b.epoch = browser.epoch
       /\ t.b.folders = browser.folders /\ t.b.selection = browser.selection
       /\ t.b.listing = browser.listing /\ t.b.preview = browser.preview
       /\ t.b.closed = browser.closed
  BY <1>10 DEF Forgets, Fields
<1> DEFINE folders == Restrict(t.b.folders, DOMAIN t.b.folders \ {root})
           l == StillShown(t.b.listing, root)
           p == StillShown(t.b.preview, root)
           c == [t.b EXCEPT !.folders = folders, !.listing = l, !.preview = p]
<1>14. /\ DOMAIN folders = DOMAIN browser.folders \ {root}
       /\ \A x \in DOMAIN folders : folders[x] = browser.folders[x]
       /\ folders \in [DOMAIN folders -> Nat]
       /\ DOMAIN folders \subseteq Roots
  <2>1. /\ DOMAIN folders = DOMAIN browser.folders \ {root}
        /\ \A x \in DOMAIN browser.folders \ {root} : folders[x] = browser.folders[x]
    <3> HIDE DEF folders
    <3>1. folders = Restrict(browser.folders, DOMAIN browser.folders \ {root}) BY <1>13 DEF folders
    <3> QED BY <3>1, RestrictFacts
  <2>2. folders = [x \in DOMAIN folders |-> folders[x]] BY DEF Restrict
  <2> HIDE DEF folders
  <2> QED BY <1>3, <2>1, <2>2 DEF BrowserOK
<1>15. l \in Shown \cup {Nil} /\ p \in Shown \cup {Nil} BY <1>3, <1>13 DEF BrowserOK, StillShown
<1>16. BrowserOK(t.b) BY <1>10 DEF Core
<1>17. e = [w |-> t.w, r |-> t.r, b |-> c]
  <2>1. c = ErasedBrowser(t.b, root) BY DEF ErasedBrowser
  <2> HIDE DEF c
  <2> QED BY <1>10, <2>1, ErasedRecord DEF e
<1>18. /\ l # Nil => l = browser.listing /\ l.root # root
       /\ p # Nil => p = browser.preview /\ p.root # root
  BY <1>13 DEF StillShown
<1> HIDE DEF folders, l, p
<1>19. c = [t.b EXCEPT !.folders = folders, !.listing = l, !.preview = p] OBVIOUS
<1> HIDE DEF c, e
<1>20. /\ BrowserOK(c)
       /\ c.session = t.b.session /\ c.epoch = t.b.epoch /\ c.revision = t.b.revision
       /\ c.folders = folders /\ c.selection = t.b.selection
       /\ c.listing = l /\ c.preview = p /\ c.closed = t.b.closed
       /\ c.granting = t.b.granting /\ c.reading = t.b.reading
       /\ c.preparing = t.b.preparing /\ c.repository = t.b.repository
  <2>1. Erases(t.b, c, folders, l, p)
    BY ONLY <1>14, <1>15, <1>16, <1>19, ErasedFields
  <2> QED BY ONLY <2>1 DEF Erases
<1>21. ActiveOK(t.r, c)
  <2>1. RegistryOK(t.r) BY <1>10 DEF Core
  <2> QED BY <1>1, <1>3, <1>11, <1>13, <1>14, <1>20, <2>1, FolderErased
<1>22. ScopeOK(t.r, c) BY <1>3, <1>11, <1>13, <1>20 DEF ScopeOK, Retires
<1>23. ShownOK(c) BY ONLY <1>3, <1>14, <1>18, <1>20 DEF ShownOK
<1>24. PendingOK(t.w, c) BY ONLY <1>12, <1>20 DEF PendingOK, IdsOf, KindsOK
<1>25. ContextOK(t.w, t.r, c) BY ONLY <1>13, <1>20 DEF ContextOK
<1>26. e.w = t.w /\ e.r = t.r /\ e.b = c /\ e = [w |-> e.w, r |-> e.r, b |-> e.b] BY <1>17
<1>27. Core(e) BY ONLY <1>10, <1>20, <1>26 DEF Core
<1>28. OkBut(e) BY ONLY <1>21, <1>22, <1>23, <1>24, <1>25, <1>26, <1>27 DEF OkBut
<1>29. left \in SUBSET Sources BY <1>3 DEF BrowserOK
<1>30. SelectedOK(e.b, left) BY <1>3, <1>14, <1>20, <1>26 DEF SelectedOK
<1> HIDE DEF left
<1>31. Ok(SelectionChanged(e, left)) BY <1>28, <1>29, <1>30, SelectionChangedOk
<1> QED BY <1>1, <1>31, BecomesInv
\* Nothing is pending, granted or listed.
LEMMA EmptyOk ==
  ASSUME NEW v, NEW q, NEW c, WorkerOK(v), RegistryOK(q), BrowserOK(c), JobsOK(v, q),
         ScopeOK(q, c), LiveSet(v) = {}, \A g \in DOMAIN q.slots : q.slots[g].retired,
         c.granting = Nil, c.reading = Nil, c.preparing = Nil, c.repository = Nil,
         DOMAIN c.folders = {}, c.selection = {}, c.listing = Nil, c.preview = Nil
  PROVE  Parts(v, q, c)
<1>1. IdsOf(c, Fields) = {} BY NilIsNoId DEF IdsOf
<1>2. PendingOK(v, c) BY <1>1 DEF PendingOK, KindsOK
<1>3. \A g \in DOMAIN q.slots : ~q.slots[g].active BY DEF RegistryOK, SlotOK
<1>4. ActiveOK(q, c) BY <1>3 DEF ActiveOK
<1>5. ShownOK(c) BY DEF ShownOK
<1>6. ContextOK(v, q, c) BY DEF ContextOK
<1>7. SelectedOK(c, c.selection) BY DEF SelectedOK
<1> QED BY <1>2, <1>4, <1>5, <1>6, <1>7 DEF Parts

\* The browser of a session in which nothing has happened.
Fresh(b, c, session, epoch, closed) ==
  /\ BrowserOK(c)
  /\ c.session = session /\ c.epoch = epoch /\ c.closed = closed
  /\ DOMAIN c.folders = {} /\ c.selection = {} /\ c.listing = Nil /\ c.preview = Nil
  /\ c.granting = b.granting /\ c.reading = b.reading
  /\ c.preparing = b.preparing /\ c.repository = b.repository

\* Field by field.
LEMMA FreshFields ==
  ASSUME NEW b, BrowserOK(b), NEW session \in Sessions \cup {Nil}, NEW epoch \in Nat,
         NEW revision \in Nat, NEW closed \in BOOLEAN, NEW folders, folders = [r \in {} |-> 0],
         NEW c,
         c = [session |-> session, epoch |-> epoch, revision |-> revision,
              folders |-> folders, selection |-> {}, listing |-> Nil, preview |-> Nil,
              granting |-> b.granting, reading |-> b.reading,
              preparing |-> b.preparing, repository |-> b.repository,
              closed |-> closed]
  PROVE  Fresh(b, c, session, epoch, closed)
<1>1. /\ c.session = session /\ c.epoch = epoch /\ c.revision = revision /\ c.closed = closed
      /\ c.folders = folders /\ c.selection = {} /\ c.listing = Nil /\ c.preview = Nil
      /\ c.granting = b.granting /\ c.reading = b.reading
      /\ c.preparing = b.preparing /\ c.repository = b.repository
  OBVIOUS
<1>2. DOMAIN folders = {} /\ folders \in [DOMAIN folders -> Nat] OBVIOUS
<1>3. c = [session |-> c.session, epoch |-> c.epoch, revision |-> c.revision,
           folders |-> c.folders, selection |-> c.selection,
           listing |-> c.listing, preview |-> c.preview,
           granting |-> c.granting, reading |-> c.reading,
           preparing |-> c.preparing, repository |-> c.repository,
           closed |-> c.closed]
  BY ONLY <1>1, c = [session |-> session, epoch |-> epoch, revision |-> revision,
              folders |-> folders, selection |-> {}, listing |-> Nil, preview |-> Nil,
              granting |-> b.granting, reading |-> b.reading,
              preparing |-> b.preparing, repository |-> b.repository,
              closed |-> closed]
<1>4. /\ c.session \in Sessions \cup {Nil} /\ c.epoch \in Nat /\ c.revision \in Nat
      /\ c.closed \in BOOLEAN
  BY <1>1
<1>5. BrowserOK(c) BY ONLY <1>1, <1>2, <1>3, <1>4, BrowserOK(b) DEF BrowserOK
<1> QED BY ONLY <1>1, <1>2, <1>5 DEF Fresh

\* The browser of a session just activated.
LEMMA ActivatedBrowser ==
  ASSUME NEW b, BrowserOK(b), NEW session \in Sessions, NEW epoch \in Nat, NEW c,
         c = [b EXCEPT !.session = session, !.epoch = epoch,
                       !.revision = 0, !.folders = [r \in {} |-> 0],
                       !.selection = {}, !.listing = Nil,
                       !.preview = Nil]
  PROVE  Fresh(b, c, session, epoch, b.closed)
<1> DEFINE folders == [r \in {} |-> 0]
<1>1. folders = [r \in {} |-> 0] OBVIOUS
<1> HIDE DEF folders
<1>2. c = [b EXCEPT !.session = session, !.epoch = epoch, !.revision = 0, !.folders = folders,
                    !.selection = {}, !.listing = Nil, !.preview = Nil]
  BY DEF folders
<1>3. c = [session |-> session, epoch |-> epoch, revision |-> 0,
           folders |-> folders, selection |-> {}, listing |-> Nil, preview |-> Nil,
           granting |-> b.granting, reading |-> b.reading,
           preparing |-> b.preparing, repository |-> b.repository,
           closed |-> b.closed]
  BY ONLY <1>2, BrowserOK(b) DEF BrowserOK
<1>4. session \in Sessions \cup {Nil} /\ b.closed \in BOOLEAN /\ 0 \in Nat BY DEF BrowserOK
<1> QED BY ONLY <1>1, <1>3, <1>4, BrowserOK(b), epoch \in Nat, FreshFields

\* The browser after the end of the application.
LEMMA ClosedBrowser ==
  ASSUME NEW b, BrowserOK(b), NEW c,
         c = [b EXCEPT !.session = Nil, !.folders = [r \in {} |-> 0],
                       !.selection = {}, !.listing = Nil, !.preview = Nil,
                       !.closed = TRUE]
  PROVE  Fresh(b, c, Nil, b.epoch, TRUE)
<1> DEFINE folders == [r \in {} |-> 0]
<1>1. folders = [r \in {} |-> 0] OBVIOUS
<1> HIDE DEF folders
<1>2. c = [b EXCEPT !.session = Nil, !.folders = folders,
                    !.selection = {}, !.listing = Nil, !.preview = Nil, !.closed = TRUE]
  BY DEF folders
<1>3. c = [session |-> Nil, epoch |-> b.epoch, revision |-> b.revision,
           folders |-> folders, selection |-> {}, listing |-> Nil, preview |-> Nil,
           granting |-> b.granting, reading |-> b.reading,
           preparing |-> b.preparing, repository |-> b.repository,
           closed |-> TRUE]
  BY ONLY <1>2, BrowserOK(b) DEF BrowserOK
<1>4. Nil \in Sessions \cup {Nil} /\ b.epoch \in Nat /\ b.revision \in Nat /\ TRUE \in BOOLEAN
  BY DEF BrowserOK
<1> QED BY ONLY <1>1, <1>3, <1>4, BrowserOK(b), FreshFields

\* Everything cancelled: no job is live any more.
LEMMA CancelledLive ==
  ASSUME NEW s, Core(s), NEW w, WorkerOK(w), NEW gone, Ends(w, s.w, gone), PendingOK(w, s.b),
         NEW t, t = CancelEverything(s)
  PROVE  /\ Core(t) /\ LiveSet(t.w) = {}
         /\ Retires(s.r, t.r, GrantOf(s.b, Fields)) /\ Forgets(s.b, t.b, Fields)
<1>1. Drops(s, t, Fields) BY CancelEverythingEffect
<1>2. WorkerOK(s.w) BY DEF Core
<1>3. LiveSet(s.w) = LiveSet(w) \ gone BY EndsLive
<1>4. LiveSet(t.w) = LiveSet(s.w) \ IdsOf(s.b, Fields) BY <1>1, <1>2, EndsLive DEF Drops
<1>5. LiveSet(w) = IdsOf(s.b, Fields) BY DEF PendingOK
<1> QED BY <1>1, <1>3, <1>4, <1>5 DEF Drops
\* A registry whose scope changes as well.
Rescoped(r, q, scope, lastEpoch, closed) ==
  /\ RegistryOK(q)
  /\ LeasesKept(r, q)
  /\ q.scope = scope
  /\ q.lastEpoch = lastEpoch
  /\ q.closed = closed

\* Only the scope is different.
LEMMA RescopeEffect ==
  ASSUME NEW r, NEW p, NEW gs, Retires(r, p, gs), NEW scope, NEW lastEpoch \in Nat,
         NEW closed \in BOOLEAN, NEW q,
         q = [slots |-> p.slots, scope |-> scope, lastEpoch |-> lastEpoch,
              lastRequest |-> p.lastRequest, closed |-> closed]
  PROVE  Rescoped(r, q, scope, lastEpoch, closed) /\ q.slots = p.slots
<1>1. /\ q.slots = p.slots /\ q.scope = scope /\ q.lastEpoch = lastEpoch
      /\ q.lastRequest = p.lastRequest /\ q.closed = closed
  OBVIOUS
<1>2. q = [slots |-> q.slots, scope |-> q.scope, lastEpoch |-> q.lastEpoch,
           lastRequest |-> q.lastRequest, closed |-> q.closed]
  OBVIOUS
<1>3. RegistryOK(p) /\ LeasesKept(r, p) BY DEF Retires
<1>4. RegistryOK(q) BY ONLY <1>1, <1>2, <1>3, lastEpoch \in Nat, closed \in BOOLEAN DEF RegistryOK
<1>5. LeasesKept(r, q) BY ONLY <1>1, <1>3 DEF LeasesKept
<1> QED BY <1>1, <1>4, <1>5 DEF Rescoped

\* activate retires every grant of the session before.
LEMMA ActivateScopeEffect ==
  ASSUME NEW r, RegistryOK(r), ~r.closed, NEW session, NEW epoch \in Nat, epoch > r.lastEpoch,
         NEW q, q = ActivateScope(r, session, epoch)
  PROVE  /\ Rescoped(r, q, [session |-> session, epoch |-> epoch], epoch, r.closed)
         /\ \A g \in DOMAIN q.slots : q.slots[g].retired
<1> DEFINE p == Retire(r, DOMAIN r.slots)
           scope == [session |-> session, epoch |-> epoch]
<1>1. Retires(r, p, DOMAIN r.slots) BY RetireEffect
<1>2. q = [p EXCEPT !.scope = scope, !.lastEpoch = epoch]
  BY DEF ActivateScope, RegistryOK
<1> HIDE DEF p, scope
<1>3. RegistryOK(p) /\ p.closed = r.closed BY <1>1 DEF Retires
<1>4. q = [slots |-> p.slots, scope |-> scope, lastEpoch |-> epoch,
           lastRequest |-> p.lastRequest, closed |-> r.closed]
  BY ONLY <1>2, <1>3 DEF RegistryOK
<1>5. r.closed \in BOOLEAN BY DEF RegistryOK
<1>6. Rescoped(r, q, scope, epoch, r.closed) /\ q.slots = p.slots
  BY ONLY <1>1, <1>4, <1>5, epoch \in Nat, RescopeEffect
<1> QED BY <1>1, <1>6 DEF Retires, scope

\* invalidate keeps every lease.
LEMMA InvalidateScopeEffect ==
  ASSUME NEW r, RegistryOK(r), NEW session, NEW q, q = InvalidateScope(r, session)
  PROVE  RegistryOK(q) /\ LeasesKept(r, q) /\ q.lastEpoch = r.lastEpoch
<1> DEFINE own == {g \in DOMAIN r.slots : r.slots[g].session = session}
           p == Retire(r, own)
           scope == IF p.scope.session = session THEN NoScope ELSE p.scope
<1>1. Retires(r, p, own) BY RetireEffect
<1>2. q = [p EXCEPT !.scope = scope] BY DEF InvalidateScope
<1> HIDE DEF p, scope, own
<1>3. RegistryOK(p) /\ p.closed = r.closed /\ p.lastEpoch = r.lastEpoch BY <1>1 DEF Retires
<1>4. q = [slots |-> p.slots, scope |-> scope, lastEpoch |-> r.lastEpoch,
           lastRequest |-> p.lastRequest, closed |-> r.closed]
  BY ONLY <1>2, <1>3 DEF RegistryOK
<1>5. r.closed \in BOOLEAN /\ r.lastEpoch \in Nat BY DEF RegistryOK
<1>6. Rescoped(r, q, scope, r.lastEpoch, r.closed)
  BY ONLY <1>1, <1>4, <1>5, RescopeEffect
<1> QED BY <1>6 DEF Rescoped

\* The destructor of the registry retires every grant.
LEMMA CloseGrantsEffect ==
  ASSUME NEW r, RegistryOK(r), NEW q, q = CloseGrants(r)
  PROVE  /\ Rescoped(r, q, NoScope, r.lastEpoch, TRUE)
         /\ \A g \in DOMAIN q.slots : q.slots[g].retired
<1> DEFINE p == Retire(r, DOMAIN r.slots)
           scope == NoScope
<1>1. Retires(r, p, DOMAIN r.slots) BY RetireEffect
<1>2. q = [p EXCEPT !.closed = TRUE, !.scope = scope] BY DEF CloseGrants
<1> HIDE DEF p, scope
<1>3. RegistryOK(p) /\ p.lastEpoch = r.lastEpoch BY <1>1 DEF Retires
<1>4. q = [slots |-> p.slots, scope |-> scope, lastEpoch |-> r.lastEpoch,
           lastRequest |-> p.lastRequest, closed |-> TRUE]
  BY ONLY <1>2, <1>3 DEF RegistryOK
<1>5. r.lastEpoch \in Nat /\ TRUE \in BOOLEAN BY DEF RegistryOK
<1>6. Rescoped(r, q, scope, r.lastEpoch, TRUE) /\ q.slots = p.slots
  BY ONLY <1>1, <1>4, <1>5, RescopeEffect
<1> QED BY <1>1, <1>6 DEF Retires, scope

\* activate_session keeps the invariant.
LEMMA ActivateSessionInv ==
  ASSUME LocalInv, NEW session \in Sessions, ActivateSession(session)
  PROVE  LocalInv'
<1> DEFINE epoch == browser.epoch + 1
           q == ActivateScope(grants, session, epoch)
           s == [w |-> worker, r |-> q, b |-> browser]
           t == CancelEverything(s)
           c == [t.b EXCEPT !.session = session, !.epoch = epoch,
                            !.revision = 0, !.folders = [r \in {} |-> 0],
                            !.selection = {}, !.listing = Nil,
                            !.preview = Nil]
           v == IF browser.session = Nil THEN t.w ELSE InvalidateSession(t.w, browser.session)
<1>0. Parts(worker, grants, browser) BY InvParts
<1>1. /\ WorkerOK(worker) /\ RegistryOK(grants) /\ BrowserOK(browser)
      /\ PendingOK(worker, browser) /\ ScopeOK(grants, browser)
  BY <1>0 DEF Parts
<1>2. Core(Here) /\ Here.w = worker /\ Here.r = grants /\ Here.b = browser BY HereOk
<1>3. ~browser.closed BY DEF ActivateSession, Owner
<1>4. epoch \in Nat /\ epoch > grants.lastEpoch /\ epoch > 0
  BY <1>1 DEF BrowserOK, ScopeOK
<1>5. s = [Here EXCEPT !.r = ActivateScope(@, session, epoch)] BY DEF Here
<1>6. /\ browser.session = Nil => Becomes([t EXCEPT !.b = c])
      /\ browser.session # Nil => Becomes([[t EXCEPT !.b = c] EXCEPT !.w = InvalidateSession(@, browser.session)])
  <2> HIDE DEF s
  <2> QED BY <1>5 DEF ActivateSession
<1>7. /\ Rescoped(grants, q, [session |-> session, epoch |-> epoch], epoch, grants.closed)
      /\ \A g \in DOMAIN q.slots : q.slots[g].retired
  <2>1. ~grants.closed BY <1>1, <1>3 DEF ScopeOK
  <2> HIDE DEF epoch
  <2> QED BY <1>1, <1>4, <2>1, ActivateScopeEffect
<1> HIDE DEF epoch, q
<1>8. s = [w |-> worker, r |-> q, b |-> browser] /\ s.w = worker /\ s.r = q /\ s.b = browser
  OBVIOUS
<1> HIDE DEF s
<1>9. Ends(worker, worker, {}) BY <1>1, EndsUnchanged
<1>10. Core(s)
  <2>1. RegistryOK(q) /\ LeasesKept(grants, q) BY <1>7 DEF Rescoped
  <2> QED BY <1>2, <1>8, <1>9, <2>1, CoreWith
<1>11. /\ Core(t) /\ LiveSet(t.w) = {}
       /\ Retires(q, t.r, GrantOf(browser, Fields)) /\ Forgets(browser, t.b, Fields)
  BY <1>1, <1>8, <1>9, <1>10, CancelledLive
<1> HIDE DEF t
<1>12. /\ WorkerOK(t.w) /\ RegistryOK(t.r) /\ BrowserOK(t.b) /\ JobsOK(t.w, t.r)
       /\ t = [w |-> t.w, r |-> t.r, b |-> t.b]
  BY <1>11 DEF Core
<1>13. Fresh(t.b, c, session, epoch, t.b.closed) BY <1>4, <1>12, ActivatedBrowser
<1> HIDE DEF c
<1>14. \E gone : Ends(t.w, v, gone)
  BY <1>12, EndsUnchanged, EndsInvalidateSession
<1>15. Becomes([w |-> v, r |-> t.r, b |-> c])
  <2>1. CASE browser.session = Nil
    <3>1. [t EXCEPT !.b = c] = [w |-> t.w, r |-> t.r, b |-> c] BY ONLY <1>12
    <3> QED BY <1>6, <2>1, <3>1
  <2>2. CASE browser.session # Nil
    <3> DEFINE x == InvalidateSession(t.w, browser.session)
    <3>1. [t EXCEPT !.b = c] = [w |-> t.w, r |-> t.r, b |-> c] BY ONLY <1>12
    <3>2. [[w |-> t.w, r |-> t.r, b |-> c] EXCEPT !.w = InvalidateSession(@, browser.session)]
            = [w |-> x, r |-> t.r, b |-> c]
      OBVIOUS
    <3>3. v = x BY <2>2
    <3> HIDE DEF x, v
    <3> QED BY <1>6, <2>2, <3>1, <3>2, <3>3
  <2> QED BY <2>1, <2>2
<1> HIDE DEF v
<1>16. WorkerOK(v) /\ LiveSet(v) = {} /\ JobsOK(v, t.r)
  <2>1. PICK gone : Ends(t.w, v, gone) BY <1>14
  <2>2. LiveSet(v) = LiveSet(t.w) \ gone BY <1>12, <2>1, EndsLive
  <2>3. JobsOK(v, t.r) BY <1>12, <2>1, LeasesKeptSelf, JobsKept
  <2> QED BY <1>11, <2>1, <2>2, <2>3 DEF Ends
<1>17. \A g \in DOMAIN t.r.slots : t.r.slots[g].retired BY <1>7, <1>11 DEF Retires
<1>18. ScopeOK(t.r, c)
  <2>1. /\ t.r.scope = [session |-> session, epoch |-> epoch] /\ t.r.lastEpoch = epoch
        /\ t.r.closed = grants.closed
    BY <1>7, <1>11 DEF Retires, Rescoped
  <2>2. c.session = session /\ c.epoch = epoch /\ c.closed = browser.closed
    BY <1>11, <1>13 DEF Fresh, Forgets
  <2>3. session # Nil BY WorkerAssumption
  <2> QED BY ONLY <1>1, <1>3, <1>4, <2>1, <2>2, <2>3 DEF ScopeOK
<1>19. /\ BrowserOK(c) /\ DOMAIN c.folders = {} /\ c.selection = {} /\ c.listing = Nil
       /\ c.preview = Nil /\ c.granting = Nil /\ c.reading = Nil /\ c.preparing = Nil
       /\ c.repository = Nil
  BY <1>11, <1>13 DEF Fresh, Forgets, Fields
<1>20. Parts(v, t.r, c) BY ONLY <1>12, <1>16, <1>17, <1>18, <1>19, EmptyOk
<1>21. Ok([w |-> v, r |-> t.r, b |-> c]) BY <1>20, OkParts
<1> QED BY <1>15, <1>21, BecomesInv

\* The end of the application keeps the invariant.
LEMMA ShutdownInv ==
  ASSUME LocalInv, Shutdown
  PROVE  LocalInv'
<1> DEFINE s == IF Here.b.session = Nil THEN Here
                ELSE [Here EXCEPT !.w = InvalidateSession(@, Here.b.session),
                                  !.r = InvalidateScope(@, Here.b.session)]
           t == CancelEverything(s)
           q == CloseGrants(t.r)
           v == CancelAll(t.w, DOMAIN t.w.jobs)
           c == [t.b EXCEPT !.session = Nil, !.folders = [r \in {} |-> 0],
                            !.selection = {}, !.listing = Nil, !.preview = Nil,
                            !.closed = TRUE]
<1>0. Parts(worker, grants, browser) BY InvParts
<1>1. /\ WorkerOK(worker) /\ RegistryOK(grants) /\ BrowserOK(browser)
      /\ PendingOK(worker, browser) /\ ScopeOK(grants, browser)
  BY <1>0 DEF Parts
<1>2. Core(Here) /\ Here.w = worker /\ Here.r = grants /\ Here.b = browser BY HereOk
<1>3. Becomes([t EXCEPT !.r = CloseGrants(@), !.w = CancelAll(@, DOMAIN @.jobs), !.b = c])
  BY DEF Shutdown
<1>4. /\ Core(s) /\ s.b = browser /\ s.r.lastEpoch = grants.lastEpoch
      /\ \E gone : Ends(worker, s.w, gone)
  <2>1. CASE Here.b.session = Nil
    <3>1. s = Here BY <2>1
    <3> HIDE DEF s
    <3> QED BY <1>1, <1>2, <3>1, EndsUnchanged
  <2>2. CASE Here.b.session # Nil
    <3> DEFINE x == InvalidateSession(worker, browser.session)
               y == InvalidateScope(grants, browser.session)
    <3>1. s = [w |-> x, r |-> y, b |-> browser] BY <2>2 DEF Here
    <3>2. \E gone : Ends(worker, x, gone) BY <1>1, EndsInvalidateSession
    <3>3. RegistryOK(y) /\ LeasesKept(grants, y) /\ y.lastEpoch = grants.lastEpoch
      BY <1>1, InvalidateScopeEffect
    <3> HIDE DEF s, x, y
    <3>4. Core(s) BY <1>2, <3>1, <3>2, <3>3, CoreWith
    <3>5. s.w = x /\ s.r = y /\ s.b = browser BY <3>1
    <3> QED BY <3>2, <3>3, <3>4, <3>5
  <2> QED BY <2>1, <2>2
<1> HIDE DEF s
<1>5. /\ Core(t) /\ LiveSet(t.w) = {}
      /\ Retires(s.r, t.r, GrantOf(browser, Fields)) /\ Forgets(browser, t.b, Fields)
  BY <1>1, <1>4, CancelledLive
<1> HIDE DEF t
<1>6. /\ WorkerOK(t.w) /\ RegistryOK(t.r) /\ BrowserOK(t.b) /\ JobsOK(t.w, t.r)
      /\ t = [w |-> t.w, r |-> t.r, b |-> t.b]
  BY <1>5 DEF Core
<1>7. /\ Rescoped(t.r, q, NoScope, t.r.lastEpoch, TRUE)
      /\ \A g \in DOMAIN q.slots : q.slots[g].retired
  BY <1>6, CloseGrantsEffect
<1>8. Ends(t.w, v, DOMAIN t.w.jobs) BY <1>6, EndsCancelAll
<1>9. Fresh(t.b, c, Nil, t.b.epoch, TRUE) BY <1>6, ClosedBrowser
<1>10. Becomes([w |-> v, r |-> q, b |-> c])
  <2> HIDE DEF c
  <2>1. [t EXCEPT !.r = CloseGrants(@), !.w = CancelAll(@, DOMAIN @.jobs), !.b = c]
          = [w |-> v, r |-> q, b |-> c]
    <3> DEFINE t1 == [t EXCEPT !.r = CloseGrants(@)]
               t2 == [t1 EXCEPT !.w = CancelAll(@, DOMAIN @.jobs)]
               t3 == [t2 EXCEPT !.b = c]
    <3>1. t3 = [t EXCEPT !.r = CloseGrants(@), !.w = CancelAll(@, DOMAIN @.jobs), !.b = c]
      OBVIOUS
    <3>2. t1 = [w |-> t.w, r |-> q, b |-> t.b] BY ONLY <1>6
    <3> HIDE DEF t1, q
    <3>3. t1.w = t.w /\ t1.r = q /\ t1.b = t.b BY ONLY <3>2
    <3>4. t2 = [w |-> v, r |-> q, b |-> t.b] BY ONLY <3>2, <3>3
    <3> HIDE DEF t2, v
    <3>5. t3 = [w |-> v, r |-> q, b |-> c] BY ONLY <3>4
    <3> HIDE DEF t3
    <3> QED BY ONLY <3>1, <3>5
  <2> HIDE DEF v, q
  <2> QED BY <1>3, <2>1
<1> HIDE DEF v, q, c
<1>11. WorkerOK(v) /\ LiveSet(v) = {} /\ JobsOK(v, q)
  <2>1. LiveSet(v) = LiveSet(t.w) \ DOMAIN t.w.jobs BY <1>6, <1>8, EndsLive
  <2>2. JobsOK(v, q) BY <1>6, <1>7, <1>8, JobsKept DEF Rescoped
  <2> QED BY <1>5, <1>8, <2>1, <2>2 DEF Ends
<1>12. ScopeOK(q, c)
  <2>1. q.scope = NoScope /\ q.lastEpoch = t.r.lastEpoch /\ q.closed = TRUE
    BY <1>7 DEF Rescoped
  <2>2. c.session = Nil /\ c.epoch = browser.epoch /\ c.closed = TRUE
    BY <1>5, <1>9 DEF Fresh, Forgets
  <2>3. t.r.lastEpoch = browser.epoch BY <1>1, <1>4, <1>5 DEF ScopeOK, Retires
  <2> QED BY ONLY <2>1, <2>2, <2>3 DEF ScopeOK
<1>13. /\ BrowserOK(c) /\ DOMAIN c.folders = {} /\ c.selection = {} /\ c.listing = Nil
       /\ c.preview = Nil /\ c.granting = Nil /\ c.reading = Nil /\ c.preparing = Nil
       /\ c.repository = Nil
  BY <1>5, <1>9 DEF Fresh, Forgets, Fields
<1>14. RegistryOK(q) BY <1>7 DEF Rescoped
<1>15. Parts(v, q, c) BY ONLY <1>7, <1>11, <1>12, <1>13, <1>14, EmptyOk
<1>16. Ok([w |-> v, r |-> q, b |-> c]) BY <1>15, OkParts
<1> QED BY <1>10, <1>16, BecomesInv

-----------------------------------------------------------------------------
(* The invariant is inductive. *)

\* The invariant holds at first.
LEMMA InitInv ==
  ASSUME Init
  PROVE  LocalInv
<1> DEFINE none == [i \in {} |-> Nil]
           free == [g \in {} |-> NoRoot]
           unlisted == [r \in {} |-> 0]
<1>1. /\ worker = [jobs |-> none, lastRequest |-> 0, lastAllocated |-> 0]
      /\ grants = [slots |-> free, scope |-> NoScope, lastEpoch |-> 0, lastRequest |-> 0,
                   closed |-> FALSE]
      /\ browser = [session |-> Nil, epoch |-> 0, revision |-> 0, folders |-> unlisted,
                    selection |-> {}, listing |-> Nil, preview |-> Nil,
                    granting |-> Nil, reading |-> Nil, preparing |-> Nil,
                    repository |-> Nil, closed |-> FALSE]
  BY DEF Init, InitWorker, InitGrants, InitBrowser
<1>2. /\ DOMAIN none = {} /\ none \in [DOMAIN none -> Job]
      /\ DOMAIN free = {} /\ free \in [DOMAIN free -> Slot]
      /\ DOMAIN unlisted = {} /\ unlisted \in [DOMAIN unlisted -> Nat]
  OBVIOUS
<1> HIDE DEF none, free, unlisted
<1>3. WorkerOK(worker) BY ONLY <1>1, <1>2 DEF WorkerOK
<1>4. RegistryOK(grants) BY ONLY <1>1, <1>2 DEF RegistryOK
<1>5. /\ browser.session = Nil /\ browser.epoch = 0 /\ browser.revision = 0
      /\ browser.folders = unlisted /\ browser.selection = {} /\ browser.listing = Nil
      /\ browser.preview = Nil /\ browser.granting = Nil /\ browser.reading = Nil
      /\ browser.preparing = Nil /\ browser.repository = Nil /\ browser.closed = FALSE
  BY ONLY <1>1
<1>6. BrowserOK(browser) BY ONLY <1>1, <1>2, <1>5 DEF BrowserOK
<1>7. JobsOK(worker, grants) BY ONLY <1>1, <1>2 DEF JobsOK
<1>8. ScopeOK(grants, browser) BY ONLY <1>1, <1>5 DEF ScopeOK
<1>9. LiveSet(worker) = {} BY ONLY <1>1, <1>2 DEF LiveSet
<1>10. \A g \in DOMAIN grants.slots : grants.slots[g].retired BY ONLY <1>1, <1>2
<1>11. DOMAIN browser.folders = {} BY ONLY <1>2, <1>5
<1>12. Parts(worker, grants, browser)
  BY ONLY <1>3, <1>4, <1>5, <1>6, <1>7, <1>8, <1>9, <1>10, <1>11, EmptyOk
<1> QED BY <1>12, InvParts

\* Every step keeps the invariant.
LEMMA NextInv ==
  ASSUME LocalInv, Next
  PROVE  LocalInv'
<1>1. CASE User
  <2>1. ASSUME NEW session \in Sessions, ActivateSession(session) PROVE LocalInv'
    BY <2>1, ActivateSessionInv
  <2>2. CASE Shutdown BY <2>2, ShutdownInv
  <2>3. ASSUME NEW root \in Roots, RemoveFolder(root) PROVE LocalInv'
    BY <2>3, RemoveFolderInv
  <2>4. CASE ClearEvidence \/ \E source \in Sources : RemoveEvidence(source)
    BY <2>4, EvidenceInv
  <2>5. CASE CancelBrowsingNow \/ CancelContextNow \/ CancelRepositoryNow
    BY <2>5, CancelsInv
  <2>6. ASSUME NEW launch \in Launches, AddFolder(launch) PROVE LocalInv'
    BY <2>6, AddFolderInv
  <2>7. ASSUME NEW launch \in Launches, NEW root \in Roots, NEW purpose \in Purposes,
               BeginRead(root, purpose, launch)
        PROVE  LocalInv'
    BY <2>7, BeginReadInv
  <2>8. ASSUME NEW launch \in Launches,
               \/ PrepareSelection(launch)
               \/ \E sources \in Selections \ {{}} : Revalidate(sources, launch)
        PROVE  LocalInv'
    BY <2>8, PreparationsInv
  <2>9. ASSUME NEW launch \in Launches, PrepareRepository(launch) PROVE LocalInv'
    BY <2>9, PrepareRepositoryInv
  <2> QED BY <1>1, <2>1, <2>2, <2>3, <2>4, <2>5, <2>6, <2>7, <2>8, <2>9 DEF User
<1>2. CASE PollBrowser BY <1>2, PollBrowserInv
<1>3. CASE PollContext BY <1>3, PollContextInv
<1>4. CASE PollRepository BY <1>4, PollRepositoryInv
<1>5. CASE Threads BY <1>5, ThreadsInv
<1> QED BY <1>1, <1>2, <1>3, <1>4, <1>5 DEF Next

\* The invariant holds in every reachable state.
LEMMA Inductive == Spec => []LocalInv
<1>1. LocalInv /\ [Next]_vars => LocalInv'
  <2> SUFFICES ASSUME LocalInv, [Next]_vars PROVE LocalInv' OBVIOUS
  <2>1. CASE Next BY <2>1, NextInv
  <2>2. CASE UNCHANGED vars
    <3>1. worker' = worker /\ grants' = grants /\ browser' = browser BY <2>2 DEF vars
    <3>2. Here' = Here BY <3>1 DEF Here
    <3> QED BY <3>2 DEF LocalInv
  <2> QED BY <2>1, <2>2
<1>2. Init => LocalInv BY InitInv
<1> QED BY <1>1, <1>2, PTL DEF Spec

-----------------------------------------------------------------------------
(* What it implies. *)

\* What JobsOK says of borrows is LeaseOutlivesReaders.
LEMMA LeasesFollow ==
  ASSUME LocalInv
  PROVE  LeaseOutlivesReaders
BY InvParts DEF Parts, JobsOK, JobOK, LeaseOutlivesReaders

\* What PendingOK says is LiveWorkIsPending.
LEMMA PendingFollows ==
  ASSUME LocalInv
  PROVE  LiveWorkIsPending
<1>1. BrowserOK(browser) /\ LiveSet(worker) = IdsOf(browser, Fields)
  BY InvParts DEF Parts, PendingOK
<1>2. /\ "granting" \in Fields /\ "reading" \in Fields /\ "preparing" \in Fields
      /\ "repository" \in Fields
  BY DEF Fields
<1>3. IdsOf(browser, Fields) = PendingWork
  <2>1. /\ browser.granting \in Nat \cup {Nil} /\ browser.repository \in Nat \cup {Nil}
        /\ browser.reading # Nil => browser.reading.id \in Nat
        /\ browser.preparing # Nil => browser.preparing.id \in Nat
    BY <1>1 DEF BrowserOK, ReadWork, ContextWork
  <2>2. ASSUME NEW i \in PendingWork PROVE i \in IdsOf(browser, Fields)
    BY <1>2, <2>1, <2>2 DEF IdsOf, PendingWork
  <2>3. ASSUME NEW i \in IdsOf(browser, Fields) PROVE i \in PendingWork
    BY <2>3, NilIsNoId DEF IdsOf, PendingWork
  <2> QED BY <2>2, <2>3
<1> QED BY <1>1, <1>3 DEF LiveWorkIsPending, LiveSet

\* ActiveOK, ScopeOK and ShownOK give GrantsMatchFolders.
LEMMA FoldersFollow ==
  ASSUME LocalInv
  PROVE  GrantsMatchFolders
<1>1. /\ RegistryOK(grants) /\ BrowserOK(browser) /\ ScopeOK(grants, browser)
      /\ ActiveOK(grants, browser) /\ ShownOK(browser) /\ SelectedOK(browser, browser.selection)
  BY InvParts DEF Parts
<1>2. \A g \in DOMAIN grants.slots :
       ~grants.slots[g].retired =>
         \/ g = browser.granting
         \/ /\ grants.slots[g].active
            /\ grants.slots[g].root \in Listed
            /\ browser.folders[grants.slots[g].root] = g
  BY <1>1 DEF ActiveOK, Listed
<1>3. ASSUME NEW root \in Listed
      PROVE  Resolved(grants, browser.session, root) = {browser.folders[root]}
  <2> DEFINE g == browser.folders[root]
  <2>1. /\ g \in DOMAIN grants.slots /\ grants.slots[g].active /\ grants.slots[g].root = root
        /\ grants.slots[g].session = browser.session /\ grants.slots[g].epoch = browser.epoch
    BY <1>1 DEF ActiveOK, Listed
  <2>2. ~grants.slots[g].retired /\ grants.slots[g].session \in Sessions
    BY <1>1, <2>1 DEF RegistryOK, SlotOK, Slot
  <2>3. browser.session # Nil BY <2>1, <2>2, WorkerAssumption
  <2>4. /\ grants.scope = [session |-> browser.session, epoch |-> browser.epoch]
        /\ browser.epoch > 0
    BY <1>1, <2>3 DEF ScopeOK
  <2>5. Current(grants, grants.slots[g])
    <3>1. browser.epoch # 0 BY <1>1, <2>4 DEF BrowserOK
    <3>2. grants.scope # NoScope BY <2>4, <3>1 DEF NoScope
    <3>3. ~grants.closed BY <1>1, <2>3 DEF ScopeOK
    <3> QED BY <2>1, <2>4, <3>2, <3>3 DEF Current
  <2>6. ASSUME NEW h \in Resolved(grants, browser.session, root) PROVE h = g
    BY <1>1, <2>6 DEF Resolved, ActiveOK
  <2>7. g \in Resolved(grants, browser.session, root)
    BY <2>1, <2>2, <2>5 DEF Resolved
  <2> QED BY <2>6, <2>7
<1> QED BY <1>1, <1>2, <1>3 DEF GrantsMatchFolders, ShownOK, ShownSet, Listed, SelectedOK

\* A finished preparation has checked all it got, so ContextOK gives ContextIsCurrent.
LEMMA ContextFollows ==
  ASSUME LocalInv
  PROVE  ContextIsCurrent
<1> SUFFICES ASSUME browser.preparing # Nil PROVE ContextIsCurrent BY DEF ContextIsCurrent
<1> DEFINE id == browser.preparing.id
<1>1. /\ BrowserOK(browser) /\ PendingOK(worker, browser) /\ JobsOK(worker, grants)
      /\ ContextOK(worker, grants, browser)
  BY InvParts DEF Parts
<1>2. id \in DOMAIN worker.jobs BY <1>1, FieldIds DEF PendingOK, LiveSet
<1>3. worker.jobs[id].task.kind = "context" BY <1>1 DEF PendingOK, KindsOK
<1>4. worker.jobs[id].result = "ok" => worker.jobs[id].task.checked = worker.jobs[id].task.got
  BY <1>1, <1>2, <1>3 DEF JobsOK, JobOK
<1> QED BY <1>1, <1>4 DEF ContextIsCurrent, ContextOK

\* For any number of jobs, grants, roots and sessions, and any interleaving of the
\* owner, the job threads and the reclaimer: no job ever holds a borrowed lease that
\* the reclaimer has begun to destroy (Borrow, reclaim_one).
THEOREM LeasesOutliveReaders == Spec => []LeaseOutlivesReaders
BY Inductive, LeasesFollow, PTL

\* The worker and the browser always agree on what is under way, through failed
\* launches, cancellations, late answers and session changes (cancel_*, SubmitWork).
THEOREM LiveWorkIsAlwaysPending == Spec => []LiveWorkIsPending
BY Inductive, PendingFollows, PTL

\* The registry and the browser always agree on what is granted, and nothing is shown
\* or selected that was not read under a listed folder (accept, revoke, remove_folder).
THEOREM GrantsAlwaysMatchFolders == Spec => []GrantsMatchFolders
BY Inductive, FoldersFollow, PTL

\* A prepared context the owner could still take was read under grants that are all in
\* force, and is about the current selection unless it is a recovery (prepare_sources,
\* selection_changed).
THEOREM PreparedContextIsCurrent == Spec => []ContextIsCurrent
BY Inductive, ContextFollows, PTL
===============================================================================
