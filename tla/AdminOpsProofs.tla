-------------------------- MODULE AdminOpsProofs --------------------------
(***************************************************************************)
(* Theorems about AdminOps.  A handler of the owner takes the record Here   *)
(* through the calls it makes, so the invariant is stated of a record s     *)
(* that need not be the current state.  Base(s) holds between any two calls *)
(* of a handler; Matches(s), which relates the controller to the broker,    *)
(* is broken while a selection or the log policy is being changed and       *)
(* restored by the end of the handler.                                      *)
(***************************************************************************)
EXTENDS AdminOps, TLAPS, WellFoundedInduction

-----------------------------------------------------------------------------
(* Types. *)

Tasks ==
  [kind : {"observe"}, entry : Nat] \cup [kind : {"preparation"}, target : Targets]

Jobs ==
  [session : Sessions, task : Tasks, borrows : SUBSET Nat,
   discarded : BOOLEAN, consumed : BOOLEAN, relayDone : BOOLEAN,
   stop : BOOLEAN, pc : {"waiting", "calling", "holding", "disposing", "done"},
   result : {Nil, "ok", "failed", "disconnected", "exhausted"}]

JobTables == UNION {[D -> Jobs] : D \in SUBSET Nat}

Workers == [jobs : JobTables, lastRequest : Nat, lastAllocated : Nat]

Entries ==
  [request : Requests, expired : BOOLEAN, stop : BOOLEAN, error : BOOLEAN,
   claimed : BOOLEAN, token : Nat \cup {Nil}, result : BOOLEAN]

EntryTables == UNION {[D -> Entries] : D \in SUBSET Nat}

Consents == [active : BOOLEAN, current : Authorities \cup {Nil}]

Brokers ==
  [session : Sessions \cup {Nil}, epoch : Nat, closed : BOOLEAN,
   entries : EntryTables, authority : Authorities \cup {Nil},
   source : Sources \cup {Nil}, consent : Consents]

Failures == {Nil, "storage", "history", "internal", "other"}

Kernels ==
  [id : Sessions \cup {Nil}, run : Runs \cup {Nil}, runs : Nat,
   unusable : BOOLEAN, problem : Failures, available : BOOLEAN,
   busy : BOOLEAN, tool : Authorities \cup {Nil},
   manual : Manuals \cup {Nil}, success : Successes \cup {Nil}]

Records ==
  [gen : Nat, health : Requests \cup {Nil}, latest : Successes \cup {Nil}]

Histories == [Sessions -> Records]

Admins ==
  [session : Sessions \cup {Nil}, epoch : Nat, gen : Nat,
   health : Requests \cup {Nil}, prep : PreparationWork \cup {Nil},
   fatal : BOOLEAN, consent : BOOLEAN, source : Sources \cup {Nil},
   bound : BOOLEAN, active : Targets \cup {Nil},
   logs : {"unavailable", "enabled", "disabled"}, rev : Nat,
   evidence : BOOLEAN, current : Nat \cup {Nil},
   status : {"not_started", "running", "completed", "failed", "cancelled"}]

States ==
  [w : Workers, b : Brokers, x : Execs \cup {Nil}, k : Kernels,
   h : Histories, a : Admins, ok : BOOLEAN, why : Failures, lost : BOOLEAN]

-----------------------------------------------------------------------------
(* The invariant. *)

\* Identities grow: the jobs there are were numbered before.
WorkerOK(w) ==
  w \in Workers /\ \A i \in DOMAIN w.jobs : i <= w.lastRequest

\* An entry is sent once, and one with a result has left the worker; a source is bound with its
\* authority, and both need a consent that was once given.
BrokerOK(b) ==
  /\ b \in Brokers
  /\ b.authority # Nil => b.source # Nil /\ b.consent.current # Nil
  /\ \A t \in DOMAIN b.entries :
       /\ b.entries[t].request.session = b.session
       /\ b.entries[t].result => b.entries[t].claimed /\ b.entries[t].token = Nil
       /\ ~b.entries[t].claimed => b.entries[t].token = Nil

\* The executor is that of the run, and the projection is about runs that
\* were started; a manual run that goes on has no success yet.
RunOK(k, x) ==
  /\ x # Nil => /\ k.run # Nil
                /\ k.run.phase = "running"
                /\ x.ticket = k.runs
                /\ x.request = k.run.request
  /\ k.run # Nil =>
       /\ k.run.phase # "thinking" => k.run.request \in Requests
       /\ k.run.manual =>
            /\ k.run.phase # "thinking"
            /\ k.manual # Nil
            /\ k.manual.run = k.runs
            /\ ~k.run.terminal => k.success = Nil \/ k.success.run < k.runs
  /\ k.success # Nil => k.success.run <= k.runs
  /\ k.manual # Nil =>
       /\ k.manual.run <= k.runs
       /\ (k.success # Nil /\ k.success.run = k.manual.run) =>
            k.manual.status = "completed"

\* A manual run is over once the update of its executor was seen.
HandledOK(k, x) ==
  (x # Nil /\ x.seen /\ k.run # Nil /\ k.run.manual) => k.run.terminal

\* A run that is over and runs no tool is dropped by the commit that ends it.
SettledOK(k, x) ==
  /\ (k.run # Nil /\ k.run.terminal) => k.run.phase = "running"
  /\ HandledOK(k, x)

\* What the entry of an executor says about it; an executor that has yet to
\* put it into the mailbox has no answer, and is stopped if its run is over.
EntryOf(b, x, k) ==
  /\ x.pc = "starting" =>
       /\ x.ticket \notin DOMAIN b.entries
       /\ ~x.receipt /\ ~x.seen
       /\ k.run.terminal => x.stop
  /\ x.ticket \in DOMAIN b.entries =>
       LET entry == b.entries[x.ticket]
       IN /\ entry.request = x.request
          /\ x.stop => entry.stop
          /\ x.receipt => entry.result
          /\ (x.pc \in {"posted", "ended"} /\ ~x.receipt) => entry.error
          /\ k.run.terminal => x.stop

\* An update the owner has seen leaves no entry behind that service keeps.
SeenOK(b, x) ==
  (x # Nil /\ x.seen /\ x.ticket \in DOMAIN b.entries) => Rejected(b, x.ticket)

\* Tickets are the numbers of the runs.
MailboxOK(b, x, k) ==
  /\ \A t \in DOMAIN b.entries :
       /\ t <= k.runs
       /\ (x # Nil /\ x.ticket = t) \/ Rejected(b, t)
  /\ (k.run # Nil /\ k.run.phase \in {"proposed", "approval"}) =>
       k.runs \notin DOMAIN b.entries
  /\ x # Nil => EntryOf(b, x, k)

LiveIds(w) == {i \in DOMAIN w.jobs : Live(w.jobs[i])}

PrepIds(a) == IF a.prep = Nil \/ a.prep.discarded THEN {} ELSE {a.prep.id}

\* Every live job is awaited; a preparation that was claimed is not live, nor
\* will a later job have its identity.
SlotsOK(w, b, a) ==
  /\ LiveIds(w) \subseteq Tokens(b) \cup PrepIds(a)
  /\ a.prep # Nil =>
       /\ a.prep.id < NextRequest(w)
       /\ a.prep.claimed # Nil => a.prep.id \notin LiveIds(w)

\* The controller and the broker are in the same activation, and a controller
\* that gave up its consent left none that is in force.
PlaceOK(b, a) ==
  /\ a.epoch = b.epoch
  /\ a.session = b.session
  /\ a.source # Nil => a.source.epoch = a.epoch
  /\ b.source # Nil => b.source.epoch = b.epoch
  /\ a.prep # Nil =>
       /\ ~a.prep.discarded =>
            a.prep.session = a.session /\ a.prep.epoch = a.epoch
       /\ a.prep.claimed # Nil => a.prep.claimed.epoch = a.prep.epoch
  /\ ~a.consent => ~b.consent.active \/ b.consent.current = Nil

\* Everything but SettledOK, which a run that is being ended breaks until it is
\* committed.
Loose(s) ==
  /\ s \in States
  /\ WorkerOK(s.w)
  /\ BrokerOK(s.b)
  /\ RunOK(s.k, s.x)
  /\ MailboxOK(s.b, s.x, s.k)
  /\ SeenOK(s.b, s.x)
  /\ SlotsOK(s.w, s.b, s.a)
  /\ PlaceOK(s.b, s.a)

Base(s) == Loose(s) /\ SettledOK(s.k, s.x)

Agrees(b, k, a) ==
  /\ b.authority # Nil
  /\ b.authority.session = a.session
  /\ b.authority.target = a.active
  /\ b.authority.gen = a.gen
  /\ b.authority.rev = a.rev
  /\ b.authority.logs => a.logs = "enabled"
  /\ ~b.authority.logs => a.logs # "enabled"
  /\ b.consent.active
  /\ b.consent.current = b.authority
  /\ k.tool = b.authority
  /\ b.source = a.source

\* A controller that shows a target shows what is enforced, and otherwise has
\* nothing; the run it waits for is the last manual one.
Matches(b, k, a) ==
  /\ a.active # Nil => a.consent /\ Agrees(b, k, a)
  /\ a.active = Nil =>
       /\ ~a.consent
       /\ a.source = Nil
       /\ a.current = Nil
       /\ a.logs = "unavailable"
  /\ a.current # Nil => k.manual # Nil /\ k.manual.run = a.current
  /\ (a.current # Nil /\ k.success # Nil /\ k.success.run = a.current) =>
       /\ k.success.request.session = a.session
       /\ k.success.request.target = a.active
       /\ k.success.request.gen = a.gen
       /\ k.success.request.rev = a.rev

Good(s) == Base(s) /\ Matches(s.b, s.k, s.a)

AdminInv == Good(Here)
-----------------------------------------------------------------------------
(* The worker's operations. *)

\* No job has become live but those in `new', none in `gone' is live, and no
\* identity is used twice.
Works(w, v, new, gone) ==
  /\ WorkerOK(v)
  /\ LiveIds(v) \subseteq (LiveIds(w) \ gone) \cup new
  /\ NextRequest(v) >= NextRequest(w)

\* Tables of jobs and of entries.
LEMMA JobTable ==
  ASSUME NEW f
  PROVE  f \in JobTables <=> f \in [DOMAIN f -> Jobs] /\ DOMAIN f \subseteq Nat
BY DEF JobTables

\* The same for a table of entries.
LEMMA EntryTable ==
  ASSUME NEW f
  PROVE  f \in EntryTables <=> f \in [DOMAIN f -> Entries] /\ DOMAIN f \subseteq Nat
BY DEF EntryTables

\* What is known of a worker, with its table.
LEMMA WorkerType ==
  ASSUME NEW w, WorkerOK(w)
  PROVE  /\ w \in Workers
         /\ w.lastRequest \in Nat
         /\ w.lastAllocated \in Nat
         /\ w.jobs \in [DOMAIN w.jobs -> Jobs]
         /\ DOMAIN w.jobs \subseteq Nat
         /\ \A i \in DOMAIN w.jobs : i <= w.lastRequest /\ w.jobs[i] \in Jobs
BY JobTable DEF WorkerOK, Workers

\* The owner's operations keep the jobs' identities below the next one.
LEMMA NextRequestIsNew ==
  ASSUME NEW w, WorkerOK(w)
  PROVE  /\ NextRequest(w) \in Nat
         /\ NextRequest(w) > w.lastRequest
         /\ NextRequest(w) > w.lastAllocated
         /\ \A i \in DOMAIN w.jobs : i < NextRequest(w)
BY WorkerType DEF NextRequest

\* Steps that create no job compose.
LEMMA WorksTransitive ==
  ASSUME NEW w, NEW v, NEW u, NEW A, NEW B,
         WorkerOK(w), Works(w, v, {}, A), Works(v, u, {}, B)
  PROVE  Works(w, u, {}, A \cup B)
<1>1. NextRequest(w) \in Nat /\ NextRequest(v) \in Nat /\ NextRequest(u) \in Nat
  BY NextRequestIsNew DEF Works
<1> QED BY <1>1 DEF Works

\* A worker left alone.
LEMMA WorksUnchanged ==
  ASSUME NEW w, WorkerOK(w)
  PROVE  Works(w, w, {}, {})
BY NextRequestIsNew DEF Works

\* Replacing the table of jobs by one with no more of them.
LEMMA WorksTable ==
  ASSUME NEW w, WorkerOK(w), NEW f, NEW gone,
         f \in [DOMAIN f -> Jobs],
         DOMAIN f \subseteq DOMAIN w.jobs,
         \A i \in DOMAIN f : Live(f[i]) => Live(w.jobs[i]) /\ i \notin gone
  PROVE  Works(w, [w EXCEPT !.jobs = f], {}, gone)
<1> DEFINE v == [w EXCEPT !.jobs = f]
<1>0. f \in JobTables /\ \A i \in DOMAIN f : i <= w.lastRequest
  BY WorkerType, JobTable
<1>1. /\ v \in Workers
      /\ v.jobs = f /\ v.lastRequest = w.lastRequest /\ v.lastAllocated = w.lastAllocated
  BY <1>0 DEF WorkerOK, Workers
<1> HIDE DEF v
<1>2. WorkerOK(v) BY <1>0, <1>1 DEF WorkerOK
<1>3. NextRequest(v) = NextRequest(w) BY <1>1 DEF NextRequest
<1>4. LiveIds(v) \subseteq LiveIds(w) \ gone BY <1>1 DEF LiveIds
<1>5. Works(w, v, {}, gone) BY <1>2, <1>3, <1>4, NextRequestIsNew DEF Works
<1> QED BY <1>5 DEF v

\* Reap drops jobs that are not live.
LEMMA WorksReap ==
  ASSUME NEW w, WorkerOK(w)
  PROVE  Works(w, Reap(w), {}, {})
<1> DEFINE D == {i \in DOMAIN w.jobs : ~Retired(w.jobs[i])}
           f == [i \in D |-> w.jobs[i]]
<1>1. Reap(w) = [w EXCEPT !.jobs = f] BY DEF Reap, Restrict
<1>2. /\ DOMAIN f = D /\ D \subseteq DOMAIN w.jobs /\ f \in [D -> Jobs]
      /\ \A i \in D : f[i] = w.jobs[i]
  BY WorkerType
<1> HIDE DEF f, D
<1>3. Works(w, [w EXCEPT !.jobs = f], {}, {}) BY <1>2, WorksTable
<1> QED BY <1>1, <1>3

\* Discarding a set of jobs.
LEMMA WorksDiscard ==
  ASSUME NEW w, WorkerOK(w), NEW gone, NEW f,
         f = [i \in DOMAIN w.jobs |->
                IF i \in gone THEN [w.jobs[i] EXCEPT !.discarded = TRUE] ELSE w.jobs[i]]
  PROVE  Works(w, Reap([w EXCEPT !.jobs = f]), {}, gone)
<1> DEFINE v == [w EXCEPT !.jobs = f]
<1>1. ASSUME NEW i \in DOMAIN w.jobs
      PROVE  f[i] \in Jobs /\ (Live(f[i]) => Live(w.jobs[i]) /\ i \notin gone)
  <2>1. w.jobs[i] \in Jobs BY WorkerType
  <2>2. CASE i \in gone
    <3>1. f[i] = [w.jobs[i] EXCEPT !.discarded = TRUE] BY <2>2
    <3> QED BY <3>1, <2>1 DEF Jobs, Live
  <2>3. CASE i \notin gone BY <2>1, <2>3
  <2> QED BY <2>2, <2>3
<1>2. DOMAIN f = DOMAIN w.jobs /\ f \in [DOMAIN w.jobs -> Jobs] BY <1>1
<1>3. Works(w, v, {}, gone) BY <1>1, <1>2, WorksTable
<1> HIDE DEF v
<1>4. Works(v, Reap(v), {}, {}) BY <1>3, WorksReap DEF Works
<1>5. Works(w, Reap(v), {}, gone \cup {}) BY <1>3, <1>4, WorksTransitive
<1>6. gone \cup {} = gone OBVIOUS
<1> QED BY <1>5, <1>6 DEF v

\* cancel ends one job.
LEMMA WorksCancel ==
  ASSUME NEW w, WorkerOK(w), NEW i
  PROVE  Works(w, Cancel(w, i), {}, {i})
<1>1. CASE Known(w, i)
  <2> DEFINE f == [j \in DOMAIN w.jobs |->
                IF j \in {i} THEN [w.jobs[j] EXCEPT !.discarded = TRUE] ELSE w.jobs[j]]
  <2>1. Discard(w, i) = [w EXCEPT !.jobs = f]
    <3>1. [w.jobs EXCEPT ![i].discarded = TRUE] = f BY <1>1, WorkerType DEF Known
    <3> QED BY <3>1, WorkerType DEF Discard
  <2>2. Works(w, Reap([w EXCEPT !.jobs = f]), {}, {i}) BY WorksDiscard
  <2> QED BY <1>1, <2>1, <2>2 DEF Cancel
<1>2. CASE ~Known(w, i)
  <2>1. Cancel(w, i) = w BY <1>2 DEF Cancel
  <2>2. i \notin LiveIds(w) BY <1>2 DEF Known, LiveIds
  <2> QED BY <2>1, <2>2, NextRequestIsNew DEF Works
<1> QED BY <1>1, <1>2

\* Cancelling the jobs of all entries.
LEMMA WorksCancelAll ==
  ASSUME NEW w, WorkerOK(w), NEW gone
  PROVE  Works(w, CancelAll(w, gone), {}, gone)
<1>1. CASE gone \cap DOMAIN w.jobs = {}
  <2>1. CancelAll(w, gone) = w BY <1>1 DEF CancelAll
  <2>2. LiveIds(w) \cap gone = {} BY <1>1 DEF LiveIds
  <2> QED BY <2>1, <2>2, NextRequestIsNew DEF Works
<1>2. CASE gone \cap DOMAIN w.jobs # {}
  <2> DEFINE f == [i \in DOMAIN w.jobs |->
            IF i \in gone THEN [w.jobs[i] EXCEPT !.discarded = TRUE] ELSE w.jobs[i]]
  <2>1. CancelAll(w, gone) = Reap([w EXCEPT !.jobs = f]) BY <1>2 DEF CancelAll
  <2> QED BY <2>1, WorksDiscard
<1> QED BY <1>1, <1>2

\* A delivered job is consumed.
LEMMA WorksPoll ==
  ASSUME NEW w, WorkerOK(w), NEW i, NEW left \in BOOLEAN
  PROVE  /\ Works(w, Poll(w, i, left), {}, {})
         /\ PollStatus(w, i) = "delivered" => Works(w, Poll(w, i, left), {}, {i})
<1>1. CASE PollStatus(w, i) = "delivered"
  <2>1. i \in DOMAIN w.jobs BY <1>1 DEF PollStatus, Known
  <2> DEFINE r == IF left THEN w.jobs[i].result ELSE Nil
             o == IF left THEN w.jobs[i].borrows ELSE {}
             k == [w.jobs[i] EXCEPT !.consumed = TRUE, !.result = r, !.borrows = o]
             f == [w.jobs EXCEPT ![i] = k]
             v == [w EXCEPT !.jobs = f]
  <2>2. Poll(w, i, left) = Reap(v)
    BY <1>1, <2>1, WorkerType DEF Poll, Workers
  <2>3. w.jobs[i] \in Jobs BY <2>1, WorkerType
  <2>10. r \in {w.jobs[i].result, Nil} /\ o \in {w.jobs[i].borrows, {}} OBVIOUS
  <2> HIDE DEF r, o
  <2>4. k \in Jobs /\ ~Live(k) BY <2>3, <2>10 DEF Jobs, Live
  <2> HIDE DEF k
  <2>5. /\ DOMAIN f = DOMAIN w.jobs /\ f \in [DOMAIN w.jobs -> Jobs]
        /\ f[i] = k /\ \A j \in DOMAIN w.jobs : j # i => f[j] = w.jobs[j]
    BY <2>1, <2>4, WorkerType
  <2>6. \A j \in DOMAIN f : Live(f[j]) => Live(w.jobs[j]) /\ j \notin {i}
    BY <2>4, <2>5
  <2> HIDE DEF f
  <2>7. Works(w, v, {}, {i}) BY <2>5, <2>6, WorksTable
  <2> HIDE DEF v
  <2>8. Works(v, Reap(v), {}, {}) BY <2>7, WorksReap DEF Works
  <2>9. Works(w, Reap(v), {}, {i} \cup {}) BY <2>7, <2>8, WorksTransitive
  <2> QED BY <1>1, <2>2, <2>9 DEF Works
<1>2. CASE PollStatus(w, i) # "delivered"
  BY <1>2, WorksReap DEF Poll
<1> QED BY <1>1, <1>2

\* allocate_request_id uses up an identity.
LEMMA WorksAllocate ==
  ASSUME NEW w, WorkerOK(w)
  PROVE  /\ Works(w, Allocate(w), {}, {})
         /\ Allocate(w).lastAllocated = NextRequest(w)
         /\ Allocate(w).lastRequest = w.lastRequest
         /\ Allocate(w).jobs = w.jobs
<1> DEFINE v == Allocate(w)
<1>0. NextRequest(w) \in Nat BY NextRequestIsNew
<1>1. /\ v \in Workers
      /\ v.jobs = w.jobs /\ v.lastRequest = w.lastRequest /\ v.lastAllocated = NextRequest(w)
  BY <1>0, WorkerType DEF Allocate, Workers
<1> HIDE DEF v
<1>2. WorkerOK(v) BY <1>1 DEF WorkerOK
<1>3. NextRequest(v) >= NextRequest(w)
  BY <1>0, <1>1, <1>2, NextRequestIsNew
<1>4. LiveIds(v) = LiveIds(w) BY <1>1 DEF LiveIds
<1>5. Works(w, v, {}, {}) BY <1>2, <1>3, <1>4 DEF Works
<1> QED BY <1>1, <1>5 DEF v

\* What submit comes to, for an identity that was just allocated: one more
\* live job if its threads were started, none otherwise.
LEMMA WorksSubmit ==
  ASSUME NEW w, WorkerOK(w), NEW job \in Jobs, NEW launch
  PROVE  LET id == NextRequest(w)
             v == Submit(Allocate(w), id, job, launch)
         IN /\ Works(w, v, {id}, {})
            /\ NextRequest(v) > id
            /\ (Admission(Allocate(w), id) # "launched" \/ launch # "started") =>
                 Works(w, v, {}, {})
<1> DEFINE id == NextRequest(w)
           m == Allocate(w)
           u == Reap(m)
           v == Submit(m, id, job, launch)
           x == IF launch = "started" THEN job
                ELSE [job EXCEPT !.discarded = TRUE, !.pc = "done", !.borrows = {},
                                 !.relayDone = (launch = "no_relay")]
           f == [j \in DOMAIN u.jobs \cup {id} |-> IF j = id THEN x ELSE u.jobs[j]]
<1>0. id \in Nat BY NextRequestIsNew
<1>1. Works(w, m, {}, {}) /\ m.lastAllocated = id /\ m.lastRequest < id
  BY WorksAllocate, NextRequestIsNew
<1>2. Works(m, u, {}, {}) BY <1>1, WorksReap DEF Works
<1>3. u.lastAllocated = id
  BY <1>1, WorkerType DEF Reap, Works, Workers
<1>9. id = NextRequest(w) OBVIOUS
<1> HIDE DEF id
<1>4. Works(w, u, {}, {})
  <2>1. Works(w, u, {}, {} \cup {}) BY <1>1, <1>2, WorksTransitive
  <2> QED BY <2>1 DEF Works
<1>5. NextRequest(u) > id BY <1>0, <1>3, <1>4, NextRequestIsNew DEF Works
<1>6. Admission(m, id) \in {"busy", "launched"}
  BY <1>0, <1>1, WorkerType DEF Admission, Works
<1>7. CASE Admission(m, id) = "busy"
  <2>1. v = u BY <1>7 DEF Submit
  <2> HIDE DEF u, v
  <2>2. /\ Works(w, v, {id}, {}) /\ NextRequest(v) > id /\ Works(w, v, {}, {})
    BY <1>4, <1>5, <2>1 DEF Works
  <2> QED BY <2>2 DEF v, m, id
<1>8. CASE Admission(m, id) = "launched"
  <2>1. v = [u EXCEPT !.jobs = f, !.lastRequest = id] BY <1>8 DEF Submit
  <2> HIDE DEF u, v
  <2>2. WorkerOK(u) BY <1>4 DEF Works
  <2>3. x \in Jobs /\ (launch # "started" => ~Live(x)) BY DEF Jobs, Live
  <2> HIDE DEF x
  <2>4. /\ DOMAIN f = DOMAIN u.jobs \cup {id}
        /\ f \in [DOMAIN f -> Jobs]
        /\ f[id] = x
        /\ \A j \in DOMAIN u.jobs : j # id => f[j] = u.jobs[j]
    BY <2>2, <2>3, WorkerType
  <2> HIDE DEF f
  <2>5. f \in JobTables BY <2>2, <2>4, <1>0, WorkerType, JobTable
  <2>6. /\ v \in Workers /\ v.jobs = f /\ v.lastRequest = id
        /\ v.lastAllocated = u.lastAllocated
    BY <2>1, <2>2, <2>5, <1>0 DEF WorkerOK, Workers
  <2>7. \A j \in DOMAIN f : j <= id
    <3>1. u.lastRequest < id
      BY <1>1, WorkerType DEF Reap, Works, Workers, u
    <3> QED BY <3>1, <2>2, <2>4, <1>0, WorkerType
  <2>8. WorkerOK(v) BY <2>6, <2>7 DEF WorkerOK
  <2>9. NextRequest(v) > id BY <2>8, <2>6, <1>0, NextRequestIsNew
  <2>10. LiveIds(v) \subseteq LiveIds(u) \cup {id} BY <2>6, <2>4 DEF LiveIds
  <2>11. launch # "started" => LiveIds(v) \subseteq LiveIds(u)
    <3>1. launch # "started" => id \notin LiveIds(v) BY <2>3, <2>4, <2>6 DEF LiveIds
    <3> QED BY <3>1, <2>10
  <2>12. NextRequest(v) \in Nat BY <2>8, NextRequestIsNew
  <2>13. /\ Works(w, v, {id}, {}) /\ NextRequest(v) > id
         /\ launch # "started" => Works(w, v, {}, {})
    BY <2>8, <2>9, <2>10, <2>11, <2>12, <1>0, <1>4, <1>9 DEF Works
  <2> QED BY <2>13, <1>8 DEF v, m, id
<1> QED BY <1>6, <1>7, <1>8

\* The threads of the worker make no job live.
LEMMA WorksThread ==
  ASSUME NEW i, WorkerOK(worker), Relay(i) \/ WorkerThread(i)
  PROVE  Works(worker, worker', {}, {})
<1>1. i \in DOMAIN worker.jobs BY DEF Relay, WorkerThread, Begin, TakeBack, Finish, Known
<1> DEFINE j == worker.jobs[i]
<1>2. j \in Jobs BY <1>1, WorkerType
<1>3. ASSUME NEW k \in Jobs, Live(k) => Live(j),
             worker' = [worker EXCEPT !.jobs = [worker.jobs EXCEPT ![i] = k]]
      PROVE  Works(worker, worker', {}, {})
  <2> DEFINE f == [worker.jobs EXCEPT ![i] = k]
  <2>1. /\ DOMAIN f = DOMAIN worker.jobs /\ f \in [DOMAIN worker.jobs -> Jobs]
        /\ \A n \in DOMAIN f : Live(f[n]) => Live(worker.jobs[n]) /\ n \notin {}
    BY <1>1, <1>3, WorkerType
  <2> HIDE DEF f
  <2>2. Works(worker, [worker EXCEPT !.jobs = f], {}, {}) BY <2>1, WorksTable
  <2> QED BY <2>2, <1>3 DEF f
<1>4. CASE Relay(i)
  <2> DEFINE k == [j EXCEPT !.stop = j.discarded, !.relayDone = TRUE]
  <2>1. k \in Jobs /\ (Live(k) => Live(j)) BY <1>2 DEF Jobs, Live
  <2>2. worker' = [worker EXCEPT !.jobs = [worker.jobs EXCEPT ![i] = k]]
    BY <1>4, <1>1, WorkerType DEF Relay, Workers
  <2> HIDE DEF k
  <2> QED BY <2>1, <2>2, <1>3
<1>5. CASE Begin(i) /\ j.discarded
  <2> DEFINE k == [j EXCEPT !.pc = IF ProducerHoldsResult(j) THEN "holding" ELSE "done",
                            !.result = Nil, !.borrows = {}]
  <2>1. k \in Jobs /\ (Live(k) => Live(j)) BY <1>2 DEF Jobs, Live
  <2>2. worker' = [worker EXCEPT !.jobs = [worker.jobs EXCEPT ![i] = k]]
    BY <1>5, <1>1, WorkerType DEF Begin, Published, Workers
  <2> HIDE DEF k
  <2> QED BY <2>1, <2>2, <1>3
<1>6. CASE Begin(i) /\ ~j.discarded
  <2> DEFINE k == [j EXCEPT !.pc = "calling"]
  <2>1. k \in Jobs /\ (Live(k) => Live(j)) BY <1>2 DEF Jobs, Live
  <2>2. worker' = [worker EXCEPT !.jobs = [worker.jobs EXCEPT ![i] = k]]
    BY <1>6, <1>1, WorkerType DEF Begin, Workers
  <2> HIDE DEF k
  <2> QED BY <2>1, <2>2, <1>3
<1>7. CASE TakeBack(i)
  <2> DEFINE k == [j EXCEPT !.pc = "disposing"]
  <2>1. k \in Jobs /\ (Live(k) => Live(j)) BY <1>2 DEF Jobs, Live
  <2>2. worker' = [worker EXCEPT !.jobs = [worker.jobs EXCEPT ![i] = k]]
    BY <1>7, <1>1, WorkerType DEF TakeBack, Workers
  <2> HIDE DEF k
  <2> QED BY <2>1, <2>2, <1>3
<1>8. CASE Finish(i)
  <2> DEFINE k == [j EXCEPT !.pc = "done", !.result = Nil, !.borrows = {}]
  <2>1. k \in Jobs /\ (Live(k) => Live(j)) BY <1>2 DEF Jobs, Live
  <2>2. worker' = [worker EXCEPT !.jobs = [worker.jobs EXCEPT ![i] = k]]
    BY <1>8, <1>1, WorkerType DEF Finish, Workers
  <2> HIDE DEF k
  <2> QED BY <2>1, <2>2, <1>3
<1> QED BY <1>4, <1>5, <1>6, <1>7, <1>8 DEF WorkerThread

\* Nor does the return of a port.
LEMMA WorksReturn ==
  ASSUME NEW i \in DOMAIN worker.jobs, WorkerOK(worker), NEW answer \in Answers \cup Preparations,
         Return(i, answer, {})
  PROVE  Works(worker, worker', {}, {})
<1> DEFINE j == worker.jobs[i]
           r == IF j.discarded THEN Nil ELSE answer
           k == [j EXCEPT !.pc = IF ProducerHoldsResult(j) THEN "holding" ELSE "done",
                          !.result = r, !.borrows = {}]
           f == [worker.jobs EXCEPT ![i] = k]
<1>1. j \in Jobs BY WorkerType
<1>2. r \in {Nil, "ok", "failed", "disconnected", "exhausted"}
  BY BrokerAssumption, AdminAssumption
<1>4. worker' = [worker EXCEPT !.jobs = f]
  BY WorkerType DEF Return, Published, Workers
<1> HIDE DEF r
<1>3. k \in Jobs /\ (Live(k) => Live(j)) BY <1>1, <1>2 DEF Jobs, Live
<1> HIDE DEF k
<1>5. /\ DOMAIN f = DOMAIN worker.jobs /\ f \in [DOMAIN worker.jobs -> Jobs]
      /\ \A n \in DOMAIN f : Live(f[n]) => Live(worker.jobs[n]) /\ n \notin {}
  BY <1>3, WorkerType
<1> HIDE DEF f
<1>6. Works(worker, [worker EXCEPT !.jobs = f], {}, {}) BY <1>5, WorksTable
<1> QED BY <1>6, <1>4
-----------------------------------------------------------------------------
(* Records of states. *)

\* Two states with the same parts, but for those in `parts' and the outcome.
Differ(s, t, parts) ==
  /\ t \in States
  /\ "w" \notin parts => t.w = s.w
  /\ "b" \notin parts => t.b = s.b
  /\ "x" \notin parts => t.x = s.x
  /\ "k" \notin parts => t.k = s.k
  /\ "h" \notin parts => t.h = s.h
  /\ "a" \notin parts => t.a = s.a

\* Replacing the worker changes nothing else; likewise for the other parts.
LEMMA PutW ==
  ASSUME NEW s \in States, NEW y \in Workers
  PROVE  LET t == [s EXCEPT !.w = y]
         IN t.w = y /\ Differ(s, t, {"w"}) /\ t.ok = s.ok /\ t.why = s.why /\ t.lost = s.lost
BY DEF States, Differ

\* Replacing the broker
LEMMA PutB ==
  ASSUME NEW s \in States, NEW y \in Brokers
  PROVE  LET t == [s EXCEPT !.b = y]
         IN t.b = y /\ Differ(s, t, {"b"}) /\ t.ok = s.ok /\ t.why = s.why /\ t.lost = s.lost
BY DEF States, Differ

\* Replacing the executor
LEMMA PutX ==
  ASSUME NEW s \in States, NEW y \in Execs \cup {Nil}
  PROVE  LET t == [s EXCEPT !.x = y]
         IN t.x = y /\ Differ(s, t, {"x"}) /\ t.ok = s.ok /\ t.why = s.why /\ t.lost = s.lost
BY DEF States, Differ

\* Replacing the kernel
LEMMA PutK ==
  ASSUME NEW s \in States, NEW y \in Kernels
  PROVE  LET t == [s EXCEPT !.k = y]
         IN t.k = y /\ Differ(s, t, {"k"}) /\ t.ok = s.ok /\ t.why = s.why /\ t.lost = s.lost
BY DEF States, Differ

\* Replacing the history
LEMMA PutH ==
  ASSUME NEW s \in States, NEW y \in Histories
  PROVE  LET t == [s EXCEPT !.h = y]
         IN t.h = y /\ Differ(s, t, {"h"}) /\ t.ok = s.ok /\ t.why = s.why /\ t.lost = s.lost
BY DEF States, Differ

\* Replacing the controller
LEMMA PutA ==
  ASSUME NEW s \in States, NEW y \in Admins
  PROVE  LET t == [s EXCEPT !.a = y]
         IN t.a = y /\ Differ(s, t, {"a"}) /\ t.ok = s.ok /\ t.why = s.why /\ t.lost = s.lost
BY DEF States, Differ

\* The outcome of a call is no part of the state.
LEMMA PutOk ==
  ASSUME NEW s \in States
  PROVE  Differ(s, Ok(s), {}) /\ Ok(s).ok /\ Ok(s).why = Nil /\ Ok(s).lost = s.lost
BY DEF States, Differ, Ok, Failures

\* A call that fails changes the outcome only.
LEMMA PutFail ==
  ASSUME NEW s \in States, NEW why \in Failures
  PROVE  LET t == Fail(s, why)
         IN Differ(s, t, {}) /\ ~t.ok /\ t.why = why /\ t.lost = s.lost
BY DEF States, Differ, Fail

\* What the type of a state says about its parts.
LEMMA PartTypes ==
  ASSUME NEW s \in States
  PROVE  /\ s.w \in Workers /\ s.b \in Brokers /\ s.x \in Execs \cup {Nil}
         /\ s.k \in Kernels /\ s.h \in Histories /\ s.a \in Admins
         /\ s.why \in Failures
BY DEF States

\* Absent values are none of the values they stand beside.
LEMMA NilIsNone ==
  /\ Nil \notin Nat /\ Nil \notin Targets /\ Nil \notin Sessions
  /\ Nil \notin Authorities /\ Nil \notin Requests /\ Nil \notin Sources
  /\ Nil \notin Runs /\ Nil \notin Manuals /\ Nil \notin Successes
  /\ Nil \notin PreparationWork /\ Nil \notin Execs
BY WorkerAssumption, BrokerAssumption, AdminAssumption

\* What the type of a broker says about its fields.
LEMMA BrokerType ==
  ASSUME NEW b \in Brokers
  PROVE  /\ b.session \in Sessions \cup {Nil} /\ b.epoch \in Nat /\ b.closed \in BOOLEAN
         /\ b.entries \in EntryTables
         /\ b.entries \in [DOMAIN b.entries -> Entries] /\ DOMAIN b.entries \subseteq Nat
         /\ b.authority \in Authorities \cup {Nil} /\ b.source \in Sources \cup {Nil}
         /\ b.consent \in Consents /\ b.consent.current \in Authorities \cup {Nil}
         /\ b.consent.active \in BOOLEAN
BY EntryTable DEF Brokers, Consents

\* And that of a kernel.
LEMMA KernelType ==
  ASSUME NEW k \in Kernels
  PROVE  /\ k.run \in Runs \cup {Nil} /\ k.runs \in Nat /\ k.problem \in Failures
         /\ k.tool \in Authorities \cup {Nil} /\ k.manual \in Manuals \cup {Nil}
         /\ k.success \in Successes \cup {Nil}
BY DEF Kernels
-----------------------------------------------------------------------------
(* The mailbox. *)

\* Only entries differ.
SameAuthority(b, c) ==
  /\ c.session = b.session
  /\ c.epoch = b.epoch
  /\ c.closed = b.closed
  /\ c.authority = b.authority
  /\ c.source = b.source
  /\ c.consent = b.consent

\* Putting other entries into a broker.
LEMMA PutEntries ==
  ASSUME NEW b \in Brokers, NEW f \in EntryTables
  PROVE  LET c == [b EXCEPT !.entries = f]
         IN c \in Brokers /\ c.entries = f /\ SameAuthority(b, c)
BY DEF Brokers, SameAuthority

\* An entry before and after it was stopped, expired or given an error.
Marked(d, e) ==
  /\ e.request = d.request
  /\ e.claimed = d.claimed
  /\ e.token = d.token
  /\ e.result = d.result
  /\ d.stop => e.stop
  /\ d.error => e.error
  /\ d.expired => e.expired

\* What is current depends on the authority and the consent only.
LEMMA CurrentKept ==
  ASSUME NEW b, NEW c, SameAuthority(b, c), NEW request
  PROVE  /\ Current(c, request) <=> Current(b, request)
         /\ Preflight(c, request) <=> Preflight(b, request)
BY DEF SameAuthority, Current, Preflight, ConsentMatches, Validates

\* Marking entries keeps what the broker promises about them.
LEMMA MarkedEntries ==
  ASSUME NEW b, BrokerOK(b), NEW f \in [DOMAIN b.entries -> Entries],
         \A t \in DOMAIN b.entries : Marked(b.entries[t], f[t])
  PROVE  LET c == [b EXCEPT !.entries = f]
         IN /\ c \in Brokers /\ c.entries = f /\ SameAuthority(b, c)
            /\ BrokerOK(c)
            /\ Tokens(c) = Tokens(b)
            /\ \A t \in DOMAIN b.entries : Rejected(b, t) => Rejected(c, t)
<1> DEFINE c == [b EXCEPT !.entries = f]
<1>0. b \in Brokers /\ DOMAIN f = DOMAIN b.entries BY DEF BrokerOK
<1>1. f \in EntryTables BY <1>0, BrokerType, EntryTable
<1>2. c \in Brokers /\ c.entries = f /\ SameAuthority(b, c) BY <1>0, <1>1, PutEntries
<1> HIDE DEF c
<1>3. BrokerOK(c) BY <1>0, <1>2 DEF BrokerOK, SameAuthority, Marked
<1>4. Tokens(c) = Tokens(b) BY <1>0, <1>2 DEF Tokens, Marked
<1>5. ASSUME NEW t \in DOMAIN b.entries, Rejected(b, t)
      PROVE  Rejected(c, t)
  <2>1. Current(c, b.entries[t].request) => Current(b, b.entries[t].request)
    BY <1>2, CurrentKept
  <2> QED BY <1>2, <1>5, <2>1 DEF Rejected, Marked
<1> QED BY <1>2, <1>3, <1>4, <1>5 DEF c

\* An entry leaves the mailbox.
LEMMA ErasedEntry ==
  ASSUME NEW b, BrokerOK(b), NEW t \in DOMAIN b.entries
  PROVE  LET c == Erase(b, t)
         IN /\ c \in Brokers /\ SameAuthority(b, c) /\ BrokerOK(c)
            /\ DOMAIN c.entries = DOMAIN b.entries \ {t}
            /\ \A u \in DOMAIN c.entries : c.entries[u] = b.entries[u]
            /\ Tokens(b) \subseteq Tokens(c) \cup ({b.entries[t].token} \ {Nil})
            /\ \A u \in DOMAIN c.entries : Rejected(b, u) => Rejected(c, u)
<1> DEFINE D == DOMAIN b.entries \ {t}
           f == [u \in D |-> b.entries[u]]
           c == Erase(b, t)
<1>0. b \in Brokers BY DEF BrokerOK
<1>1. c = [b EXCEPT !.entries = f] BY DEF Erase, Restrict
<1>2. DOMAIN f = D /\ f \in [D -> Entries] /\ D \subseteq Nat
      /\ \A u \in D : f[u] = b.entries[u]
  BY <1>0, BrokerType
<1>6. D = DOMAIN b.entries \ {t} OBVIOUS
<1> HIDE DEF f, D
<1>3. f \in EntryTables BY <1>2, EntryTable
<1>4. c \in Brokers /\ c.entries = f /\ SameAuthority(b, c) BY <1>0, <1>1, <1>3, PutEntries
<1> HIDE DEF c
<1>5. BrokerOK(c) BY <1>0, <1>2, <1>4, <1>6 DEF BrokerOK, SameAuthority
<1>7. Tokens(b) \subseteq Tokens(c) \cup ({b.entries[t].token} \ {Nil})
  BY <1>2, <1>4, <1>6 DEF Tokens
<1>8. ASSUME NEW u \in D, Rejected(b, u)
      PROVE  Rejected(c, u)
  <2>1. Current(c, b.entries[u].request) => Current(b, b.entries[u].request)
    BY <1>4, CurrentKept
  <2> QED BY <1>2, <1>4, <1>8, <2>1 DEF Rejected
<1> QED BY <1>2, <1>4, <1>5, <1>6, <1>7, <1>8 DEF c
-----------------------------------------------------------------------------
(* What the session and its kernel may do to a state.                       *)

\* A success that is recorded was allowed by the authority that was in force
\* when it was published, and belongs to the session that recorded it.
HistoryStep(b, h, g) ==
  \A id \in Sessions :
    g[id].latest # h[id].latest =>
      /\ g[id].latest # Nil
      /\ Preflight(b, g[id].latest.request)
      /\ g[id].latest.request.session = id

\* The manual run the projection shows stays, and a new success was allowed.
ProjectionStep(b, k, l) ==
  /\ l.tool = k.tool
  /\ k.manual # Nil => l.manual # Nil /\ l.manual.run = k.manual.run
  /\ l.success # k.success =>
       l.success # Nil /\ Preflight(b, l.success.request)

\* A step of the session or of its kernel: no authority changes, the controller
\* is left alone.
Advances(s, t) ==
  /\ Loose(t)
  /\ t.a = s.a
  /\ SameAuthority(s.b, t.b)
  /\ ProjectionStep(s.b, s.k, t.k)
  /\ HistoryStep(s.b, s.h, t.h)

\* An advance that leaves no run that is over behind.
Settles(s, t) == Advances(s, t) /\ SettledOK(t.k, t.x)

\* A state left alone but for the outcome advances.
LEMMA AdvancesSame ==
  ASSUME NEW s, NEW t, Loose(s), Differ(s, t, {})
  PROVE  Advances(s, t) /\ t.k = s.k /\ t.x = s.x
<1>1. /\ t \in States /\ t.w = s.w /\ t.b = s.b /\ t.x = s.x /\ t.k = s.k
      /\ t.h = s.h /\ t.a = s.a
  BY DEF Differ
<1>2. Loose(t) BY <1>1 DEF Loose
<1> QED BY <1>1, <1>2 DEF Advances, SameAuthority, ProjectionStep, HistoryStep

\* Advances compose: the authority being the same, what the later one allowed
\* the earlier one allows.
LEMMA AdvancesTransitive ==
  ASSUME NEW s, NEW t, NEW u, Advances(s, t), Advances(t, u)
  PROVE  Advances(s, u)
<1>1. SameAuthority(s.b, u.b) BY DEF Advances, SameAuthority
<1>2. \A request : Preflight(t.b, request) => Preflight(s.b, request)
  BY CurrentKept DEF Advances
<1>3. ProjectionStep(s.b, s.k, u.k) BY <1>2 DEF Advances, ProjectionStep
<1>4. HistoryStep(s.b, s.h, u.h) BY <1>2 DEF Advances, HistoryStep
<1> QED BY <1>1, <1>3, <1>4 DEF Advances

\* An advance followed by one that settles.
LEMMA SettlesTransitive ==
  ASSUME NEW s, NEW t, NEW u, Advances(s, t), Settles(t, u)
  PROVE  Settles(s, u)
BY AdvancesTransitive DEF Settles

\* The controller still shows what is enforced.
LEMMA AdvancesMatch ==
  ASSUME NEW s, NEW t, Loose(s), Matches(s.b, s.k, s.a), Advances(s, t)
  PROVE  Matches(t.b, t.k, t.a)
<1>1. t.a = s.a /\ SameAuthority(s.b, t.b) /\ ProjectionStep(s.b, s.k, t.k)
  BY DEF Advances
<1>2. s.a.active # Nil => Agrees(t.b, t.k, t.a)
  BY <1>1 DEF Matches, Agrees, SameAuthority, ProjectionStep
<1>3. s.a.current # Nil => s.a.active # Nil BY DEF Matches
<1>4. ASSUME s.a.current # Nil, t.k.success # Nil, t.k.success.run = s.a.current
      PROVE  /\ t.k.success.request.session = s.a.session
             /\ t.k.success.request.target = s.a.active
             /\ t.k.success.request.gen = s.a.gen
             /\ t.k.success.request.rev = s.a.rev
  <2>1. CASE t.k.success = s.k.success BY <1>4, <2>1 DEF Matches
  <2>2. CASE t.k.success # s.k.success
    <3>1. Validates(s.b.authority, t.k.success.request)
      BY <1>1, <2>2 DEF ProjectionStep, Preflight, Current
    <3> QED BY <1>3, <1>4, <3>1 DEF Matches, Agrees, Validates
  <2> QED BY <2>1, <2>2
<1> QED BY <1>1, <1>2, <1>4 DEF Matches, ProjectionStep

\* Only the kernel changes.
LEMMA AdvanceKernel ==
  ASSUME NEW s, NEW t, Loose(s), Differ(s, t, {"k"}),
         RunOK(t.k, s.x), MailboxOK(s.b, s.x, t.k), ProjectionStep(s.b, s.k, t.k)
  PROVE  Advances(s, t)
<1>1. /\ t \in States /\ t.w = s.w /\ t.b = s.b /\ t.x = s.x
      /\ t.h = s.h /\ t.a = s.a
  BY DEF Differ
<1>2. Loose(t) BY <1>1 DEF Loose
<1> QED BY <1>1, <1>2 DEF Advances, SameAuthority, HistoryStep

-----------------------------------------------------------------------------
(* The executor is stopped. *)

\* The mailbox with the entry of the executor stopped.
StoppedEntries(b, ticket) ==
  [t \in DOMAIN b.entries |->
     IF t = ticket THEN [b.entries[t] EXCEPT !.stop = TRUE] ELSE b.entries[t]]

\* What stopping the entry comes to.
LEMMA StopEntry ==
  ASSUME NEW b, BrokerOK(b), NEW ticket
  PROVE  LET c == [b EXCEPT !.entries = StoppedEntries(b, ticket)]
         IN /\ c \in Brokers /\ SameAuthority(b, c) /\ BrokerOK(c)
            /\ DOMAIN c.entries = DOMAIN b.entries
            /\ Tokens(c) = Tokens(b)
            /\ \A t \in DOMAIN b.entries :
                 /\ Marked(b.entries[t], c.entries[t])
                 /\ t # ticket => c.entries[t] = b.entries[t]
                 /\ t = ticket => c.entries[t].stop
                 /\ Rejected(b, t) => Rejected(c, t)
<1> DEFINE f == StoppedEntries(b, ticket)
           c == [b EXCEPT !.entries = f]
<1>1. \A t \in DOMAIN b.entries : b.entries[t] \in Entries
  BY BrokerType DEF BrokerOK
<1>2. DOMAIN f = DOMAIN b.entries BY DEF StoppedEntries
<1>3. ASSUME NEW t \in DOMAIN b.entries
      PROVE  /\ f[t] \in Entries /\ Marked(b.entries[t], f[t])
             /\ t # ticket => f[t] = b.entries[t]
             /\ t = ticket => f[t].stop
  <2>1. b.entries[t] \in Entries BY <1>1
  <2>2. CASE t = ticket
    <3>1. f[t] = [b.entries[t] EXCEPT !.stop = TRUE] BY <2>2 DEF StoppedEntries
    <3> HIDE DEF f
    <3> QED BY <3>1, <2>1, <2>2 DEF Entries, Marked
  <2>3. CASE t # ticket
    <3>1. f[t] = b.entries[t] BY <2>3 DEF StoppedEntries
    <3> HIDE DEF f
    <3> QED BY <3>1, <2>1, <2>3 DEF Marked
  <2> QED BY <2>2, <2>3
<1>4. f \in [DOMAIN b.entries -> Entries] BY <1>2, <1>3 DEF StoppedEntries
<1> HIDE DEF f
<1>5. /\ c \in Brokers /\ c.entries = f /\ SameAuthority(b, c) /\ BrokerOK(c)
      /\ Tokens(c) = Tokens(b)
      /\ \A t \in DOMAIN b.entries : Rejected(b, t) => Rejected(c, t)
  BY <1>3, <1>4, MarkedEntries
<1> HIDE DEF c
<1>6. \A t \in DOMAIN b.entries :
        /\ Marked(b.entries[t], c.entries[t])
        /\ t # ticket => c.entries[t] = b.entries[t]
        /\ t = ticket => c.entries[t].stop
  BY <1>3, <1>5
<1>7. DOMAIN c.entries = DOMAIN b.entries BY <1>2, <1>5
<1> QED BY <1>5, <1>6, <1>7 DEF c, f

\* The tokens and the authority decide about slots and places.
LEMMA SlotsKept ==
  ASSUME NEW w, NEW b, NEW c, NEW a, SlotsOK(w, b, a), Tokens(b) \subseteq Tokens(c)
  PROVE  SlotsOK(w, c, a)
BY DEF SlotsOK

\* The activation is the same with the same authority.
LEMMA PlaceKept ==
  ASSUME NEW b, NEW c, NEW a, PlaceOK(b, a), SameAuthority(b, c)
  PROVE  PlaceOK(c, a)
BY DEF PlaceOK, SameAuthority

\* The fields of an executor that is stopped.
LEMMA StopFields ==
  ASSUME NEW x \in Execs
  PROVE  LET y == [x EXCEPT !.stop = TRUE]
         IN /\ y \in Execs /\ y.stop
            /\ y.pc = x.pc /\ y.ticket = x.ticket /\ y.request = x.request
            /\ y.receipt = x.receipt /\ y.seen = x.seen
BY DEF Execs

\* Every entry is going to be thrown out.
AllRejected(b) == \A t \in DOMAIN b.entries : Rejected(b, t)

\* The executor is stopped while the kernel r.k notes that its run is over: its
\* entry is rejected like every other.
LEMMA StopAdvances ==
  ASSUME NEW s, NEW r, Loose(s), Differ(s, r, {"k"}),
         RunOK(r.k, s.x), r.k.runs = s.k.runs,
         (r.k.run # Nil /\ r.k.run.phase \in {"proposed", "approval"}) =>
           s.k.run # Nil /\ s.k.run.phase = r.k.run.phase,
         ProjectionStep(s.b, s.k, r.k)
  PROVE  LET t == StopExec(r)
         IN /\ Advances(s, t) /\ Differ(r, t, {"b", "x"})
            /\ AllRejected(t.b)
            /\ (s.x # Nil /\ s.x.seen) => t.x.seen
            /\ t.ok = r.ok /\ t.why = r.why /\ t.lost = r.lost
<1>1. /\ r \in States /\ r.w = s.w /\ r.b = s.b /\ r.x = s.x /\ r.h = s.h /\ r.a = s.a
  BY DEF Differ
<1>2. BrokerOK(s.b) /\ s.x \in Execs \cup {Nil} /\ r.k \in Kernels
  BY <1>1, PartTypes DEF Loose
<1>3. CASE s.x = Nil
  <2>1. StopExec(r) = r BY <1>1, <1>3 DEF StopExec
  <2>2. MailboxOK(s.b, s.x, r.k) /\ AllRejected(s.b)
    BY <1>3 DEF Loose, MailboxOK, AllRejected
  <2>3. Advances(s, r) BY <2>2, AdvanceKernel
  <2> QED BY <1>1, <1>3, <2>1, <2>2, <2>3 DEF Differ
<1>4. CASE s.x # Nil
  <2> DEFINE c == [s.b EXCEPT !.entries = StoppedEntries(s.b, s.x.ticket)]
             y == [s.x EXCEPT !.stop = TRUE]
             t == StopExec(r)
  <2>0. s.x \in Execs BY <1>2, <1>4
  <2>1. /\ y \in Execs /\ y.stop
        /\ y.pc = s.x.pc /\ y.ticket = s.x.ticket /\ y.request = s.x.request
        /\ y.receipt = s.x.receipt /\ y.seen = s.x.seen
    BY <2>0, StopFields
  <2>2. /\ c \in Brokers /\ SameAuthority(s.b, c) /\ BrokerOK(c)
        /\ DOMAIN c.entries = DOMAIN s.b.entries
        /\ Tokens(c) = Tokens(s.b)
        /\ \A u \in DOMAIN s.b.entries :
             /\ Marked(s.b.entries[u], c.entries[u])
             /\ u # s.x.ticket => c.entries[u] = s.b.entries[u]
             /\ u = s.x.ticket => c.entries[u].stop
             /\ Rejected(s.b, u) => Rejected(c, u)
    BY <1>2, StopEntry
  <2>3. t = [r EXCEPT !.x = y, !.b = c]
    BY <1>1, <1>2, <1>4 DEF StopExec, States, StoppedEntries
  <2> HIDE DEF c, y
  <2>4. /\ t \in States /\ t.w = s.w /\ t.b = c /\ t.x = y /\ t.k = r.k
        /\ t.h = s.h /\ t.a = s.a /\ t.ok = r.ok /\ t.why = r.why /\ t.lost = r.lost
    BY <1>1, <2>1, <2>2, <2>3 DEF States
  <2> HIDE DEF t
  <2>5. AllRejected(c)
    <3>1. ASSUME NEW u \in DOMAIN c.entries PROVE Rejected(c, u)
      <4>1. CASE u = s.x.ticket BY <2>2, <4>1 DEF Rejected
      <4>2. CASE u # s.x.ticket BY <2>2, <4>2 DEF Loose, MailboxOK
      <4> QED BY <4>1, <4>2
    <3> QED BY <3>1 DEF AllRejected
  <2>6. SeenOK(c, y) BY <2>5 DEF SeenOK, AllRejected
  <2>7. RunOK(r.k, y) BY <1>4, <2>1 DEF RunOK
  <2>8. EntryOf(c, y, r.k)
    <3>1. EntryOf(s.b, s.x, s.k) BY <1>4 DEF Loose, MailboxOK
    <3> QED BY <2>1, <2>2, <3>1 DEF EntryOf, Marked
  <2>9. MailboxOK(c, y, r.k)
    BY <2>2, <2>5, <2>8 DEF Loose, MailboxOK, AllRejected
  <2>10. SlotsOK(s.w, c, s.a) BY <2>2, SlotsKept DEF Loose
  <2>11. PlaceOK(c, s.a) BY <2>2, PlaceKept DEF Loose
  <2>12. Loose(t)
    BY <2>4, <2>2, <2>6, <2>7, <2>9, <2>10, <2>11 DEF Loose
  <2>13. Advances(s, t) BY <2>12, <2>4, <2>2 DEF Advances, HistoryStep
  <2>14. Differ(r, t, {"b", "x"}) BY <2>4, <1>1 DEF Differ
  <2> QED BY <2>13, <2>14, <2>1, <2>5, <2>4 DEF t
<1> QED BY <1>3, <1>4

\* The kernel without its run.
LEMMA DropRun ==
  ASSUME NEW k \in Kernels, NEW y,
         \/ y = [k EXCEPT !.run = Nil]
         \/ y = [k EXCEPT !.run = Nil, !.unusable = TRUE]
  PROVE  /\ y \in Kernels /\ y.run = Nil /\ y.runs = k.runs /\ y.tool = k.tool
         /\ y.manual = k.manual /\ y.success = k.success
BY DEF Kernels

\* Without a run and an executor little is asked of the kernel.
LEMMA NoRun ==
  ASSUME NEW k, NEW y, NEW x, NEW b, RunOK(k, x), MailboxOK(b, x, k),
         y.run = Nil, y.runs = k.runs, y.manual = k.manual, y.success = k.success,
         AllRejected(b)
  PROVE  RunOK(y, Nil) /\ MailboxOK(b, Nil, y) /\ SettledOK(y, Nil)
BY DEF RunOK, MailboxOK, AllRejected, SettledOK, HandledOK

\* persistence_failure stops the executor and drops the run.
LEMMA PersistenceSettles ==
  ASSUME NEW s, Loose(s)
  PROVE  LET t == PersistenceFailure(s)
         IN Settles(s, t) /\ ~t.ok /\ t.why = "storage" /\ t.k.run = Nil
<1> DEFINE p == StopExec(s)
           y == [p.k EXCEPT !.run = Nil, !.unusable = TRUE]
           q == [p EXCEPT !.x = Nil, !.k = y]
           t == PersistenceFailure(s)
<1>0. Differ(s, s, {"k"}) /\ ProjectionStep(s.b, s.k, s.k)
  BY DEF Loose, Differ, ProjectionStep
<1>1. Advances(s, p) /\ AllRejected(p.b) BY <1>0, StopAdvances DEF Loose
<1>2. t = Fail(q, "storage")
  BY <1>1 DEF PersistenceFailure, JoinExec, Advances, Loose, States
<1> HIDE DEF p
<1>3. p \in States /\ p.k \in Kernels BY <1>1, PartTypes DEF Advances, Loose
<1>4. /\ y \in Kernels /\ y.run = Nil /\ y.runs = p.k.runs /\ y.tool = p.k.tool
      /\ y.manual = p.k.manual /\ y.success = p.k.success
  BY <1>3, DropRun
<1> HIDE DEF y
<1>5. RunOK(y, Nil) /\ MailboxOK(p.b, Nil, y) /\ SettledOK(y, Nil)
  BY <1>1, <1>4, NoRun DEF Advances, Loose
<1>6. /\ q \in States /\ q.w = p.w /\ q.b = p.b /\ q.x = Nil /\ q.k = y
      /\ q.h = p.h /\ q.a = p.a
  BY <1>3, <1>4 DEF States
<1> HIDE DEF q
<1>7. Loose(q) BY <1>6, <1>5, <1>1 DEF Advances, Loose, SeenOK
<1>8. Advances(p, q)
  BY <1>6, <1>7, <1>4 DEF Advances, SameAuthority, ProjectionStep, HistoryStep
<1>9. "storage" \in Failures BY DEF Failures
<1>10. Differ(q, t, {}) /\ ~t.ok /\ t.why = "storage" BY <1>2, <1>6, <1>9, PutFail
<1> HIDE DEF t
<1>11. Advances(q, t) /\ t.k = q.k /\ t.x = q.x BY <1>7, <1>10, AdvancesSame
<1>12. Advances(s, t) BY <1>1, <1>8, <1>11, AdvancesTransitive
<1> QED BY <1>10, <1>11, <1>12, <1>6, <1>5, <1>4 DEF Settles, t

\* commit leaves no run that is over behind.
LEMMA CommitSettles ==
  ASSUME NEW s, Loose(s), NEW done, Advances(s, done), HandledOK(done.k, done.x),
         NEW stored \in BOOLEAN
  PROVE  LET t == Commit(s, done, stored)
         IN Settles(s, t) /\ (stored => t.ok) /\ (~stored => ~t.ok /\ t.why = "storage")
<1>1. CASE ~stored
  <2>1. Commit(s, done, stored) = PersistenceFailure(s) BY <1>1 DEF Commit
  <2> QED BY <1>1, <2>1, PersistenceSettles
<1>2. CASE stored
  <2>0. Loose(done) BY DEF Advances
  <2> DEFINE q == Settle(done)
             t == Commit(s, done, stored)
  <2>1. t = Ok(q) BY <1>2 DEF Commit
  <2>2. Advances(done, q) /\ SettledOK(q.k, q.x)
    <3>1. CASE done.k.run # Nil /\ done.k.run.terminal /\ done.k.run.phase # "running"
      <4> DEFINE y == [done.k EXCEPT !.run = Nil]
      <4>1. q = [done EXCEPT !.k = y] BY <2>0, <3>1 DEF Settle, Loose, States
      <4>2. done.k \in Kernels BY <2>0, PartTypes DEF Loose
      <4>3. /\ y \in Kernels /\ y.run = Nil /\ y.runs = done.k.runs /\ y.tool = done.k.tool
            /\ y.manual = done.k.manual /\ y.success = done.k.success
        BY <4>2, DropRun
      <4> HIDE DEF y
      <4>4. q.k = y /\ Differ(done, q, {"k"}) BY <2>0, <4>1, <4>3, PutK DEF Loose
      <4>5. done.x = Nil /\ AllRejected(done.b) BY <2>0, <3>1 DEF Loose, RunOK, MailboxOK, AllRejected
      <4>6. RunOK(y, Nil) /\ MailboxOK(done.b, Nil, y) /\ SettledOK(y, Nil)
        BY <2>0, <4>3, <4>5, NoRun DEF Loose
      <4>7. ProjectionStep(done.b, done.k, y) BY <4>3 DEF ProjectionStep
      <4> HIDE DEF q
      <4>8. q.x = done.x BY <4>4 DEF Differ
      <4> QED BY <2>0, <4>4, <4>5, <4>6, <4>7, <4>8, AdvanceKernel
    <3>2. CASE ~(done.k.run # Nil /\ done.k.run.terminal /\ done.k.run.phase # "running")
      <4>1. q = done BY <3>2 DEF Settle
      <4>2. Differ(done, done, {}) BY <2>0 DEF Differ, Loose
      <4> QED BY <2>0, <3>2, <4>1, <4>2, AdvancesSame DEF SettledOK
    <3> QED BY <3>1, <3>2
  <2> HIDE DEF q
  <2>3. Differ(q, t, {}) /\ t.ok BY <2>1, <2>2, PutOk DEF Advances, Loose
  <2> HIDE DEF t
  <2>4. Advances(q, t) /\ t.k = q.k /\ t.x = q.x BY <2>2, <2>3, AdvancesSame DEF Advances
  <2>6. Advances(done, t) BY <2>2, <2>4, AdvancesTransitive
  <2>5. Advances(s, t) BY <2>6, AdvancesTransitive
  <2> QED BY <1>2, <2>2, <2>3, <2>4, <2>5 DEF Settles, t
<1> QED BY <1>1, <1>2
-----------------------------------------------------------------------------
(* The kernel's handlers. *)

\* The projection of a manual run whose status changes.
LEMMA StatusChange ==
  ASSUME NEW m \in Manuals, NEW status \in Terminal
  PROVE  LET n == [m EXCEPT !.status = status]
         IN n \in Manuals /\ n.run = m.run /\ n.status = status
BY DEF Manuals, Terminal

\* A run that is over.
LEMMA TerminalRun ==
  ASSUME NEW run \in Runs
  PROVE  LET r == [run EXCEPT !.terminal = TRUE]
         IN /\ r \in Runs /\ r.terminal /\ r.phase = run.phase
            /\ r.manual = run.manual /\ r.request = run.request
BY DEF Runs

\* A run ends early: the kernel notes it and stops the executor.
LEMMA EndAdvances ==
  ASSUME NEW s, NEW r, Loose(s), s.k.run # Nil, ~s.k.run.terminal,
         Differ(s, r, {"k"}), NEW status \in {"failed", "cancelled"},
         r.k.run = [s.k.run EXCEPT !.terminal = TRUE],
         r.k.runs = s.k.runs, r.k.tool = s.k.tool, r.k.success = s.k.success,
         s.k.run.manual => r.k.manual = [s.k.manual EXCEPT !.status = status],
         ~s.k.run.manual => r.k.manual = s.k.manual
  PROVE  LET t == StopExec(r)
         IN /\ Advances(s, t) /\ HandledOK(t.k, t.x)
            /\ (s.x # Nil /\ s.x.seen) => t.x.seen
            /\ t.k.run.phase = s.k.run.phase
            /\ t.ok = r.ok /\ t.why = r.why /\ t.lost = r.lost
<1>1. s.k \in Kernels /\ s.k.run \in Runs BY PartTypes, KernelType DEF Loose
<1>2. /\ r.k.run \in Runs /\ r.k.run.terminal /\ r.k.run.phase = s.k.run.phase
      /\ r.k.run.manual = s.k.run.manual /\ r.k.run.request = s.k.run.request
  BY <1>1, TerminalRun
<1>3. RunOK(s.k, s.x) BY DEF Loose
<1>4. r.k.run # Nil BY <1>2, NilIsNone
<1>5. RunOK(r.k, s.x) /\ ProjectionStep(s.b, s.k, r.k)
  <2>1. CASE s.k.run.manual
    <3>1. s.k.manual # Nil /\ s.k.manual \in Manuals
      BY <1>1, <1>3, <2>1, KernelType DEF RunOK
    <3>2. /\ r.k.manual \in Manuals /\ r.k.manual.run = s.k.manual.run
          /\ r.k.manual # Nil
      <4> DEFINE n == [s.k.manual EXCEPT !.status = status]
      <4>1. status \in Terminal BY DEF Terminal
      <4>2. n \in Manuals /\ n.run = s.k.manual.run BY <3>1, <4>1, StatusChange
      <4>3. r.k.manual = n BY <2>1
      <4> HIDE DEF n
      <4> QED BY <4>2, <4>3, NilIsNone
    <3>3. /\ r.k.manual.run = r.k.runs /\ r.k.manual.run <= r.k.runs
          /\ r.k.success = Nil \/ r.k.success.run < r.k.runs
      BY <1>3, <2>1, <3>1, <3>2 DEF RunOK
    <3>4. ~(r.k.success # Nil /\ r.k.success.run = r.k.manual.run)
      <4>1. r.k.runs \in Nat BY <1>1, KernelType
      <4>2. r.k.success # Nil => r.k.success.run \in Nat
        BY <1>1, KernelType DEF Successes
      <4> QED BY <3>3, <4>1, <4>2
    <3>5. RunOK(r.k, s.x)
      <4>1. s.x # Nil => /\ r.k.run # Nil
                         /\ r.k.run.phase = "running"
                         /\ s.x.ticket = r.k.runs
                         /\ s.x.request = r.k.run.request
        BY <1>2, <1>3, <1>4 DEF RunOK
      <4>2. /\ r.k.run.phase # "thinking" => r.k.run.request \in Requests
            /\ r.k.run.phase # "thinking"
            /\ r.k.success # Nil => r.k.success.run <= r.k.runs
        BY <1>2, <1>3, <2>1 DEF RunOK
      <4> QED BY <4>1, <4>2, <1>2, <3>2, <3>3, <3>4 DEF RunOK
    <3> QED BY <3>5, <3>2 DEF ProjectionStep
  <2>2. CASE ~s.k.run.manual
    BY <1>2, <1>3, <1>4, <2>2 DEF RunOK, ProjectionStep
  <2> QED BY <2>1, <2>2
<1> DEFINE t == StopExec(r)
<1>6. /\ Advances(s, t) /\ Differ(r, t, {"b", "x"})
      /\ (s.x # Nil /\ s.x.seen) => t.x.seen
      /\ t.ok = r.ok /\ t.why = r.why /\ t.lost = r.lost
  <2>1. /\ Loose(s) /\ Differ(s, r, {"k"}) /\ r.k.runs = s.k.runs
        /\ RunOK(r.k, s.x) /\ ProjectionStep(s.b, s.k, r.k)
        /\ (r.k.run # Nil /\ r.k.run.phase \in {"proposed", "approval"}) =>
             s.k.run # Nil /\ s.k.run.phase = r.k.run.phase
    BY <1>2, <1>5
  <2> QED BY ONLY <2>1, StopAdvances
<1> HIDE DEF t
<1>7. HandledOK(t.k, t.x) /\ t.k.run.phase = s.k.run.phase
  BY <1>2, <1>6 DEF Differ, HandledOK
<1> QED BY <1>6, <1>7 DEF t

\* The fields of a kernel whose run is over.
LEMMA EndFields ==
  ASSUME NEW k \in Kernels, k.run \in Runs, NEW m \in Manuals \cup {Nil}
  PROVE  LET y == [k EXCEPT !.run = [k.run EXCEPT !.terminal = TRUE], !.manual = m]
         IN /\ y \in Kernels /\ y.run = [k.run EXCEPT !.terminal = TRUE]
            /\ y.manual = m /\ y.runs = k.runs /\ y.tool = k.tool
            /\ y.success = k.success
BY TerminalRun DEF Kernels

\* record_tool_error ends a manual run and lets a model run go on.
LEMMA ErrorAdvances ==
  ASSUME NEW s, Loose(s), s.k.run # Nil, ~s.k.run.terminal
  PROVE  LET t == RecordToolError(s)
         IN /\ Advances(s, t) /\ HandledOK(t.k, t.x)
            /\ (s.x # Nil /\ s.x.seen) => t.x.seen /\ t.k.run.phase = "running"
            /\ t.ok = s.ok /\ t.why = s.why /\ t.lost = s.lost
<1> DEFINE t == RecordToolError(s)
<1>1. s.k \in Kernels /\ s.k.run \in Runs BY PartTypes, KernelType DEF Loose
<1>2. CASE s.k.run.manual
  <2> DEFINE m == [s.k.manual EXCEPT !.status = "failed"]
             y == [s.k EXCEPT !.run = [s.k.run EXCEPT !.terminal = TRUE], !.manual = m]
             r == [s EXCEPT !.k = y]
  <2>1. t = StopExec(r)
    <3>1. [s EXCEPT !.k.run.terminal = TRUE, !.k.manual.status = "failed"] = r
      BY DEF Loose, States, Kernels
    <3> QED BY <3>1, <1>2 DEF RecordToolError
  <2>2. s.k.manual \in Manuals /\ m \in Manuals
    BY <1>1, <1>2, KernelType, StatusChange DEF Loose, RunOK, Terminal
  <2>9. m = [s.k.manual EXCEPT !.status = "failed"] OBVIOUS
  <2> HIDE DEF m
  <2>3. /\ y \in Kernels /\ y.run = [s.k.run EXCEPT !.terminal = TRUE]
        /\ y.manual = m /\ y.runs = s.k.runs /\ y.tool = s.k.tool
        /\ y.success = s.k.success
    BY <1>1, <2>2, EndFields
  <2> HIDE DEF y
  <2>4. r.k = y /\ Differ(s, r, {"k"}) /\ r.ok = s.ok /\ r.why = s.why /\ r.lost = s.lost
    BY <2>3, PutK DEF Loose
  <2> HIDE DEF r, t
  <2>5. "failed" \in {"failed", "cancelled"} OBVIOUS
  <2>6. /\ r.k.run = [s.k.run EXCEPT !.terminal = TRUE]
        /\ r.k.runs = s.k.runs /\ r.k.tool = s.k.tool /\ r.k.success = s.k.success
        /\ r.k.manual = [s.k.manual EXCEPT !.status = "failed"]
    BY <2>3, <2>4, <2>9
  <2>7. LET u == StopExec(r)
        IN /\ Advances(s, u) /\ HandledOK(u.k, u.x)
           /\ (s.x # Nil /\ s.x.seen) => u.x.seen
           /\ u.k.run.phase = s.k.run.phase
           /\ u.ok = r.ok /\ u.why = r.why /\ u.lost = r.lost
    BY <1>2, <2>4, <2>5, <2>6, EndAdvances
  <2>8. s.x # Nil => s.k.run.phase = "running" BY DEF Loose, RunOK
  <2> QED BY <2>1, <2>4, <2>7, <2>8 DEF t
<1>3. CASE ~s.k.run.manual /\ s.k.run.phase = "running"
  <2>1. t = s BY <1>3 DEF RecordToolError
  <2>2. HandledOK(s.k, s.x) BY <1>3 DEF HandledOK
  <2> QED BY <1>3, <2>1, <2>2, AdvancesSame DEF Differ, Loose
<1>4. CASE ~s.k.run.manual /\ s.k.run.phase # "running"
  <2> DEFINE r == [s.k.run EXCEPT !.phase = "thinking"]
             y == [s.k EXCEPT !.run = r]
  <2>1. t = [s EXCEPT !.k = y]
    BY <1>4 DEF RecordToolError, Loose, States, Kernels
  <2>2. /\ r \in Runs /\ r.phase = "thinking" /\ r.manual = s.k.run.manual
        /\ r # Nil
    BY <1>1, NilIsNone DEF Runs
  <2> HIDE DEF r
  <2>3. /\ y \in Kernels /\ y.run = r /\ y.runs = s.k.runs /\ y.tool = s.k.tool
        /\ y.manual = s.k.manual /\ y.success = s.k.success
    BY <1>1, <2>2 DEF Kernels
  <2> HIDE DEF y
  <2>4. t.k = y /\ Differ(s, t, {"k"}) /\ t.ok = s.ok /\ t.why = s.why /\ t.lost = s.lost
    BY <2>1, <2>3, PutK DEF Loose
  <2> HIDE DEF t
  <2>5. s.x = Nil BY <1>4 DEF Loose, RunOK
  <2>6. RunOK(y, s.x) /\ MailboxOK(s.b, s.x, y) /\ ProjectionStep(s.b, s.k, y)
    BY <1>4, <2>2, <2>3, <2>5 DEF Loose, RunOK, MailboxOK, ProjectionStep
  <2>7. Advances(s, t) BY <2>4, <2>6, AdvanceKernel
  <2>8. HandledOK(t.k, t.x) BY <1>4, <2>2, <2>3, <2>4 DEF HandledOK
  <2> QED BY <2>4, <2>5, <2>7, <2>8 DEF t
<1> QED BY <1>2, <1>3, <1>4

\* cancel_run
LEMMA CancelSettles ==
  ASSUME NEW s, Base(s), s.k.run # Nil, NEW stored \in BOOLEAN
  PROVE  LET t == CancelRun(s, stored)
         IN Settles(s, t)
<1> DEFINE t == CancelRun(s, stored)
<1>0. "other" \in Failures BY DEF Failures
<1>1. s.k \in Kernels /\ s.k.run \in Runs BY PartTypes, KernelType DEF Base, Loose
<1>2. CASE s.k.run.terminal
  <2>1. t = Fail(s, "other") BY <1>2 DEF CancelRun
  <2> QED BY <1>0, <2>1, PutFail, AdvancesSame DEF Base, Loose, Settles
<1>3. CASE ~s.k.run.terminal
  <2> DEFINE m == IF s.k.run.manual THEN [s.k.manual EXCEPT !.status = "cancelled"]
                  ELSE s.k.manual
             y == [s.k EXCEPT !.run = [s.k.run EXCEPT !.terminal = TRUE], !.manual = m]
             r == [s EXCEPT !.k = y]
             q == StopExec(r)
  <2>1. t = Commit(s, q, stored)
    <3>1. [s EXCEPT !.k.run.terminal = TRUE,
                    !.k.manual = IF s.k.run.manual
                                   THEN [@ EXCEPT !.status = "cancelled"]
                                   ELSE @] = r
      BY DEF Base, Loose, States, Kernels
    <3> QED BY <3>1, <1>3 DEF CancelRun
  <2>2. m \in Manuals \cup {Nil}
    BY <1>1, KernelType, StatusChange DEF Base, Loose, RunOK, Terminal
  <2>9. /\ s.k.run.manual => m = [s.k.manual EXCEPT !.status = "cancelled"]
        /\ ~s.k.run.manual => m = s.k.manual
    OBVIOUS
  <2> HIDE DEF m
  <2>3. /\ y \in Kernels /\ y.run = [s.k.run EXCEPT !.terminal = TRUE]
        /\ y.manual = m /\ y.runs = s.k.runs /\ y.tool = s.k.tool
        /\ y.success = s.k.success
    BY <1>1, <2>2, EndFields
  <2> HIDE DEF y
  <2>4. r.k = y /\ Differ(s, r, {"k"}) BY <2>3, PutK DEF Base, Loose
  <2> HIDE DEF r, t
  <2>5. Advances(s, q) /\ HandledOK(q.k, q.x) BY <1>3, <2>3, <2>4, <2>9, EndAdvances DEF Base
  <2> HIDE DEF q
  <2>6. Settles(s, t) BY <2>1, <2>5, CommitSettles DEF Base
  <2> QED BY <2>6 DEF t
<1> QED BY <1>2, <1>3

\* A run that was proposed and is not over.
Proposed(k) ==
  k.run # Nil /\ ~k.run.terminal /\ k.run.phase \in {"proposed", "approval"}

\* launch_next_tool
LEMMA LaunchSettles ==
  ASSUME NEW s, Loose(s), Proposed(s.k), NEW stored \in BOOLEAN
  PROVE  LET t == Launch(s, stored)
         IN Settles(s, t) /\ (stored => t.ok) /\ (~stored => ~t.ok /\ t.why = "storage")
<1> DEFINE t == Launch(s, stored)
<1>1. s.k \in Kernels /\ s.k.run \in Runs /\ s.k.runs \in Nat
  BY PartTypes, KernelType DEF Loose, Proposed
<1>2. CASE ~Preflight(s.b, s.k.run.request)
  <2> DEFINE q == RecordToolError(s)
  <2>1. t = Commit(s, q, stored) BY <1>2 DEF Launch
  <2>2. Advances(s, q) /\ HandledOK(q.k, q.x) BY ErrorAdvances DEF Proposed
  <2> HIDE DEF q, t
  <2>3. Settles(s, t) /\ (stored => t.ok) /\ (~stored => ~t.ok /\ t.why = "storage")
    BY <2>1, <2>2, CommitSettles
  <2> QED BY <2>3 DEF t
<1>3. CASE Preflight(s.b, s.k.run.request) /\ ~stored
  <2>1. t = PersistenceFailure(s) BY <1>3 DEF Launch
  <2> QED BY <1>3, <2>1, PersistenceSettles
<1>4. CASE Preflight(s.b, s.k.run.request) /\ stored
  <2> DEFINE r == [s.k.run EXCEPT !.phase = "running"]
             y == [s.k EXCEPT !.run = r]
             x == NewExec(s.k.runs, s.k.run.request)
             q == [s EXCEPT !.k = y, !.x = x]
  <2>1. t = Ok(q)
    BY <1>4 DEF Launch, Loose, States, Kernels
  <2>2. /\ r \in Runs /\ r.phase = "running" /\ r.manual = s.k.run.manual
        /\ r.request = s.k.run.request /\ r.terminal = s.k.run.terminal /\ r # Nil
    BY <1>1, NilIsNone DEF Runs
  <2> HIDE DEF r
  <2>3. /\ y \in Kernels /\ y.run = r /\ y.runs = s.k.runs /\ y.tool = s.k.tool
        /\ y.manual = s.k.manual /\ y.success = s.k.success
    BY <1>1, <2>2 DEF Kernels
  <2> HIDE DEF y
  <2>4. s.k.run.request \in Requests BY DEF Loose, RunOK, Proposed
  <2>5. /\ x \in Execs /\ x.ticket = s.k.runs /\ x.request = s.k.run.request
        /\ x.pc = "starting" /\ ~x.seen /\ ~x.receipt
    BY <1>1, <2>4 DEF NewExec, Execs
  <2> HIDE DEF x
  <2>6. /\ q \in States /\ q.w = s.w /\ q.b = s.b /\ q.x = x /\ q.k = y
        /\ q.h = s.h /\ q.a = s.a
    BY <2>3, <2>5 DEF Loose, States
  <2> HIDE DEF q
  <2>7. s.x = Nil /\ s.k.runs \notin DOMAIN s.b.entries
    BY DEF Loose, RunOK, MailboxOK, Proposed
  <2>8. RunOK(y, x) BY <2>2, <2>3, <2>5, <2>7 DEF Loose, RunOK, Proposed
  <2>9. MailboxOK(s.b, x, y)
    BY <2>2, <2>3, <2>5, <2>7 DEF Loose, MailboxOK, EntryOf, Proposed
  <2>10. SeenOK(s.b, x) BY <2>5 DEF SeenOK
  <2>11. Loose(q) BY <2>6, <2>8, <2>9, <2>10 DEF Loose
  <2>12. Advances(s, q)
    BY <2>3, <2>6, <2>11 DEF Advances, SameAuthority, ProjectionStep, HistoryStep
  <2>13. Differ(q, t, {}) /\ t.ok BY <2>1, <2>6, PutOk
  <2> HIDE DEF t
  <2>14. Advances(q, t) /\ t.k = q.k /\ t.x = q.x BY <2>11, <2>13, AdvancesSame
  <2>15. Advances(s, t) BY <2>12, <2>14, AdvancesTransitive
  <2>16. SettledOK(t.k, t.x) BY <2>14, <2>6, <2>5, <2>3, <2>2 DEF SettledOK, HandledOK
  <2> QED BY <1>4, <2>13, <2>15, <2>16 DEF Settles, t
<1> QED BY <1>2, <1>3, <1>4

\* A run that is just being proposed.
FreshRun(run) ==
  /\ run \in Runs
  /\ run.phase = "proposed"
  /\ ~run.terminal
  /\ run.request \in Requests

\* The kernel p.k has taken a new run in: no executor and no entry has its
\* number yet.
LEMMA ProposalIsLoose ==
  ASSUME NEW s, NEW p, Loose(s), Differ(s, p, {"k"}),
         s.k.run # Nil => ~s.k.run.manual /\ s.k.run.phase = "thinking",
         FreshRun(p.k.run),
         p.k.runs = s.k.runs + 1, p.k.tool = s.k.tool, p.k.success = s.k.success,
         p.k.run.manual => p.k.manual # Nil /\ p.k.manual.run = s.k.runs + 1,
         ~p.k.run.manual => p.k.manual = s.k.manual
  PROVE  Loose(p) /\ Proposed(p.k)
<1>1. /\ p \in States /\ p.w = s.w /\ p.b = s.b /\ p.x = s.x
      /\ p.h = s.h /\ p.a = s.a
  BY DEF Differ
<1>2. s.k \in Kernels /\ s.k.runs \in Nat BY PartTypes, KernelType DEF Loose
<1>3. s.x = Nil BY DEF Loose, RunOK
<1>4. p.k.run # Nil BY NilIsNone DEF FreshRun
<1>5. s.k.success # Nil => s.k.success.run \in Nat BY <1>2, KernelType DEF Successes
<1>6. s.k.manual # Nil => s.k.manual.run \in Nat BY <1>2, KernelType DEF Manuals
<1>7. RunOK(p.k, Nil)
  <2>1. p.k.success # Nil => p.k.success.run < p.k.runs
    BY <1>2, <1>5 DEF Loose, RunOK
  <2>2. CASE p.k.run.manual
    BY <1>2, <1>4, <1>5, <2>1, <2>2 DEF RunOK, FreshRun
  <2>3. CASE ~p.k.run.manual
    <3>1. p.k.manual # Nil => p.k.manual.run <= p.k.runs
      BY <1>2, <1>6, <2>3 DEF Loose, RunOK
    <3> QED BY <1>2, <1>4, <1>5, <2>1, <2>3, <3>1 DEF Loose, RunOK, FreshRun
  <2> QED BY <2>2, <2>3
<1>8. DOMAIN s.b.entries \subseteq Nat BY BrokerType, PartTypes DEF Loose
<1>9. MailboxOK(s.b, Nil, p.k)
  BY <1>2, <1>3, <1>4, <1>8 DEF Loose, MailboxOK
<1>10. Loose(p) BY <1>1, <1>3, <1>7, <1>9 DEF Loose
<1> QED BY <1>4, <1>10 DEF Proposed, FreshRun

\* Whatever follows a proposal settles: it is denied, waits for approval or is
\* launched.
LEMMA EvaluateSettles ==
  ASSUME NEW p, Loose(p), Proposed(p.k), NEW policy, NEW stored \in BOOLEAN
  PROVE  LET t == Evaluate(p, policy, stored)
         IN Settles(p, t) /\ (stored => t.ok) /\ (~stored => ~t.ok /\ t.why = "storage")
<1> DEFINE t == Evaluate(p, policy, stored)
<1>1. p.k \in Kernels /\ p.k.run \in Runs
  BY PartTypes, KernelType DEF Loose, Proposed
<1>2. CASE policy = "deny" \/ ~Preflight(p.b, p.k.run.request)
  <2> DEFINE q == RecordToolError(p)
  <2>1. t = Commit(p, q, stored) BY <1>2 DEF Evaluate
  <2>2. Advances(p, q) /\ HandledOK(q.k, q.x) BY ErrorAdvances DEF Proposed
  <2> HIDE DEF q, t
  <2>3. Settles(p, t) /\ (stored => t.ok) /\ (~stored => ~t.ok /\ t.why = "storage")
    BY <2>1, <2>2, CommitSettles
  <2> QED BY <2>3 DEF t
<1>3. CASE ~(policy = "deny" \/ ~Preflight(p.b, p.k.run.request)) /\ policy = "ask"
  <2> DEFINE r == [p.k.run EXCEPT !.phase = "approval"]
             y == [p.k EXCEPT !.run = r]
             q == [p EXCEPT !.k = y]
  <2>1. t = Commit(p, q, stored)
    BY <1>3 DEF Evaluate, Loose, States, Kernels
  <2>2. /\ r \in Runs /\ r.phase = "approval" /\ r.manual = p.k.run.manual
        /\ r.request = p.k.run.request /\ r.terminal = p.k.run.terminal /\ r # Nil
    BY <1>1, NilIsNone DEF Runs
  <2> HIDE DEF r
  <2>3. /\ y \in Kernels /\ y.run = r /\ y.runs = p.k.runs /\ y.tool = p.k.tool
        /\ y.manual = p.k.manual /\ y.success = p.k.success
    BY <1>1, <2>2 DEF Kernels
  <2> HIDE DEF y
  <2>4. q.k = y /\ Differ(p, q, {"k"}) BY <2>3, PutK DEF Loose
  <2> HIDE DEF q
  <2>5. p.x = Nil BY DEF Loose, RunOK, Proposed
  <2>6. RunOK(y, p.x) BY <2>2, <2>3, <2>5 DEF Loose, RunOK, Proposed
  <2>7. MailboxOK(p.b, p.x, y) BY <2>2, <2>3, <2>5 DEF Loose, MailboxOK, Proposed
  <2>8. Advances(p, q) BY <2>3, <2>4, <2>6, <2>7, AdvanceKernel DEF ProjectionStep
  <2>9. q.x = p.x BY <2>4 DEF Differ
  <2>10. HandledOK(q.k, q.x)
    BY <2>2, <2>3, <2>4, <2>5, <2>9 DEF HandledOK, Proposed
  <2> HIDE DEF t
  <2>11. Settles(p, t) /\ (stored => t.ok) /\ (~stored => ~t.ok /\ t.why = "storage")
    BY <2>1, <2>8, <2>10, CommitSettles
  <2> QED BY <2>11 DEF t
<1>4. CASE ~(policy = "deny" \/ ~Preflight(p.b, p.k.run.request)) /\ policy # "ask"
  <2>1. t = Launch(p, stored) BY <1>4 DEF Evaluate
  <2> QED BY <2>1, LaunchSettles
<1> QED BY <1>2, <1>3, <1>4

\* A model run proposes an observation.
LEMMA ProposeSettles ==
  ASSUME NEW s, Base(s), s.k.run # Nil, ~s.k.run.manual, s.k.run.phase = "thinking",
         NEW run, FreshRun(run), ~run.manual, NEW policy, NEW stored \in BOOLEAN,
         NEW launched \in BOOLEAN
  PROVE  Settles(s, Propose(s, run, policy, stored, launched))
<1> DEFINE t == Propose(s, run, policy, stored, launched)
           n == s.k.runs + 1
           y == [s.k EXCEPT !.run = run, !.runs = n, !.manual = s.k.manual]
           p == [s EXCEPT !.k = y]
<1>1. CASE ~stored
  <2>1. t = PersistenceFailure(s) BY <1>1 DEF Propose
  <2> QED BY <2>1, PersistenceSettles DEF Base
<1>2. CASE stored
  <2>0. /\ s.k \in Kernels /\ s.k.manual \in Manuals \cup {Nil} /\ run \in Runs
        /\ s.k.runs \in Nat /\ s.k.runs + 1 \in Nat
    BY PartTypes, KernelType DEF Base, Loose, FreshRun
  <2>1. p = [s EXCEPT !.k.run = run, !.k.runs = @ + 1]
    BY <2>0 DEF Base, Loose, States, Kernels
  <2>2. /\ y \in Kernels /\ y.run = run /\ y.runs = s.k.runs + 1
        /\ y.manual = s.k.manual /\ y.tool = s.k.tool /\ y.success = s.k.success
    <3>1. n = s.k.runs + 1 /\ n \in Nat BY <2>0
    <3> HIDE DEF n
    <3>2. /\ y \in Kernels /\ y.run = run /\ y.runs = n
          /\ y.manual = s.k.manual /\ y.tool = s.k.tool /\ y.success = s.k.success
      BY <2>0, <3>1 DEF Kernels
    <3> HIDE DEF y
    <3> QED BY <3>1, <3>2
  <2> HIDE DEF y
  <2>3. p.k = y /\ Differ(s, p, {"k"}) BY <2>2, PutK DEF Base, Loose
  <2>4. t = Evaluate(p, policy, launched) BY <1>2, <2>1 DEF Propose
  <2> HIDE DEF p, t
  <2>5. Loose(p) /\ Proposed(p.k)
    BY <2>2, <2>3, ProposalIsLoose DEF Base
  <2>6. Advances(s, p)
    <3>1. p.b = s.b /\ p.h = s.h /\ p.a = s.a BY <2>3 DEF Differ
    <3> QED BY <3>1, <2>2, <2>3, <2>5
        DEF Advances, SameAuthority, ProjectionStep, HistoryStep
  <2>7. Settles(p, t) BY <2>4, <2>5, EvaluateSettles
  <2>8. Settles(s, t) BY <2>6, <2>7, SettlesTransitive
  <2> QED BY <2>8 DEF t
<1> QED BY <1>1, <1>2

\* A manual run was started: what it will publish is newer than what was
\* published before.
Starts(s, t) ==
  /\ Base(t)
  /\ t.a = s.a
  /\ SameAuthority(s.b, t.b)
  /\ t.k.tool = s.k.tool
  /\ t.k.manual # Nil
  /\ t.k.success # Nil =>
       t.k.success.run < t.k.manual.run \/ Preflight(s.b, t.k.success.request)
  /\ HistoryStep(s.b, s.h, t.h)

\* What a call that starts a run comes to: a run that was recorded and not
\* launched is a failure of the store.
StartsOrFails(s, t) ==
  IF t.ok THEN Starts(s, t)
  ELSE Settles(s, t) \/ (Starts(s, t) /\ t.why = "storage")

\* A run that was started goes on.
LEMMA StartsThenSettles ==
  ASSUME NEW s, NEW t, NEW u, Starts(s, t), Settles(t, u)
  PROVE  Starts(s, u)
<1>1. SameAuthority(s.b, u.b) BY DEF Starts, Settles, Advances, SameAuthority
<1>2. \A request : Preflight(t.b, request) => Preflight(s.b, request)
  BY CurrentKept DEF Starts
<1>3. HistoryStep(s.b, s.h, u.h) BY <1>2 DEF Starts, Settles, Advances, HistoryStep
<1>4. u.k.tool = s.k.tool /\ u.k.manual # Nil /\ u.k.manual.run = t.k.manual.run
  BY DEF Starts, Settles, Advances, ProjectionStep
<1>5. u.k.success # Nil =>
       u.k.success.run < u.k.manual.run \/ Preflight(s.b, u.k.success.request)
  BY <1>2, <1>4 DEF Starts, Settles, Advances, ProjectionStep
<1>6. Base(u) /\ u.a = s.a BY DEF Starts, Settles, Advances, Base
<1> QED BY <1>1, <1>3, <1>4, <1>5, <1>6 DEF Starts

\* The requests the kernel makes are requests.
LEMMA RequestType ==
  ASSUME NEW spec \in Authorities, NEW op \in Operations
  PROVE  LET r == Request(spec, op)
         IN /\ r \in Requests /\ r.session = spec.session /\ r.target = spec.target
            /\ r.gen = spec.gen /\ r.rev = spec.rev /\ r.op = op
BY DEF Request, Authorities, Requests

\* The run an observation begins with.
LEMMA RunIsFresh ==
  ASSUME NEW request \in Requests
  PROVE  /\ FreshRun(Run(TRUE, request)) /\ Run(TRUE, request).manual
         /\ FreshRun(Run(FALSE, request)) /\ ~Run(FALSE, request).manual
BY DEF FreshRun, Run, Runs

\* start_observation_control
LEMMA StartObservationStarts ==
  ASSUME NEW s, Base(s), NEW target, NEW gen, NEW op \in Operations, NEW policy,
         NEW stored \in BOOLEAN, NEW launched \in BOOLEAN
  PROVE  StartsOrFails(s, StartObservation(s, target, gen, op, policy, stored, launched))
<1> DEFINE t == StartObservation(s, target, gen, op, policy, stored, launched)
<1>0. "storage" \in Failures /\ "other" \in Failures BY DEF Failures
<1>1. \A why \in Failures : Settles(s, Fail(s, why)) /\ ~Fail(s, why).ok
  BY PutFail, AdvancesSame DEF Settles, Base, Loose
<1>2. CASE s.k.unusable \/ s.k.run # Nil \/ ~CanPrepare(s.k, target, gen, op)
  <2>1. t = Fail(s, "storage") \/ t = Fail(s, "other") BY <1>2 DEF StartObservation
  <2> QED BY <1>0, <1>1, <2>1 DEF StartsOrFails
<1>3. CASE ~(s.k.unusable \/ s.k.run # Nil \/ ~CanPrepare(s.k, target, gen, op)) /\ ~stored
  <2>1. t = PersistenceFailure(s) BY <1>3 DEF StartObservation
  <2> QED BY <2>1, PersistenceSettles DEF Base, StartsOrFails
<1>4. CASE ~(s.k.unusable \/ s.k.run # Nil \/ ~CanPrepare(s.k, target, gen, op)) /\ stored
  <2> DEFINE run == Run(TRUE, Request(s.k.tool, op))
             m == [run |-> s.k.runs + 1, status |-> "running"]
             n == s.k.runs + 1
           y == [s.k EXCEPT !.run = run, !.runs = n, !.manual = m]
             p == [s EXCEPT !.k = y]
             begun == [s EXCEPT !.k.manual = m]
  <2>0. s.k \in Kernels /\ s.k.runs \in Nat /\ s.k.runs + 1 \in Nat
    BY PartTypes, KernelType DEF Base, Loose
  <2>1. s.k.tool \in Authorities BY <1>4, <2>0, KernelType DEF CanPrepare
  <2>2. FreshRun(run) /\ run.manual BY <2>1, RequestType, RunIsFresh
  <2>3. m \in Manuals /\ m # Nil /\ m.run = s.k.runs + 1
    BY <2>0, NilIsNone DEF Manuals
  <2>4. t = Propose(begun, run, policy, TRUE, launched) BY <1>4 DEF StartObservation
  <2> HIDE DEF run, m
  <2>5. run \in Runs BY <2>2 DEF FreshRun
  <2>6. p = [begun EXCEPT !.k.run = run, !.k.runs = @ + 1] /\ begun.b = s.b
    BY <2>0 DEF Base, Loose, States, Kernels
  <2>7. /\ y \in Kernels /\ y.run = run /\ y.runs = s.k.runs + 1
        /\ y.manual = m /\ y.tool = s.k.tool /\ y.success = s.k.success
    <3>1. n = s.k.runs + 1 /\ n \in Nat BY <2>0
    <3> HIDE DEF n
    <3>2. /\ y \in Kernels /\ y.run = run /\ y.runs = n
          /\ y.manual = m /\ y.tool = s.k.tool /\ y.success = s.k.success
      BY <2>0, <2>3, <2>5, <3>1 DEF Kernels
    <3> HIDE DEF y
    <3> QED BY <3>1, <3>2
  <2> HIDE DEF y
  <2>8. p.k = y /\ Differ(s, p, {"k"}) BY <2>7, PutK DEF Base, Loose
  <2>9. t = Evaluate(p, policy, launched) BY <2>4, <2>6 DEF Propose
  <2> HIDE DEF p, t, begun
  <2>10. Loose(p) /\ Proposed(p.k)
    BY <1>4, <2>2, <2>3, <2>7, <2>8, ProposalIsLoose DEF Base
  <2>11. Settles(p, t) /\ (~launched => ~t.ok /\ t.why = "storage") /\ (launched => t.ok)
    BY <2>9, <2>10, EvaluateSettles
  <2>12. Starts(s, p)
    <3>1. p.b = s.b /\ p.h = s.h /\ p.a = s.a BY <2>8 DEF Differ
    <3>5. p.x = Nil BY <2>10 DEF Proposed, Loose, RunOK
    <3>2. SettledOK(p.k, p.x) BY <2>10, <3>5 DEF Proposed, SettledOK, HandledOK
    <3>3. p.k.success # Nil => p.k.success.run < p.k.manual.run
      <4>1. s.k.success # Nil => s.k.success.run <= s.k.runs BY DEF Base, Loose, RunOK
      <4>2. s.k.success # Nil => s.k.success.run \in Nat
        BY <2>0, KernelType DEF Successes
      <4> QED BY <4>1, <4>2, <2>0, <2>3, <2>7, <2>8
    <3>4. p.k.manual # Nil /\ p.k.tool = s.k.tool BY <2>3, <2>7, <2>8
    <3> QED BY <3>1, <3>2, <3>3, <3>4, <2>10
        DEF Starts, Base, SameAuthority, HistoryStep
  <2>13. Starts(s, t) BY <2>11, <2>12, StartsThenSettles
  <2> QED BY <2>11, <2>13 DEF StartsOrFails, t
<1> QED BY <1>2, <1>3, <1>4
-----------------------------------------------------------------------------
(* The owner drains the executor's update. *)

\* The executor after its update was seen.
LEMMA SeenFields ==
  ASSUME NEW x \in Execs
  PROVE  LET y == [x EXCEPT !.seen = TRUE]
         IN /\ y \in Execs /\ y.seen
            /\ y.pc = x.pc /\ y.ticket = x.ticket /\ y.request = x.request
            /\ y.receipt = x.receipt /\ y.stop = x.stop
BY DEF Execs

\* The update was seen, and the entry is rejected or gone.
LEMMA SeenAdvances ==
  ASSUME NEW s, Loose(s), s.x # Nil, s.x.pc # "starting",
         s.x.ticket \in DOMAIN s.b.entries => Rejected(s.b, s.x.ticket)
  PROVE  LET t == [s EXCEPT !.x.seen = TRUE]
         IN /\ Advances(s, t) /\ Differ(s, t, {"x"})
            /\ t.ok = s.ok /\ t.why = s.why /\ t.lost = s.lost
            /\ t.x.ticket = s.x.ticket /\ t.x.pc = s.x.pc
<1> DEFINE y == [s.x EXCEPT !.seen = TRUE]
           t == [s EXCEPT !.x.seen = TRUE]
<1>1. s.x \in Execs BY PartTypes DEF Loose
<1>2. t = [s EXCEPT !.x = y] BY DEF Loose, States
<1>3. /\ y \in Execs /\ y.seen
      /\ y.pc = s.x.pc /\ y.ticket = s.x.ticket /\ y.request = s.x.request
      /\ y.receipt = s.x.receipt /\ y.stop = s.x.stop
  BY <1>1, SeenFields
<1> HIDE DEF y, t
<1>4. /\ t.x = y /\ Differ(s, t, {"x"})
      /\ t.ok = s.ok /\ t.why = s.why /\ t.lost = s.lost
  BY <1>2, <1>3, PutX DEF Loose
<1>5. t \in States /\ t.w = s.w /\ t.b = s.b /\ t.k = s.k /\ t.h = s.h /\ t.a = s.a
  BY <1>4 DEF Differ
<1>12. t.x = y BY <1>4
<1>6. RunOK(s.k, y) BY <1>3 DEF Loose, RunOK
<1>7. EntryOf(s.b, y, s.k) BY <1>3 DEF Loose, MailboxOK, EntryOf
<1>8. MailboxOK(s.b, y, s.k)
  <2>1. ASSUME NEW u \in DOMAIN s.b.entries
        PROVE  u <= s.k.runs /\ Rejected(s.b, u)
    BY DEF Loose, MailboxOK
  <2> QED BY <1>7, <2>1 DEF Loose, MailboxOK
<1>9. SeenOK(s.b, y) BY <1>3 DEF SeenOK
<1>10. Loose(t) BY <1>4, <1>5, <1>6, <1>8, <1>9 DEF Loose
<1>11. Advances(s, t) BY <1>5, <1>10 DEF Advances, SameAuthority, ProjectionStep, HistoryStep
<1> QED BY <1>3, <1>4, <1>11 DEF t

\* The entry of the executor leaves the mailbox, its update being seen.
LEMMA TakenAdvances ==
  ASSUME NEW s, Loose(s), s.x # Nil, s.x.ticket \in DOMAIN s.b.entries,
         s.b.entries[s.x.ticket].token = Nil, s.x.pc # "starting",
         NEW t, t = [s EXCEPT !.x.seen = TRUE, !.b = Erase(s.b, s.x.ticket)]
  PROVE  /\ Advances(s, t) /\ Differ(s, t, {"x", "b"})
         /\ t.ok = s.ok /\ t.why = s.why /\ t.lost = s.lost
         /\ t.x.ticket = s.x.ticket /\ t.x.pc = s.x.pc
         /\ t.x.ticket \notin DOMAIN t.b.entries
<1> DEFINE y == [s.x EXCEPT !.seen = TRUE]
           c == Erase(s.b, s.x.ticket)
<1>1. s.x \in Execs /\ BrokerOK(s.b) BY PartTypes DEF Loose
<1>2. t = [s EXCEPT !.x = y, !.b = c] BY DEF Loose, States
<1>3. /\ y \in Execs /\ y.seen
      /\ y.pc = s.x.pc /\ y.ticket = s.x.ticket /\ y.request = s.x.request
      /\ y.receipt = s.x.receipt /\ y.stop = s.x.stop
  BY <1>1, SeenFields
<1>4. /\ c \in Brokers /\ SameAuthority(s.b, c) /\ BrokerOK(c)
      /\ DOMAIN c.entries = DOMAIN s.b.entries \ {s.x.ticket}
      /\ \A u \in DOMAIN c.entries : c.entries[u] = s.b.entries[u]
      /\ Tokens(s.b) \subseteq Tokens(c) \cup ({s.b.entries[s.x.ticket].token} \ {Nil})
      /\ \A u \in DOMAIN c.entries : Rejected(s.b, u) => Rejected(c, u)
  BY <1>1, ErasedEntry
<1> HIDE DEF y, c
<1>5. /\ t \in States /\ t.w = s.w /\ t.b = c /\ t.x = y /\ t.k = s.k /\ t.h = s.h
      /\ t.a = s.a /\ t.ok = s.ok /\ t.why = s.why /\ t.lost = s.lost
  BY <1>2, <1>3, <1>4 DEF Loose, States
<1>6. RunOK(s.k, y) BY <1>3 DEF Loose, RunOK
<1>7. EntryOf(c, y, s.k) /\ SeenOK(c, y) BY <1>3, <1>4 DEF EntryOf, SeenOK
<1>8. MailboxOK(c, y, s.k)
  <2>1. ASSUME NEW u \in DOMAIN c.entries
        PROVE  u <= s.k.runs /\ Rejected(c, u)
    BY <1>4 DEF Loose, MailboxOK
  <2>2. (s.k.run # Nil /\ s.k.run.phase \in {"proposed", "approval"}) =>
          s.k.runs \notin DOMAIN c.entries
    BY <1>4 DEF Loose, MailboxOK
  <2> QED BY <1>7, <2>1, <2>2 DEF MailboxOK
<1>9. SlotsOK(s.w, c, s.a)
  <2>1. Tokens(s.b) \subseteq Tokens(c) BY <1>4
  <2> QED BY <2>1, SlotsKept DEF Loose
<1>10. PlaceOK(c, s.a) BY <1>4, PlaceKept DEF Loose
<1>11. Loose(t) BY <1>4, <1>5, <1>6, <1>7, <1>8, <1>9, <1>10 DEF Loose
<1>12. Advances(s, t) BY <1>4, <1>5, <1>11 DEF Advances, ProjectionStep, HistoryStep
<1> QED BY <1>12, <1>5, <1>3, <1>4 DEF Differ

\* The entry of the executor leaves the mailbox, its update not being stored.
LEMMA ErasedAdvances ==
  ASSUME NEW s, Loose(s), s.x # Nil, s.x.ticket \in DOMAIN s.b.entries,
         s.b.entries[s.x.ticket].token = Nil
  PROVE  Advances(s, [s EXCEPT !.b = Erase(s.b, s.x.ticket)])
<1> DEFINE c == Erase(s.b, s.x.ticket)
           t == [s EXCEPT !.b = c]
<1>1. BrokerOK(s.b) BY DEF Loose
<1>2. /\ c \in Brokers /\ SameAuthority(s.b, c) /\ BrokerOK(c)
      /\ DOMAIN c.entries = DOMAIN s.b.entries \ {s.x.ticket}
      /\ \A u \in DOMAIN c.entries : c.entries[u] = s.b.entries[u]
      /\ Tokens(s.b) \subseteq Tokens(c) \cup ({s.b.entries[s.x.ticket].token} \ {Nil})
      /\ \A u \in DOMAIN c.entries : Rejected(s.b, u) => Rejected(c, u)
  BY <1>1, ErasedEntry
<1> HIDE DEF c
<1>3. /\ t \in States /\ t.w = s.w /\ t.b = c /\ t.x = s.x /\ t.k = s.k /\ t.h = s.h
      /\ t.a = s.a
  BY <1>2 DEF Loose, States
<1> HIDE DEF t
<1>4. EntryOf(c, s.x, s.k) /\ SeenOK(c, s.x)
  <2>1. s.x.pc # "starting" BY DEF Loose, MailboxOK, EntryOf
  <2> QED BY <1>2, <2>1 DEF EntryOf, SeenOK
<1>5. MailboxOK(c, s.x, s.k)
  <2>1. ASSUME NEW u \in DOMAIN c.entries
        PROVE  u <= s.k.runs /\ Rejected(c, u)
    BY <1>2 DEF Loose, MailboxOK
  <2>2. (s.k.run # Nil /\ s.k.run.phase \in {"proposed", "approval"}) =>
          s.k.runs \notin DOMAIN c.entries
    BY <1>2 DEF Loose, MailboxOK
  <2> QED BY <1>4, <2>1, <2>2 DEF MailboxOK
<1>6. SlotsOK(s.w, c, s.a)
  <2>1. Tokens(s.b) \subseteq Tokens(c) BY <1>2
  <2> QED BY <2>1, SlotsKept DEF Loose
<1>7. PlaceOK(c, s.a) BY <1>2, PlaceKept DEF Loose
<1>8. Loose(t) BY <1>2, <1>3, <1>4, <1>5, <1>6, <1>7 DEF Loose
<1>9. Advances(s, t) BY <1>2, <1>3, <1>8 DEF Advances, ProjectionStep, HistoryStep
<1> QED BY <1>9 DEF t, c

\* The kernel and the history of an observation that is published.
PublishedKernel(k, success) ==
  IF k.run.manual
  THEN [k EXCEPT !.success = success, !.manual = [k.manual EXCEPT !.status = "completed"],
                 !.run = [k.run EXCEPT !.terminal = TRUE]]
  ELSE [k EXCEPT !.success = k.success, !.manual = k.manual,
                 !.run = [k.run EXCEPT !.terminal = FALSE]]

PublishedHistory(h, success) ==
  LET r == success.request
  IN [h EXCEPT ![r.session] =
        [h[r.session] EXCEPT !.health = IF r.op = "health" THEN r ELSE h[r.session].health,
                             !.latest = success]]

\* The kernel after a publication
LEMMA PublishedKernelType ==
  ASSUME NEW k \in Kernels, k.run \in Runs, k.run.manual => k.manual \in Manuals,
         NEW success \in Successes
  PROVE  LET y == PublishedKernel(k, success)
         IN /\ y \in Kernels /\ y.runs = k.runs /\ y.tool = k.tool
            /\ y.run \in Runs /\ y.run.phase = k.run.phase
            /\ y.run.manual = k.run.manual /\ y.run.request = k.run.request
            /\ k.run.manual => /\ y.run.terminal /\ y.success = success
                               /\ y.manual \in Manuals /\ y.manual.run = k.manual.run
                               /\ y.manual.status = "completed"
            /\ ~k.run.manual => /\ ~y.run.terminal /\ y.success = k.success
                                /\ y.manual = k.manual
<1> DEFINE y == PublishedKernel(k, success)
<1>1. CASE k.run.manual
  <2> DEFINE m == [k.manual EXCEPT !.status = "completed"]
             r == [k.run EXCEPT !.terminal = TRUE]
  <2>1. m \in Manuals /\ m.run = k.manual.run /\ m.status = "completed"
    BY <1>1 DEF Manuals
  <2>2. /\ r \in Runs /\ r.terminal /\ r.phase = k.run.phase
        /\ r.manual = k.run.manual /\ r.request = k.run.request
    BY TerminalRun
  <2>3. y = [k EXCEPT !.success = success, !.manual = m, !.run = r]
    BY <1>1 DEF PublishedKernel
  <2> HIDE DEF m, r, y
  <2>4. /\ y \in Kernels /\ y.run = r /\ y.runs = k.runs /\ y.tool = k.tool
        /\ y.manual = m /\ y.success = success
    BY <2>1, <2>2, <2>3 DEF Kernels
  <2> QED BY <1>1, <2>1, <2>2, <2>4 DEF y
<1>2. CASE ~k.run.manual
  <2> DEFINE r == [k.run EXCEPT !.terminal = FALSE]
  <2>2. /\ r \in Runs /\ ~r.terminal /\ r.phase = k.run.phase
        /\ r.manual = k.run.manual /\ r.request = k.run.request
    BY DEF Runs
  <2>3. y = [k EXCEPT !.success = k.success, !.manual = k.manual, !.run = r]
    BY <1>2 DEF PublishedKernel
  <2> HIDE DEF r, y
  <2>4. /\ y \in Kernels /\ y.run = r /\ y.runs = k.runs /\ y.tool = k.tool
        /\ y.manual = k.manual /\ y.success = k.success
    BY <2>2, <2>3 DEF Kernels
  <2> QED BY <1>2, <2>2, <2>4 DEF y
<1> QED BY <1>1, <1>2

\* The history after a publication
LEMMA PublishedHistoryType ==
  ASSUME NEW h \in Histories, NEW success \in Successes
  PROVE  LET g == PublishedHistory(h, success)
         IN /\ g \in Histories
            /\ g[success.request.session].latest = success
            /\ \A id \in Sessions : id # success.request.session => g[id] = h[id]
<1> DEFINE r == success.request
           id == r.session
           e == [h[id] EXCEPT !.health = IF r.op = "health" THEN r ELSE h[id].health,
                              !.latest = success]
           g == [h EXCEPT ![id] = e]
<1>1. r \in Requests /\ id \in Sessions BY DEF Successes, Requests
<1>2. h[id] \in Records BY <1>1 DEF Histories
<1>3. e \in Records /\ e.latest = success BY <1>1, <1>2 DEF Records
<1>4. PublishedHistory(h, success) = g BY DEF PublishedHistory
<1> HIDE DEF e, id, r
<1>5. g \in Histories /\ g[id] = e /\ \A i \in Sessions : i # id => g[i] = h[i]
  BY <1>1, <1>3 DEF Histories
<1> QED BY <1>3, <1>4, <1>5 DEF id, r

\* What PublishTaken writes.
LEMMA PublishedState ==
  ASSUME NEW u \in States, u.k.run \in Runs, NEW success \in Successes,
         u.k.run.manual => u.k.manual \in Manuals,
         u.k.run.request = success.request, NEW take, take.taken, take.s = u
  PROVE  LET t == PublishTaken(take, u.k.run, success)
         IN /\ Differ(u, t, {"k", "h"}) /\ t.ok = u.ok /\ t.why = u.why /\ t.lost = u.lost
            /\ t.k = PublishedKernel(u.k, success)
            /\ t.h = PublishedHistory(u.h, success)
<1> DEFINE r == success.request
           i == r.session
           health == IF r.op = "health" THEN r ELSE u.h[i].health
           t == PublishTaken(take, u.k.run, success)
<1>0. i \in Sessions BY DEF Successes, Requests
<1>1. u.k \in Kernels /\ u.h \in [Sessions -> Records] /\ u.h \in Histories
  BY PartTypes DEF Histories
<1>2. PublishedHistory(u.h, success) =
        [u.h EXCEPT ![i].health = health, ![i].latest = success]
  BY <1>0, <1>1 DEF PublishedHistory
<1>3. /\ PublishedKernel(u.k, success) \in Kernels
      /\ PublishedHistory(u.h, success) \in Histories
  BY <1>1, PublishedKernelType, PublishedHistoryType
<1>4. /\ t.k = PublishedKernel(u.k, success)
      /\ t.h = PublishedHistory(u.h, success)
      /\ t.w = u.w /\ t.b = u.b /\ t.x = u.x /\ t.a = u.a
      /\ t.ok = u.ok /\ t.why = u.why /\ t.lost = u.lost
      /\ (t.k \in Kernels /\ t.h \in Histories) => t \in States
  <2>3. CASE u.k.run.manual
    <3>1. u.k.run.manual = TRUE BY <2>3 DEF Runs
    <3> DEFINE m == [u.k.manual EXCEPT !.status = "completed"]
    <3>2. PublishedKernel(u.k, success) =
            [u.k EXCEPT !.success = success, !.manual = m,
                        !.run = [u.k.run EXCEPT !.terminal = TRUE]]
      BY <2>3 DEF PublishedKernel
    <3>3. t = [u EXCEPT !.k.success = success,
                        !.h[i].health = health, !.h[i].latest = success,
                        !.k.manual = m, !.k.run.terminal = TRUE]
      BY <3>1 DEF PublishTaken
    <3> HIDE DEF health, i, m, t
    <3>4. /\ t.k = PublishedKernel(u.k, success)
          /\ t.h = PublishedHistory(u.h, success)
          /\ t.w = u.w /\ t.b = u.b /\ t.x = u.x /\ t.a = u.a
          /\ t.ok = u.ok /\ t.why = u.why /\ t.lost = u.lost
      BY <1>1, <1>2, <3>2, <3>3 DEF States, Kernels
    <3>5. (t.k \in Kernels /\ t.h \in Histories) => t \in States
      BY <3>3 DEF States
    <3> QED BY <3>4, <3>5
  <2>4. CASE ~u.k.run.manual
    <3>1. u.k.run.manual = FALSE BY <2>4 DEF Runs
    <3>2. PublishedKernel(u.k, success) =
            [u.k EXCEPT !.success = u.k.success, !.manual = u.k.manual,
                        !.run = [u.k.run EXCEPT !.terminal = FALSE]]
      BY <2>4 DEF PublishedKernel
    <3>3. t = [u EXCEPT !.k.success = u.k.success,
                        !.h[i].health = health, !.h[i].latest = success,
                        !.k.manual = u.k.manual, !.k.run.terminal = FALSE]
      BY <3>1 DEF PublishTaken
    <3> HIDE DEF health, i, t
    <3>4. /\ t.k = PublishedKernel(u.k, success)
          /\ t.h = PublishedHistory(u.h, success)
          /\ t.w = u.w /\ t.b = u.b /\ t.x = u.x /\ t.a = u.a
          /\ t.ok = u.ok /\ t.why = u.why /\ t.lost = u.lost
      BY <1>1, <1>2, <3>2, <3>3 DEF States, Kernels
    <3>5. (t.k \in Kernels /\ t.h \in Histories) => t \in States
      BY <3>3 DEF States
    <3> QED BY <3>4, <3>5
  <2> QED BY <2>3, <2>4
<1> HIDE DEF t
<1>5. t \in States BY <1>3, <1>4
<1> QED BY <1>4, <1>5 DEF Differ, t

\* An observation is published that the authority in force allows.
LEMMA PublishAdvances ==
  ASSUME NEW u, Loose(u), u.x # Nil, u.x.pc # "starting",
         u.k.run # Nil, ~u.k.run.terminal,
         u.x.ticket \notin DOMAIN u.b.entries,
         Preflight(u.b, u.k.run.request),
         NEW success, success = [run |-> u.x.ticket, request |-> u.k.run.request],
         NEW take, take.taken, take.s = u
  PROVE  LET t == PublishTaken(take, u.k.run, success)
         IN /\ Advances(u, t) /\ HandledOK(t.k, t.x)
            /\ t.x = u.x /\ t.k.run.phase = "running"
            /\ t.ok = u.ok /\ t.why = u.why /\ t.lost = u.lost
<1> DEFINE t == PublishTaken(take, u.k.run, success)
           y == PublishedKernel(u.k, success)
           g == PublishedHistory(u.h, success)
<1>0. /\ u \in States /\ u.k \in Kernels /\ u.k.run \in Runs /\ u.h \in Histories
      /\ u.x \in Execs /\ u.k.runs \in Nat
  BY PartTypes, KernelType DEF Loose
<1>1. /\ u.k.run.phase = "running" /\ u.x.ticket = u.k.runs
      /\ u.k.run.request \in Requests
      /\ u.k.run.manual => u.k.manual # Nil /\ u.k.manual.run = u.k.runs
  BY DEF Loose, RunOK
<1>2. u.k.run.manual => u.k.manual \in Manuals BY <1>0, <1>1, KernelType
<1>3. /\ success \in Successes /\ success.run = u.k.runs
      /\ success.request = u.k.run.request /\ success # Nil
  BY <1>0, <1>1, NilIsNone DEF Successes
<1>4. /\ Differ(u, t, {"k", "h"}) /\ t.ok = u.ok /\ t.why = u.why /\ t.lost = u.lost
      /\ t.k = y /\ t.h = g
  BY <1>0, <1>2, <1>3, PublishedState
<1>5. /\ y \in Kernels /\ y.runs = u.k.runs /\ y.tool = u.k.tool
      /\ y.run \in Runs /\ y.run.phase = "running"
      /\ y.run.manual = u.k.run.manual /\ y.run.request = u.k.run.request
      /\ u.k.run.manual => /\ y.run.terminal /\ y.success = success
                           /\ y.manual \in Manuals /\ y.manual.run = u.k.manual.run
                           /\ y.manual.status = "completed"
      /\ ~u.k.run.manual => /\ ~y.run.terminal /\ y.success = u.k.success
                            /\ y.manual = u.k.manual
  BY <1>0, <1>1, <1>2, <1>3, PublishedKernelType
<1>6. /\ g[success.request.session].latest = success
      /\ \A id \in Sessions : id # success.request.session => g[id] = u.h[id]
  BY ONLY <1>0, <1>3, PublishedHistoryType
<1>7. y.run # Nil /\ (u.k.run.manual => y.manual # Nil) BY <1>5, NilIsNone
<1> HIDE DEF t, y, g
<1>8. /\ t \in States /\ t.w = u.w /\ t.b = u.b /\ t.x = u.x /\ t.a = u.a
  BY <1>4 DEF Differ
<1>9. RunOK(y, u.x)
  <2>1. CASE u.k.run.manual
    <3>1. y.manual.run <= y.runs /\ success.run <= y.runs BY <1>0, <1>1, <1>3, <1>5, <2>1
    <3> QED BY <1>1, <1>3, <1>5, <1>7, <2>1, <3>1 DEF Loose, RunOK
  <2>2. CASE ~u.k.run.manual BY <1>1, <1>5, <1>7, <2>2 DEF Loose, RunOK
  <2> QED BY <2>1, <2>2
<1>10. MailboxOK(u.b, u.x, y) BY <1>5 DEF Loose, MailboxOK, EntryOf
<1>11. Loose(t) BY <1>4, <1>8, <1>9, <1>10 DEF Loose
<1>12. ProjectionStep(u.b, u.k, y)
  BY <1>1, <1>3, <1>5, <1>7 DEF ProjectionStep
<1>13. HistoryStep(u.b, u.h, g)
  BY <1>3, <1>6 DEF HistoryStep
<1>14. Advances(u, t) BY <1>4, <1>8, <1>11, <1>12, <1>13 DEF Advances, SameAuthority
<1>15. HandledOK(t.k, t.x) BY <1>4, <1>5 DEF HandledOK
<1> QED BY <1>4, <1>5, <1>8, <1>14, <1>15 DEF t

\* What the executor knows about its own entry.
LEMMA OwnEntry ==
  ASSUME NEW s, Loose(s), s.x # Nil, s.x.ticket \in DOMAIN s.b.entries
  PROVE  LET e == s.b.entries[s.x.ticket]
         IN /\ s.x.pc # "starting"
            /\ e.request = s.x.request /\ e.request = s.k.run.request
            /\ s.x.stop => Rejected(s.b, s.x.ticket)
            /\ s.k.run.terminal => Rejected(s.b, s.x.ticket)
            /\ (s.x.pc \in {"posted", "ended"} /\ ~s.x.receipt) => Rejected(s.b, s.x.ticket)
            /\ ~Preflight(s.b, s.k.run.request) => Rejected(s.b, s.x.ticket)
            /\ s.x.receipt => e.result /\ e.token = Nil
<1> DEFINE e == s.b.entries[s.x.ticket]
<1>1. /\ EntryOf(s.b, s.x, s.k) /\ BrokerOK(s.b) /\ s.x.request = s.k.run.request
  BY DEF Loose, MailboxOK, RunOK
<1>2. /\ s.x.pc # "starting" /\ e.request = s.x.request
      /\ s.x.stop => e.stop
      /\ (s.x.pc \in {"posted", "ended"} /\ ~s.x.receipt) => e.error
      /\ s.k.run.terminal => s.x.stop
      /\ s.x.receipt => e.result
  BY <1>1 DEF EntryOf
<1>3. /\ e.request.session = s.b.session
      /\ e.result => e.token = Nil
      /\ s.b.authority # Nil => s.b.source # Nil
  BY <1>1 DEF BrokerOK
<1>4. ~Preflight(s.b, s.k.run.request) => ~Current(s.b, e.request)
  BY <1>1, <1>2, <1>3 DEF Preflight, Current
<1> QED BY <1>1, <1>2, <1>3, <1>4 DEF Rejected

\* What draining the update comes to.
Drained(s, t) ==
  /\ Settles(s, t)
  /\ (t.ok /\ t.x # Nil /\ t.x.pc = "ended") => t.x.seen

\* A state whose update was seen, but for the outcome.
LEMMA DrainedOk ==
  ASSUME NEW s, NEW q, Advances(s, q), HandledOK(q.k, q.x), q.k.run.phase = "running",
         q.x # Nil => q.x.seen
  PROVE  Drained(s, Ok(q))
<1> DEFINE t == Ok(q)
<1>1. Differ(q, t, {}) BY PutOk DEF Advances, Loose
<1> HIDE DEF t
<1>2. Advances(q, t) /\ t.k = q.k /\ t.x = q.x BY <1>1, AdvancesSame DEF Advances
<1>3. Advances(s, t) BY <1>2, AdvancesTransitive
<1>4. SettledOK(t.k, t.x) BY <1>2 DEF SettledOK
<1> QED BY <1>2, <1>3, <1>4 DEF Drained, Settles, t

\* The error of an update that was seen.
LEMMA DrainedError ==
  ASSUME NEW s, NEW u, Advances(s, u), u.x # Nil, u.x.seen, u.k.run # Nil, ~u.k.run.terminal
  PROVE  Drained(s, Ok(RecordToolError(u)))
<1> DEFINE q == RecordToolError(u)
<1>1. /\ Advances(u, q) /\ HandledOK(q.k, q.x)
      /\ q.x.seen /\ q.k.run.phase = "running"
  BY ErrorAdvances DEF Advances
<1> HIDE DEF q
<1>2. Advances(s, q) BY <1>1, AdvancesTransitive
<1>3. Drained(s, Ok(q)) BY <1>1, <1>2, DrainedOk
<1> QED BY <1>3 DEF q

\* publish_observation, of an update with a receipt
LEMMA PublishDrains ==
  ASSUME NEW s, Base(s), s.x # Nil, s.x.pc \in {"posted", "ended"}, s.x.receipt,
         ~s.k.run.terminal
  PROVE  Drained(s, Ok(Publish([s EXCEPT !.x.seen = TRUE])))
<1> DEFINE y == [s.x EXCEPT !.seen = TRUE]
           v == [s EXCEPT !.x.seen = TRUE]
           tk == s.x.ticket
<1>0. Loose(s) /\ s.x \in Execs /\ s.k.run # Nil BY PartTypes DEF Base, Loose, RunOK
<1>1. v = [s EXCEPT !.x = y] BY <1>0 DEF Loose, States
<1>2. /\ y \in Execs /\ y.seen
      /\ y.pc = s.x.pc /\ y.ticket = s.x.ticket /\ y.request = s.x.request
      /\ y.receipt = s.x.receipt /\ y.stop = s.x.stop
  BY <1>0, SeenFields
<1> HIDE DEF y
<1>3. /\ v \in States /\ v.x = y /\ v.b = s.b /\ v.k = s.k
  BY <1>0, <1>1, <1>2 DEF Loose, States
<1>4. tk \in DOMAIN s.b.entries =>
        /\ s.x.stop => Rejected(s.b, tk)
        /\ ~Preflight(s.b, s.k.run.request) => Rejected(s.b, tk)
        /\ s.b.entries[tk].result /\ s.b.entries[tk].token = Nil
  BY <1>0, OwnEntry
<1>5. (tk \in DOMAIN s.b.entries => Rejected(s.b, tk)) =>
        Advances(s, v) /\ v.x # Nil /\ v.x.seen /\ v.k.run # Nil /\ ~v.k.run.terminal
  <2>1. v.x # Nil BY <1>0, <1>2, <1>3, NilIsNone
  <2> QED BY <1>0, <1>2, <1>3, <2>1, SeenAdvances
<1>6. CASE s.x.stop \/ ~Preflight(s.b, s.k.run.request)
  <2>1. Publish(v) = RecordToolError(v) BY <1>2, <1>3, <1>6 DEF Publish
  <2>2. tk \in DOMAIN s.b.entries => Rejected(s.b, tk) BY <1>4, <1>6
  <2> HIDE DEF v
  <2>3. Drained(s, Ok(RecordToolError(v))) BY <1>5, <2>2, DrainedError
  <2> QED BY <2>1, <2>3 DEF v
<1>7. CASE ~(s.x.stop \/ ~Preflight(s.b, s.k.run.request))
  <2> DEFINE take == TakeForPublication(v, tk)
             success == [run |-> tk, request |-> s.k.run.request]
             u == [v EXCEPT !.b = Erase(s.b, tk)]
  <2>1. Publish(v) = PublishTaken(take, s.k.run, success)
    BY <1>2, <1>3, <1>7 DEF Publish
  <2>2. CASE tk \notin DOMAIN s.b.entries
    <3>1. take.s = v /\ ~take.taken BY <1>3, <2>2 DEF TakeForPublication
    <3> HIDE DEF v, take, success
    <3>2. Publish(v) = RecordToolError(v) BY <2>1, <3>1 DEF PublishTaken
    <3>3. Drained(s, Ok(RecordToolError(v))) BY <1>5, <2>2, DrainedError
    <3> QED BY <3>2, <3>3 DEF v
  <2>3. CASE tk \in DOMAIN s.b.entries
    <3>1. u = [s EXCEPT !.x.seen = TRUE, !.b = Erase(s.b, s.x.ticket)]
      BY <1>0 DEF Loose, States
    <3>2. /\ Advances(s, u) /\ Differ(s, u, {"x", "b"})
          /\ u.x.ticket = s.x.ticket
          /\ u.x.ticket \notin DOMAIN u.b.entries
      <4> HIDE DEF u
      <4>1. s.x.pc # "starting" BY <1>0
      <4> QED BY <1>0, <1>4, <2>3, <3>1, <4>1, TakenAdvances
    <3>3. u.x = y /\ u.k = s.k BY <1>1, <1>2, <1>3, <3>2 DEF Loose, States, Differ
    <3>4. take.s = u
      BY <1>3, <1>4, <2>3 DEF TakeForPublication
    <3>5. take.taken <=> ~Rejected(s.b, tk)
      BY <1>3, <1>4, <2>3 DEF TakeForPublication
    <3>6. u.x # Nil /\ u.x.seen BY <1>2, <3>3, NilIsNone
    <3>10. u.x.pc # "starting" BY <1>0, <1>2, <3>3
    <3>9. success = [run |-> u.x.ticket, request |-> u.k.run.request] BY <3>2, <3>3
    <3> HIDE DEF u, v, take, success
    <3>7. CASE Rejected(s.b, tk)
      <4>1. Publish(v) = RecordToolError(u) BY <2>1, <3>4, <3>5, <3>7 DEF PublishTaken
      <4>2. Drained(s, Ok(RecordToolError(u))) BY <1>0, <3>2, <3>3, <3>6, DrainedError
      <4> QED BY <4>1, <4>2 DEF v
    <3>8. CASE ~Rejected(s.b, tk)
      <4> DEFINE t == PublishTaken(take, u.k.run, success)
      <4>1. Publish(v) = t BY <2>1, <3>3
      <4>2. Preflight(u.b, u.k.run.request)
        BY <1>7, <3>2, <3>3, CurrentKept DEF Advances
      <4>3. Loose(u) /\ take.taken BY <3>2, <3>5, <3>8 DEF Advances
      <4>4. u.k.run # Nil /\ ~u.k.run.terminal BY <1>0, <3>3
      <4>5. /\ Advances(u, t) /\ HandledOK(t.k, t.x)
            /\ t.x = u.x /\ t.k.run.phase = "running"
        BY <4>2, <4>3, <4>4, <3>2, <3>4, <3>6, <3>9, <3>10, PublishAdvances
      <4> HIDE DEF t
      <4>6. Advances(s, t) BY <3>2, <4>5, AdvancesTransitive
      <4>7. Drained(s, Ok(t)) BY <3>6, <4>5, <4>6, DrainedOk
      <4> QED BY <4>1, <4>7 DEF v
    <3> QED BY <3>7, <3>8
  <2> QED BY <2>2, <2>3
<1> QED BY <1>6, <1>7

\* What is left when the update is not stored
LEMMA RedeemedAdvances ==
  ASSUME NEW s, Loose(s), s.x # Nil, s.x.pc \in {"posted", "ended"}
  PROVE  Advances(s, Redeemed(s))
<1> DEFINE tk == s.x.ticket
<1>1. Advances(s, s)
  <2>1. Differ(s, s, {}) BY DEF Differ, Loose
  <2> QED BY <2>1, AdvancesSame
<1>2. Redeemed(s) = s
      \/ /\ s.x.receipt /\ tk \in DOMAIN s.b.entries
         /\ Redeemed(s) = [s EXCEPT !.b = Erase(s.b, tk)]
  BY DEF Redeemed, TakeForPublication
<1>3. (s.x.receipt /\ tk \in DOMAIN s.b.entries) => s.b.entries[tk].token = Nil
  BY OwnEntry
<1> QED BY <1>1, <1>2, <1>3, ErasedAdvances

\* drain, the update
LEMMA UpdateDrains ==
  ASSUME NEW s, Base(s), NEW stored \in BOOLEAN
  PROVE  Drained(s, DrainUpdate(s, stored))
<1> DEFINE t == DrainUpdate(s, stored)
           v == [s EXCEPT !.x.seen = TRUE]
<1>0. Loose(s) BY DEF Base
<1>1. CASE s.x = Nil \/ s.x.pc \notin {"posted", "ended"} \/ s.x.seen
  <2>1. t = Ok(s) BY <1>1 DEF DrainUpdate
  <2>2. Differ(s, t, {}) BY <1>0, <2>1, PutOk DEF Loose
  <2> HIDE DEF t
  <2>3. Advances(s, t) /\ t.k = s.k /\ t.x = s.x BY <1>0, <2>2, AdvancesSame
  <2> QED BY <1>1, <2>3 DEF Drained, Settles, Base, t
<1>2. CASE ~(s.x = Nil \/ s.x.pc \notin {"posted", "ended"} \/ s.x.seen)
  <2>0. s.x \in Execs /\ s.k.run # Nil /\ s.k.run.phase = "running"
    BY <1>0, <1>2, PartTypes DEF Loose, RunOK
  <2>1. (s.x.ticket \in DOMAIN s.b.entries => Rejected(s.b, s.x.ticket)) =>
          /\ Advances(s, v) /\ v.x # Nil /\ v.x.seen
          /\ v.k = s.k
    <3> DEFINE y == [s.x EXCEPT !.seen = TRUE]
    <3>1. y \in Execs /\ y.seen BY <2>0, SeenFields
    <3>2. v = [s EXCEPT !.x = y] BY <1>0 DEF Loose, States
    <3> HIDE DEF y
    <3>3. v.x = y /\ v.k = s.k BY <1>0, <3>1, <3>2 DEF Loose, States
    <3>4. v.x # Nil /\ v.x.seen BY <3>1, <3>3, NilIsNone
    <3> QED BY <1>0, <1>2, <3>3, <3>4, SeenAdvances
  <2>2. CASE s.k.run.terminal
    <3>1. t = Ok(v) BY <1>2, <2>2 DEF DrainUpdate
    <3>2. s.x.ticket \in DOMAIN s.b.entries => Rejected(s.b, s.x.ticket)
      BY <1>0, <1>2, <2>2, OwnEntry
    <3> HIDE DEF v, t
    <3>3. HandledOK(v.k, v.x) BY <2>1, <2>2, <3>2 DEF HandledOK
    <3>4. Drained(s, Ok(v)) BY <2>0, <2>1, <3>2, <3>3, DrainedOk
    <3> QED BY <3>1, <3>4 DEF t
  <2>3. CASE ~s.k.run.terminal /\ ~stored
    <3> DEFINE r == Redeemed(s)
    <3>1. t = PersistenceFailure(r) BY <1>2, <2>3 DEF DrainUpdate
    <3>2. Advances(s, r) BY <1>0, <1>2, RedeemedAdvances
    <3> HIDE DEF r, t
    <3>3. Settles(r, t) /\ ~t.ok BY <3>1, <3>2, PersistenceSettles DEF Advances
    <3>4. Settles(s, t) BY <3>2, <3>3, SettlesTransitive
    <3> QED BY <3>3, <3>4 DEF Drained, t
  <2>4. CASE ~s.k.run.terminal /\ stored /\ ~s.x.receipt
    <3>1. t = Ok(RecordToolError(v)) BY <1>2, <2>4 DEF DrainUpdate
    <3>2. s.x.ticket \in DOMAIN s.b.entries => Rejected(s.b, s.x.ticket)
      BY <1>0, <1>2, <2>4, OwnEntry
    <3> HIDE DEF v, t
    <3>3. Drained(s, Ok(RecordToolError(v)))
      BY <2>0, <2>1, <2>4, <3>2, DrainedError
    <3> QED BY <3>1, <3>3 DEF t
  <2>5. CASE ~s.k.run.terminal /\ stored /\ s.x.receipt
    <3>1. t = Ok(Publish(v)) BY <1>2, <2>5 DEF DrainUpdate
    <3>2. Drained(s, Ok(Publish(v))) BY <1>2, <2>5, PublishDrains
    <3> QED BY <3>1, <3>2
  <2> QED BY <2>2, <2>3, <2>4, <2>5
<1> QED BY <1>1, <1>2

\* drain, the end of the executor
LEMMA EndSettles ==
  ASSUME NEW s, Base(s), (s.ok /\ s.x # Nil /\ s.x.pc = "ended") => s.x.seen
  PROVE  LET t == DrainEnd(s)
         IN Settles(s, t) /\ t.ok = s.ok /\ t.why = s.why /\ t.lost = s.lost
<1> DEFINE t == DrainEnd(s)
<1>0. Loose(s) /\ s \in States BY DEF Base, Loose
<1>1. CASE ~s.ok \/ s.x = Nil \/ s.x.pc # "ended"
  <2>1. t = s BY <1>1 DEF DrainEnd
  <2>2. Differ(s, s, {}) BY <1>0 DEF Differ
  <2> QED BY <1>0, <2>1, <2>2, AdvancesSame DEF Settles, Base
<1>2. CASE ~(~s.ok \/ s.x = Nil \/ s.x.pc # "ended")
  <2> DEFINE r == IF s.k.run.terminal THEN Nil ELSE [s.k.run EXCEPT !.phase = "thinking"]
             y == [s.k EXCEPT !.run = r]
  <2>1. t = [s EXCEPT !.x = Nil, !.k = y]
    BY <1>0, <1>2 DEF DrainEnd, States
  <2>2. s.k \in Kernels /\ s.k.run \in Runs /\ s.k.run # Nil
    BY <1>0, <1>2, PartTypes, KernelType DEF Loose, RunOK
  <2>3. /\ r \in Runs \cup {Nil}
        /\ r # Nil => r.phase = "thinking" /\ ~r.terminal /\ ~r.manual
    <3>1. s.k.run.manual => s.k.run.terminal BY <1>2, <2>2 DEF Base, SettledOK, HandledOK
    <3>2. CASE s.k.run.terminal BY <3>2
    <3>3. CASE ~s.k.run.terminal BY <2>2, <3>1, <3>3 DEF Runs
    <3> QED BY <3>2, <3>3
  <2> HIDE DEF r
  <2>4. /\ y \in Kernels /\ y.run = r /\ y.runs = s.k.runs /\ y.tool = s.k.tool
        /\ y.manual = s.k.manual /\ y.success = s.k.success
    BY <2>2, <2>3 DEF Kernels
  <2> HIDE DEF y
  <2>5. /\ t \in States /\ t.w = s.w /\ t.b = s.b /\ t.x = Nil /\ t.k = y
        /\ t.h = s.h /\ t.a = s.a /\ t.ok = s.ok /\ t.why = s.why /\ t.lost = s.lost
    BY <1>0, <2>1, <2>4 DEF States
  <2> HIDE DEF t
  <2>6. AllRejected(s.b)
    BY <1>0, <1>2 DEF Loose, MailboxOK, SeenOK, AllRejected
  <2>7. RunOK(y, Nil) BY <1>0, <2>3, <2>4 DEF Loose, RunOK
  <2>8. MailboxOK(s.b, Nil, y)
    BY <1>0, <2>3, <2>4, <2>6 DEF Loose, MailboxOK, AllRejected
  <2>9. Loose(t) BY <1>0, <2>5, <2>7, <2>8 DEF Loose, SeenOK
  <2>10. Advances(s, t)
    BY <2>4, <2>5, <2>9 DEF Advances, SameAuthority, ProjectionStep, HistoryStep
  <2>11. SettledOK(t.k, t.x) BY <2>3, <2>4, <2>5 DEF SettledOK, HandledOK
  <2> QED BY <2>5, <2>10, <2>11 DEF Settles, t
<1> QED BY <1>1, <1>2

\* What settles is a state between two calls again.
LEMMA SettlesBase ==
  ASSUME NEW s, NEW t, Settles(s, t)
  PROVE  Base(t) /\ Advances(s, t)
BY DEF Settles, Advances, Base

\* Steps that settle compose.
LEMMA SettlesChain ==
  ASSUME NEW s, NEW t, NEW u, Settles(s, t), Settles(t, u)
  PROVE  Settles(s, u)
BY SettlesTransitive DEF Settles

\* drain: the update, then the end of the executor.
LEMMA DrainSettles ==
  ASSUME NEW s, Base(s), NEW stored \in BOOLEAN
  PROVE  Settles(s, Drain(s, stored))
<1> DEFINE q == DrainUpdate(s, stored)
<1>1. Settles(s, q) /\ ((q.ok /\ q.x # Nil /\ q.x.pc = "ended") => q.x.seen)
  BY UpdateDrains DEF Drained
<1> HIDE DEF q
<1>2. Settles(q, DrainEnd(q)) BY <1>1, SettlesBase, EndSettles
<1>3. Settles(s, DrainEnd(q)) BY <1>1, <1>2, SettlesChain
<1> QED BY <1>3 DEF Drain, q

-----------------------------------------------------------------------------
(* The session's handlers. *)

\* The flags of the session change, nothing of its run.
LEMMA FlagsSettle ==
  ASSUME NEW s, NEW t, Base(s), Differ(s, t, {"k"}),
         t.k.run = s.k.run, t.k.runs = s.k.runs, t.k.tool = s.k.tool,
         t.k.manual = s.k.manual, t.k.success = s.k.success
  PROVE  Settles(s, t)
<1>1. RunOK(t.k, s.x) BY DEF Base, Loose, RunOK
<1>2. MailboxOK(s.b, s.x, t.k) BY DEF Base, Loose, MailboxOK, EntryOf
<1>3. Advances(s, t) BY <1>1, <1>2, AdvanceKernel DEF Base, ProjectionStep
<1>4. SettledOK(t.k, t.x) BY DEF Base, SettledOK, HandledOK, Differ
<1> QED BY <1>3, <1>4 DEF Settles

\* Nothing but the outcome changes.
LEMMA OutcomeSettles ==
  ASSUME NEW s, NEW t, Base(s), Differ(s, t, {})
  PROVE  Settles(s, t)
BY AdvancesSame DEF Base, Settles

\* A call that only fails settles.
LEMMA FailSettles ==
  ASSUME NEW s, Base(s), NEW why \in Failures
  PROVE  LET t == Fail(s, why)
         IN Settles(s, t) /\ Differ(s, t, {}) /\ ~t.ok /\ t.why = why /\ t.lost = s.lost
BY PutFail, OutcomeSettles DEF Base, Loose

\* A call that only succeeds settles.
LEMMA OkSettles ==
  ASSUME NEW s, Base(s)
  PROVE  Settles(s, Ok(s)) /\ Differ(s, Ok(s), {}) /\ Ok(s).ok
BY PutOk, OutcomeSettles DEF Base, Loose

\* So does no call at all.
LEMMA SameSettles ==
  ASSUME NEW s, Base(s)
  PROVE  Settles(s, s)
BY OutcomeSettles DEF Base, Loose, Differ

\* synchronize_observation_state: the session notes whether there is a run.
LEMMA SynchronizeSettles ==
  ASSUME NEW s, Base(s)
  PROVE  LET t == Synchronize(s)
         IN Settles(s, t) /\ t.ok = s.ok /\ t.why = s.why /\ Differ(s, t, {"k"})
            /\ t.k.run = s.k.run /\ t.k.manual = s.k.manual /\ t.k.problem = s.k.problem
            /\ t.k.success = s.k.success
<1> DEFINE t == Synchronize(s)
           y == [s.k EXCEPT !.busy = (s.k.run # Nil)]
<1>0. s \in States /\ s.k \in Kernels BY PartTypes DEF Base, Loose
<1>1. t = [s EXCEPT !.k = y] BY <1>0 DEF Synchronize, States
<1>2. /\ y \in Kernels /\ y.run = s.k.run /\ y.runs = s.k.runs /\ y.tool = s.k.tool
      /\ y.manual = s.k.manual /\ y.success = s.k.success /\ y.problem = s.k.problem
  <2>1. CASE s.k.run = Nil
    <3>1. y = [s.k EXCEPT !.busy = FALSE] BY <2>1
    <3> HIDE DEF y
    <3> QED BY <1>0, <3>1 DEF Kernels
  <2>2. CASE s.k.run # Nil
    <3>1. y = [s.k EXCEPT !.busy = TRUE] BY <2>2
    <3> HIDE DEF y
    <3> QED BY <1>0, <3>1 DEF Kernels
  <2> QED BY <2>1, <2>2
<1> HIDE DEF y
<1>3. t.k = y /\ Differ(s, t, {"k"}) /\ t.ok = s.ok /\ t.why = s.why
  BY <1>0, <1>1, <1>2, PutK
<1> HIDE DEF t
<1>4. Settles(s, t) BY <1>2, <1>3, FlagsSettle
<1> QED BY <1>2, <1>3, <1>4 DEF t

\* Admission is closed.
LEMMA CloseSettles ==
  ASSUME NEW s, Base(s)
  PROVE  LET t == CloseAdmission(s) IN Settles(s, t) /\ ~t.ok
<1> DEFINE k == s.k
           why == IF k.problem = Nil \/ (k.problem # "storage" /\ s.why = "storage")
                  THEN s.why ELSE k.problem
           y == [s.k EXCEPT !.problem = why, !.available = FALSE]
           q == [s EXCEPT !.k = y]
           t == CloseAdmission(s)
<1>0. s \in States /\ s.k \in Kernels /\ s.why \in Failures /\ s.k.problem \in Failures
  BY PartTypes, KernelType DEF Base, Loose
<1>1. t = Fail(q, why) BY <1>0 DEF CloseAdmission, States
<1>2. why \in Failures BY <1>0
<1> HIDE DEF why
<1>3. /\ y \in Kernels /\ y.run = s.k.run /\ y.runs = s.k.runs /\ y.tool = s.k.tool
      /\ y.manual = s.k.manual /\ y.success = s.k.success
  BY <1>0, <1>2 DEF Kernels
<1> HIDE DEF y
<1>4. q.k = y /\ Differ(s, q, {"k"}) BY <1>0, <1>3, PutK
<1> HIDE DEF q
<1>5. Settles(s, q) BY <1>3, <1>4, FlagsSettle
<1>6. Settles(q, t) /\ ~t.ok BY <1>1, <1>2, <1>5, SettlesBase, FailSettles
<1> HIDE DEF t
<1>7. Settles(s, t) BY <1>5, <1>6, SettlesChain
<1> QED BY <1>6, <1>7 DEF t

\* report_observation_kernel_failure
LEMMA ReportKernelSettles ==
  ASSUME NEW s, Base(s)
  PROVE  LET t == ReportKernelFailure(s)
         IN Settles(s, t) /\ (s.ok => t = s) /\ (~s.ok => ~t.ok)
BY SameSettles, CloseSettles DEF ReportKernelFailure

\* Admission is closed when the call failed.
LEMMA CloseIfFailedSettles ==
  ASSUME NEW s, Base(s)
  PROVE  Settles(s, CloseIfFailed(s))
BY SameSettles, CloseSettles DEF CloseIfFailed

\* The session is brought up to date when the call succeeded.
LEMMA SynchronizeIfOkSettles ==
  ASSUME NEW s, Base(s)
  PROVE  LET t == SynchronizeIfOk(s) IN Settles(s, t) /\ t.ok = s.ok
BY SameSettles, SynchronizeSettles DEF SynchronizeIfOk
-----------------------------------------------------------------------------
(* The owner services the mailbox. *)

\* Only the worker and the mailbox change.
LEMMA ServeSettles ==
  ASSUME NEW s, NEW t, Base(s), Differ(s, t, {"w", "b"}),
         SameAuthority(s.b, t.b), BrokerOK(t.b),
         NEW new, NEW gone, Works(s.w, t.w, new, gone), new \subseteq {NextRequest(s.w)},
         MailboxOK(t.b, s.x, s.k), SeenOK(t.b, s.x),
         LiveIds(t.w) \subseteq Tokens(t.b) \cup PrepIds(s.a)
  PROVE  Settles(s, t)
<1>1. /\ t \in States /\ t.x = s.x /\ t.k = s.k /\ t.h = s.h /\ t.a = s.a
  BY DEF Differ
<1>2. PlaceOK(t.b, s.a) BY PlaceKept DEF Base, Loose
<1>3. WorkerOK(s.w) /\ SlotsOK(s.w, s.b, s.a) BY DEF Base, Loose
<1>4. NextRequest(s.w) \in Nat /\ NextRequest(t.w) \in Nat
  BY <1>3, NextRequestIsNew DEF Works
<1>5. SlotsOK(t.w, t.b, s.a)
  <2>1. ASSUME s.a.prep # Nil
        PROVE  /\ s.a.prep.id < NextRequest(t.w)
               /\ s.a.prep.claimed # Nil => s.a.prep.id \notin LiveIds(t.w)
    <3>1. s.a.prep.id \in Nat
      BY <1>1, <2>1, PartTypes DEF Base, Loose, Admins, PreparationWork
    <3>2. s.a.prep.id < NextRequest(s.w) /\ NextRequest(t.w) >= NextRequest(s.w)
      BY <1>3, <2>1 DEF SlotsOK, Works
    <3>3. s.a.prep.id \notin new BY <1>4, <3>1, <3>2
    <3> QED BY <1>3, <1>4, <2>1, <3>1, <3>2, <3>3 DEF SlotsOK, Works
  <2> QED BY <2>1 DEF SlotsOK
<1>6. Loose(t) BY <1>1, <1>2, <1>5 DEF Base, Loose, Works
<1>7. Advances(s, t) BY <1>1, <1>6 DEF Advances, ProjectionStep, HistoryStep
<1> QED BY <1>1, <1>7 DEF Settles, Base

\* discard: an entry goes, and its job with it.
LEMMA DiscardSettles ==
  ASSUME NEW s, Base(s), NEW n \in DOMAIN s.b.entries
  PROVE  LET t == DiscardEntry(s, n)
         IN Settles(s, t) /\ t.ok = s.ok /\ t.why = s.why /\ t.lost = s.lost
            /\ Differ(s, t, {"w", "b"})
            /\ n \notin DOMAIN t.b.entries /\ DOMAIN t.b.entries \subseteq DOMAIN s.b.entries
<1> DEFINE token == s.b.entries[n].token
           c == Erase(s.b, n)
           w == IF token = Nil THEN s.w ELSE Cancel(s.w, token)
           t == DiscardEntry(s, n)
<1>0. s \in States /\ BrokerOK(s.b) /\ WorkerOK(s.w) BY DEF Base, Loose
<1>1. t = [s EXCEPT !.b = c, !.w = w] BY DEF DiscardEntry
<1>2. /\ c \in Brokers /\ SameAuthority(s.b, c) /\ BrokerOK(c)
      /\ DOMAIN c.entries = DOMAIN s.b.entries \ {n}
      /\ \A u \in DOMAIN c.entries : c.entries[u] = s.b.entries[u]
      /\ Tokens(s.b) \subseteq Tokens(c) \cup ({token} \ {Nil})
      /\ \A u \in DOMAIN c.entries : Rejected(s.b, u) => Rejected(c, u)
  BY <1>0, ErasedEntry
<1>3. Works(s.w, w, {}, {token} \ {Nil})
  <2>1. CASE token = Nil
    <3>1. w = s.w /\ {token} \ {Nil} = {} BY <2>1
    <3> QED BY <1>0, <3>1, WorksUnchanged
  <2>2. CASE token # Nil
    <3>1. w = Cancel(s.w, token) /\ {token} \ {Nil} = {token} BY <2>2
    <3> QED BY <1>0, <3>1, WorksCancel
  <2> QED BY <2>1, <2>2
<1>4. w \in Workers BY <1>3 DEF Works, WorkerOK
<1> HIDE DEF c, w, t
<1>5. /\ t \in States /\ t.b = c /\ t.w = w /\ Differ(s, t, {"w", "b"})
      /\ t.ok = s.ok /\ t.why = s.why /\ t.lost = s.lost
  BY <1>0, <1>1, <1>2, <1>4 DEF States, Differ
<1>6. LiveIds(w) \subseteq Tokens(c) \cup PrepIds(s.a)
  BY <1>2, <1>3 DEF Works, Base, Loose, SlotsOK
<1>7. SeenOK(c, s.x) BY <1>2 DEF Base, Loose, SeenOK
<1>8. MailboxOK(c, s.x, s.k)
  <2>1. s.x # Nil => EntryOf(c, s.x, s.k)
    BY <1>2 DEF Base, Loose, MailboxOK, EntryOf
  <2> QED BY <1>2, <2>1 DEF Base, Loose, MailboxOK
<1>9. Settles(s, t)
  <2>1. {} \subseteq {NextRequest(s.w)} OBVIOUS
  <2> QED BY <1>2, <1>3, <1>5, <1>6, <1>7, <1>8, <2>1, ServeSettles
<1> QED BY <1>2, <1>5, <1>9 DEF t

\* What sending and answering leave of an entry.
Later(d, e) ==
  /\ e.request = d.request
  /\ d.stop => e.stop
  /\ d.error => e.error
  /\ d.expired => e.expired
  /\ d.result => e.result
  /\ e.result => e.claimed /\ e.token = Nil
  /\ ~e.claimed => e.token = Nil

\* The mailbox with another entry n, and what it has in common with b.
PutAt(b, n, e) == [b EXCEPT !.entries = [b.entries EXCEPT ![n] = e]]

Updates(b, c, n, e) ==
  /\ c \in Brokers /\ SameAuthority(b, c) /\ BrokerOK(c)
  /\ DOMAIN c.entries = DOMAIN b.entries
  /\ c.entries[n] = e
  /\ \A u \in DOMAIN b.entries : u # n => c.entries[u] = b.entries[u]
  /\ Tokens(b) \ {b.entries[n].token} \subseteq Tokens(c)
  /\ {e.token} \ {Nil} \subseteq Tokens(c)
  /\ \A u \in DOMAIN b.entries : Rejected(b, u) => Rejected(c, u)
  /\ \A x, k : MailboxOK(b, x, k) => MailboxOK(c, x, k)
  /\ \A x : SeenOK(b, x) => SeenOK(c, x)

\* An entry that was sent or answered.
LEMMA PutEntry ==
  ASSUME NEW b, BrokerOK(b), NEW n \in DOMAIN b.entries, NEW e \in Entries,
         Later(b.entries[n], e)
  PROVE  Updates(b, PutAt(b, n, e), n, e)
<1> USE DEF Later
<1> DEFINE d == b.entries[n]
           f == [b.entries EXCEPT ![n] = e]
           c == [b EXCEPT !.entries = f]
<1>0. b \in Brokers /\ b.entries \in [DOMAIN b.entries -> Entries] /\ DOMAIN b.entries \subseteq Nat
  BY BrokerType DEF BrokerOK
<1>1. /\ f \in [DOMAIN b.entries -> Entries] /\ DOMAIN f = DOMAIN b.entries
      /\ f[n] = e /\ \A u \in DOMAIN b.entries : u # n => f[u] = b.entries[u]
  BY <1>0
<1> HIDE DEF f
<1>2. f \in EntryTables BY <1>0, <1>1, EntryTable
<1>3. c \in Brokers /\ c.entries = f /\ SameAuthority(b, c) BY <1>0, <1>2, PutEntries
<1> HIDE DEF c
<1>4. BrokerOK(c)
  <2>1. ASSUME NEW u \in DOMAIN c.entries
        PROVE  /\ c.entries[u].request.session = c.session
               /\ c.entries[u].result => c.entries[u].claimed /\ c.entries[u].token = Nil
               /\ ~c.entries[u].claimed => c.entries[u].token = Nil
    <3>1. CASE u = n BY <1>1, <1>3, <3>1 DEF BrokerOK, SameAuthority
    <3>2. CASE u # n BY <1>1, <1>3, <3>2 DEF BrokerOK, SameAuthority
    <3> QED BY <3>1, <3>2
  <2> QED BY <1>3, <2>1 DEF BrokerOK, SameAuthority
<1>5. ASSUME NEW u \in DOMAIN b.entries, Rejected(b, u)
      PROVE  Rejected(c, u)
  <2>1. Current(c, b.entries[u].request) => Current(b, b.entries[u].request)
    BY <1>3, CurrentKept
  <2>2. CASE u = n BY <1>1, <1>3, <1>5, <2>1, <2>2 DEF Rejected
  <2>3. CASE u # n BY <1>1, <1>3, <1>5, <2>1, <2>3 DEF Rejected
  <2> QED BY <2>2, <2>3
<1>6. Tokens(b) \ {d.token} \subseteq Tokens(c)
  BY <1>1, <1>3 DEF Tokens
<1>7. {e.token} \ {Nil} \subseteq Tokens(c) BY <1>1, <1>3 DEF Tokens
<1>8. ASSUME NEW x, NEW k, MailboxOK(b, x, k)
      PROVE  MailboxOK(c, x, k)
  <2>1. ASSUME EntryOf(b, x, k) PROVE EntryOf(c, x, k)
    <3>1. CASE x.ticket = n BY <1>1, <1>3, <2>1, <3>1 DEF EntryOf
    <3>2. CASE x.ticket # n BY <1>1, <1>3, <2>1, <3>2 DEF EntryOf
    <3> QED BY <3>1, <3>2
  <2> QED BY <1>1, <1>3, <1>5, <1>8, <2>1 DEF MailboxOK
<1>9. ASSUME NEW x, SeenOK(b, x)
      PROVE  SeenOK(c, x)
  BY <1>1, <1>3, <1>5, <1>9 DEF SeenOK
<1>10. DOMAIN c.entries = DOMAIN b.entries BY <1>1, <1>3
<1>11. c.entries[n] = e /\ \A u \in DOMAIN b.entries : u # n => c.entries[u] = b.entries[u]
  BY <1>1, <1>3
<1> QED BY <1>3, <1>4, <1>5, <1>6, <1>7, <1>8, <1>9, <1>10, <1>11 DEF c, f, Updates, PutAt

\* A step of service.
Serves(s, t) ==
  /\ Settles(s, t)
  /\ t.ok = s.ok /\ t.why = s.why
  /\ DOMAIN t.b.entries \subseteq DOMAIN s.b.entries

\* Servicing one entry after another.
LEMMA ServesChain ==
  ASSUME NEW s, NEW t, NEW u, Serves(s, t), Serves(t, u)
  PROVE  Serves(s, u)
BY SettlesChain DEF Serves

\* An entry that is left alone.
LEMMA ServesSame ==
  ASSUME NEW s, Base(s)
  PROVE  Serves(s, s)
BY SameSettles DEF Serves

\* An entry that is thrown out.
LEMMA DiscardServes ==
  ASSUME NEW s, Base(s), NEW n \in DOMAIN s.b.entries
  PROVE  Serves(s, DiscardEntry(s, n))
BY DiscardSettles DEF Serves

\* The state with another worker and one entry rewritten.
Rewritten(s, w, n, e) ==
  [s EXCEPT !.w = w, !.b = PutAt(s.b, n, e)]

\* An entry is rewritten while its job comes or goes.
LEMMA RewriteServes ==
  ASSUME NEW s, Base(s), NEW n \in DOMAIN s.b.entries, NEW e \in Entries,
         Later(s.b.entries[n], e),
         NEW w, NEW new, NEW gone, Works(s.w, w, new, gone),
         new \subseteq {NextRequest(s.w)}, new \subseteq {e.token} \ {Nil},
         {s.b.entries[n].token} \ {Nil} \subseteq gone
  PROVE  Serves(s, Rewritten(s, w, n, e)) /\ n \in DOMAIN Rewritten(s, w, n, e).b.entries
<1> DEFINE c == PutAt(s.b, n, e)
           t == Rewritten(s, w, n, e)
<1>0. s \in States /\ BrokerOK(s.b) /\ WorkerOK(s.w) BY DEF Base, Loose
<1>1. Updates(s.b, c, n, e) BY <1>0, PutEntry
<1>2. t = [s EXCEPT !.w = w, !.b = c] BY DEF Rewritten
<1> HIDE DEF c, t
<1>3. w \in Workers BY DEF Works, WorkerOK
<1>9. c \in Brokers BY <1>1 DEF Updates
<1>4. /\ t \in States /\ t.b = c /\ t.w = w /\ Differ(s, t, {"w", "b"})
      /\ t.ok = s.ok /\ t.why = s.why /\ t.lost = s.lost
  BY <1>0, <1>2, <1>3, <1>9 DEF States, Differ
<1>5. LiveIds(w) \subseteq Tokens(c) \cup PrepIds(s.a)
  <2>1. LiveIds(s.w) \subseteq Tokens(s.b) \cup PrepIds(s.a) BY DEF Base, Loose, SlotsOK
  <2>2. Nil \notin Tokens(s.b) BY DEF Tokens
  <2> QED BY <1>1, <2>1, <2>2 DEF Works, Updates
<1>6. MailboxOK(c, s.x, s.k) /\ SeenOK(c, s.x) BY <1>1 DEF Base, Loose, Updates
<1>7. Settles(s, t) BY <1>1, <1>4, <1>5, <1>6, ServeSettles DEF Updates
<1>8. Serves(s, t) /\ n \in DOMAIN t.b.entries BY <1>1, <1>4, <1>7 DEF Serves, Updates
<1> QED BY <1>8 DEF t

\* The job of a dispatch.
LEMMA ObserveJob ==
  ASSUME NEW id \in Sessions, NEW n \in Nat, NEW i \in Nat
  PROVE  NewJob(id, [kind |-> "observe", entry |-> n], {i}) \in Jobs
<1>1. [kind |-> "observe", entry |-> n] \in Tasks BY DEF Tasks
<1> QED BY <1>1 DEF NewJob, Jobs

\* submit_entry
LEMMA DispatchServes ==
  ASSUME NEW s, Base(s), NEW n \in DOMAIN s.b.entries, ~s.b.entries[n].claimed,
         ~Rejected(s.b, n), NEW launch
  PROVE  Serves(s, Dispatch(s, n, launch))
<1> DEFINE t == Dispatch(s, n, launch)
           id == NextRequest(s.w)
           job == NewJob(s.b.session, [kind |-> "observe", entry |-> n], {s.b.source.id})
           w == Submit(Allocate(s.w), id, job, launch)
           d == s.b.entries[n]
           e == [d EXCEPT !.claimed = TRUE, !.token = id]
           sent == Rewritten(s, w, n, e)
<1>0. s \in States /\ BrokerOK(s.b) /\ WorkerOK(s.w) BY DEF Base, Loose
<1>1. /\ s.b \in Brokers /\ s.b.entries \in [DOMAIN s.b.entries -> Entries]
      /\ d \in Entries /\ n \in Nat
  BY <1>0, BrokerType DEF BrokerOK
<1>2. job \in Jobs
  <2>1. s.b.session \in Sessions
    BY <1>0, <1>1 DEF BrokerOK, Entries, Requests
  <2>2. s.b.source.id \in Nat
    <3>1. s.b.authority # Nil BY DEF Rejected, Current
    <3>2. s.b.source \in Sources BY <1>0, <1>1, <3>1, BrokerType DEF BrokerOK
    <3> QED BY <3>2 DEF Sources
  <2> QED BY <1>1, <2>1, <2>2, ObserveJob
<1>3. sent = [s EXCEPT !.w = w, !.b.entries[n].claimed = TRUE, !.b.entries[n].token = id]
  BY <1>0, <1>1 DEF Rewritten, PutAt, States, Brokers
<1>4. t = IF ~CanAllocate(s.w) THEN DiscardEntry(s, n)
          ELSE IF Admission(Allocate(s.w), id) # "launched" \/ launch # "started"
               THEN DiscardEntry(sent, n)
          ELSE sent
  BY <1>3 DEF Dispatch
<1>5. Works(s.w, w, {id}, {}) BY <1>0, <1>2, WorksSubmit
<1>6. id \in Nat /\ id # Nil BY <1>0, NextRequestIsNew, NilIsNone
<1>10. id = NextRequest(s.w) OBVIOUS
<1>11. s.b.entries[n].token = Nil BY <1>0 DEF BrokerOK
<1> HIDE DEF w, id, t
<1>7. /\ e \in Entries /\ e.request = d.request /\ e.claimed /\ e.token = id
      /\ d.stop => e.stop
      /\ d.error => e.error
      /\ d.expired => e.expired
      /\ d.result => e.result
      /\ e.result => d.result
  BY <1>1, <1>6 DEF Entries
<1>12. ~d.result BY <1>0 DEF BrokerOK
<1> HIDE DEF e
<1>8. Serves(s, sent) /\ n \in DOMAIN sent.b.entries
  <2>1. {id} \subseteq {NextRequest(s.w)} /\ {id} \subseteq {e.token} \ {Nil}
        /\ {s.b.entries[n].token} \ {Nil} \subseteq {}
    BY <1>6, <1>7, <1>10, <1>11
  <2>2. Later(s.b.entries[n], e) BY <1>7, <1>12 DEF Later
  <2> HIDE DEF d
  <2> QED BY <1>5, <1>7, <2>1, <2>2, RewriteServes
<1> HIDE DEF sent
<1>9. Serves(sent, DiscardEntry(sent, n))
  BY <1>8, SettlesBase, DiscardServes DEF Serves
<1>13. Serves(s, DiscardEntry(s, n)) BY DiscardServes
<1>14. Serves(s, t) BY <1>4, <1>8, <1>9, <1>13, ServesChain
<1> QED BY <1>14 DEF t

\* What the worker says about the entry's job.
LEMMA CollectServes ==
  ASSUME NEW s, Base(s), NEW n \in DOMAIN s.b.entries, s.b.entries[n].token # Nil
  PROVE  Serves(s, Collect(s, n))
<1> DEFINE t == Collect(s, n)
           d == s.b.entries[n]
           token == d.token
           status == PollStatus(s.w, token)
           answer == s.w.jobs[token].result
           w == Poll(s.w, token, FALSE)
           polled == [s EXCEPT !.w = w]
           e == [d EXCEPT !.token = Nil]
           g == [e EXCEPT !.result = TRUE]
           taken == Rewritten(s, w, n, e)
           answered == Rewritten(s, w, n, g)
           failed == [DiscardEntry(taken, n) EXCEPT !.lost = @ \/ answer = "disconnected"]
<1>0. s \in States /\ BrokerOK(s.b) /\ WorkerOK(s.w) BY DEF Base, Loose
<1>1. /\ s.b \in Brokers /\ s.b.entries \in [DOMAIN s.b.entries -> Entries]
      /\ d \in Entries /\ n \in Nat
  BY <1>0, BrokerType DEF BrokerOK
<1>2. /\ Works(s.w, w, {}, {})
      /\ status = "delivered" => Works(s.w, w, {}, {token})
  BY <1>0, WorksPoll
<1>3. w \in Workers BY <1>2 DEF Works, WorkerOK
<1>4. status \in {"stale", "pending", "delivered"} BY DEF PollStatus
<1>5. taken = [polled EXCEPT !.b.entries[n].token = Nil]
  BY <1>0, <1>1 DEF Rewritten, PutAt, States, Brokers
<1>6. answered = [taken EXCEPT !.b.entries[n].result = TRUE]
  BY <1>0, <1>1 DEF Rewritten, PutAt, States, Brokers, Entries
<1>7. /\ e \in Entries /\ e.request = d.request /\ e.token = Nil
      /\ d.stop => e.stop
      /\ d.error => e.error
      /\ d.expired => e.expired
      /\ d.result => e.result
      /\ e.result => d.result
      /\ d.claimed => e.claimed
  BY <1>1 DEF Entries
<1>8. d.claimed BY <1>0 DEF BrokerOK
<1>9. /\ g \in Entries /\ g.request = e.request /\ g.token = Nil /\ g.result
      /\ e.stop => g.stop
      /\ e.error => g.error
      /\ e.expired => g.expired
      /\ e.claimed => g.claimed
  <2> HIDE DEF e
  <2> QED BY <1>7 DEF Entries
<1>10. t = CASE status = "pending" -> polled
             [] status = "stale" -> DiscardEntry(polled, n)
             [] status = "delivered" /\ answer # "ok" -> failed
             [] status = "delivered" /\ answer = "ok" -> answered
  BY <1>5, <1>6 DEF Collect
<1>11. Serves(s, polled) /\ polled.b = s.b
  <2> HIDE DEF w
  <2>1. polled.w = w /\ Differ(s, polled, {"w"}) /\ polled.ok = s.ok /\ polled.why = s.why
    BY <1>0, <1>3, PutW
  <2>2. polled.b = s.b BY <2>1 DEF Differ
  <2> HIDE DEF polled
  <2>3. Differ(s, polled, {"w", "b"}) /\ SameAuthority(s.b, polled.b) /\ BrokerOK(polled.b)
    BY <1>0, <2>1, <2>2 DEF Differ, SameAuthority
  <2>4. LiveIds(polled.w) \subseteq Tokens(polled.b) \cup PrepIds(s.a)
    BY <1>2, <2>1, <2>2 DEF Works, Base, Loose, SlotsOK
  <2>5. MailboxOK(polled.b, s.x, s.k) /\ SeenOK(polled.b, s.x)
    BY <2>2 DEF Base, Loose
  <2>6. Settles(s, polled)
    <3>1. {} \subseteq {NextRequest(s.w)} OBVIOUS
    <3> QED BY <1>2, <2>1, <2>3, <2>4, <2>5, <3>1, ServeSettles
  <2> QED BY <2>1, <2>2, <2>6 DEF Serves
<1>15. failed = [DiscardEntry(taken, n) EXCEPT
                   !.lost = DiscardEntry(taken, n).lost \/ answer = "disconnected"]
  OBVIOUS
<1> HIDE DEF polled, t, status, answer, failed, taken, answered
<1>12. CASE status = "pending"
  <2>1. t = polled BY <1>10, <1>12
  <2> QED BY <1>11, <2>1 DEF t
<1>13. CASE status = "stale"
  <2>1. t = DiscardEntry(polled, n) BY <1>10, <1>13
  <2>2. Serves(polled, DiscardEntry(polled, n))
    BY <1>11, SettlesBase, DiscardServes DEF Serves
  <2> QED BY <1>11, <2>1, <2>2, ServesChain DEF t
<1>14. CASE status = "delivered"
  <2>0. Works(s.w, w, {}, {token}) BY <1>2, <1>14
  <2>9. token = d.token OBVIOUS
  <2> HIDE DEF w, e, g, token
  <2>1. Serves(s, taken) /\ n \in DOMAIN taken.b.entries
    <3> USE DEF taken
    <3>1. {} \subseteq {NextRequest(s.w)} /\ {} \subseteq {e.token} \ {Nil}
          /\ {s.b.entries[n].token} \ {Nil} \subseteq {token}
      BY <2>9
    <3>2. Later(s.b.entries[n], e) BY <1>7, <1>8 DEF Later
    <3> HIDE DEF d
    <3> QED BY <2>0, <1>7, <3>1, <3>2, RewriteServes
  <2>2. Serves(s, answered)
    <3> USE DEF answered
    <3>1. {} \subseteq {NextRequest(s.w)} /\ {} \subseteq {g.token} \ {Nil}
          /\ {s.b.entries[n].token} \ {Nil} \subseteq {token}
      BY <2>9
    <3>2. Later(s.b.entries[n], g) BY <1>7, <1>8, <1>9 DEF Later
    <3> HIDE DEF d
    <3> QED BY <2>0, <1>9, <3>1, <3>2, RewriteServes
  <2>3. CASE answer # "ok"
    <3> DEFINE q == DiscardEntry(taken, n)
    <3>1. Serves(taken, q) BY <2>1, SettlesBase, DiscardServes DEF Serves
    <3>6. t = failed BY <1>10, <1>14, <2>3
    <3>2. t = [q EXCEPT !.lost = q.lost \/ answer = "disconnected"]
      BY <1>15, <3>6
    <3> HIDE DEF q
    <3>3. q \in States BY <3>1 DEF Serves, Settles, Advances, Loose
    <3>4. Differ(q, t, {}) /\ t.ok = q.ok /\ t.why = q.why
      <4>1. CASE q.lost \/ answer = "disconnected"
        <5>1. t = [q EXCEPT !.lost = TRUE] BY <3>2, <4>1
        <5> QED BY <3>3, <5>1 DEF States, Differ
      <4>2. CASE ~(q.lost \/ answer = "disconnected")
        <5>1. t = [q EXCEPT !.lost = FALSE] BY <3>2, <4>2
        <5> QED BY <3>3, <5>1 DEF States, Differ
      <4> QED BY <4>1, <4>2
    <3>5. Serves(q, t)
      <4>1. Base(q) BY <3>1, SettlesBase DEF Serves
      <4>2. Settles(q, t) BY <3>4, <4>1, OutcomeSettles
      <4> QED BY <3>4, <4>2 DEF Serves, Differ
    <3> QED BY <2>1, <3>1, <3>5, ServesChain DEF t
  <2>4. CASE answer = "ok"
    <3>1. t = answered BY <1>10, <1>14, <2>4
    <3> QED BY <2>2, <3>1 DEF t
  <2> QED BY <2>3, <2>4
<1> QED BY <1>4, <1>12, <1>13, <1>14

\* service_entry
LEMMA ServiceEntryServes ==
  ASSUME NEW s, Base(s), NEW n, NEW launch
  PROVE  Serves(s, ServiceIfKnown(s, n, launch))
<1>1. CASE n \notin DOMAIN s.b.entries BY <1>1, ServesSame DEF ServiceIfKnown
<1>2. CASE n \in DOMAIN s.b.entries /\ Rejected(s.b, n)
  BY <1>2, DiscardServes DEF ServiceIfKnown, ServiceEntry
<1>3. CASE n \in DOMAIN s.b.entries /\ ~Rejected(s.b, n)
  <2> DEFINE q == IF s.b.entries[n].claimed THEN s ELSE Dispatch(s, n, launch)
  <2>1. ServiceIfKnown(s, n, launch) = CollectIfSent(q, n)
    BY <1>3 DEF ServiceIfKnown, ServiceEntry
  <2>2. Serves(s, q) BY <1>3, ServesSame, DispatchServes
  <2> HIDE DEF q
  <2>3. Base(q) BY <2>2, SettlesBase DEF Serves
  <2>4. Serves(q, CollectIfSent(q, n))
    BY <2>3, ServesSame, CollectServes DEF CollectIfSent
  <2> QED BY <2>1, <2>2, <2>4, ServesChain
<1> QED BY <1>1, <1>2, <1>3
-----------------------------------------------------------------------------
(* service: one entry after the other. *)

\* Induction over the natural numbers, for a set instead of a predicate.
LEMMA Counting ==
  ASSUME NEW T, 0 \in T, \A n \in Nat : n \in T => n + 1 \in T
  PROVE  Nat \subseteq T
<1> SUFFICES ASSUME ~(Nat \subseteq T) PROVE FALSE OBVIOUS
<1> DEFINE U == Nat \ T
           R == OpToRel(<, Nat)
<1>1. IsWellFoundedOn(R, Nat) BY NatLessThanWellFounded, Zenon
<1>2. U \subseteq Nat /\ U # {} OBVIOUS
<1>3. \A y, x \in Nat : <<y, x>> \in R <=> y < x BY DEF OpToRel
<1> HIDE DEF R
<1>4. PICK n \in U : \A y \in U : ~ (<<y, n>> \in R) BY <1>1, <1>2, WFMin
<1>5. n # 0 BY <1>4
<1>6. n - 1 \in Nat /\ n - 1 < n BY <1>4, <1>5
<1>7. n - 1 \in T BY <1>3, <1>4, <1>6
<1>8. (n - 1) + 1 \in T BY <1>6, <1>7
<1> QED BY <1>8, <1>6, <1>4

\* A set of numbers with a bound has a largest one.
LEMMA LargestExists ==
  ASSUME NEW S, S \subseteq Nat, S # {}, NEW m \in Nat, \A n \in S : n <= m
  PROVE  Max(S) \in S /\ \A n \in S : n <= Max(S)
<1> DEFINE B == {j \in Nat : (\A n \in S : n <= j) => \E x \in S : \A y \in S : x >= y}
<1>1. 0 \in B
  <2> SUFFICES ASSUME \A n \in S : n <= 0 PROVE \E x \in S : \A y \in S : x >= y
    OBVIOUS
  <2>1. \A n \in S : n = 0 OBVIOUS
  <2>2. PICK x \in S : TRUE OBVIOUS
  <2>3. \A y \in S : x >= y BY <2>1
  <2> QED BY <2>3
<1>2. \A n \in Nat : n \in B => n + 1 \in B
  <2> TAKE n \in Nat
  <2> SUFFICES ASSUME n \in B, \A i \in S : i <= n + 1
               PROVE  \E x \in S : \A y \in S : x >= y
    OBVIOUS
  <2>1. CASE n + 1 \in S BY <2>1
  <2>2. CASE n + 1 \notin S
    <3>1. \A i \in S : i <= n BY <2>2
    <3> QED BY <3>1
  <2> QED BY <2>1, <2>2
<1> HIDE DEF B
<1>3. m \in B BY <1>1, <1>2, Counting
<1>4. \E x \in S : \A y \in S : x >= y BY <1>3 DEF B
<1>5. Max(S) \in S /\ \A y \in S : Max(S) >= y BY <1>4 DEF Max
<1> QED BY <1>5

ServedTable(f, s, m, launch) ==
  f = [t \in 0 .. m |-> IF t = 0 THEN s ELSE ServiceIfKnown(f[t - 1], t, launch)]

\* The recursion of service is well defined.
LEMMA TableExists ==
  ASSUME NEW s, NEW launch, NEW m \in Nat
  PROVE  \E f : ServedTable(f, s, m, launch)
<1> DEFINE T == {n \in Nat : \E f : ServedTable(f, s, n, launch)}
<1>1. 0 \in T
  <2> DEFINE f == [t \in 0 .. 0 |-> s]
  <2>1. ServedTable(f, s, 0, launch) BY DEF ServedTable
  <2> QED BY <2>1
<1>2. \A n \in Nat : n \in T => n + 1 \in T
  <2> TAKE n \in Nat
  <2> SUFFICES ASSUME NEW f, ServedTable(f, s, n, launch)
               PROVE  \E g : ServedTable(g, s, n + 1, launch)
    OBVIOUS
  <2> DEFINE g == [t \in 0 .. n + 1 |->
                     IF t <= n THEN f[t] ELSE ServiceIfKnown(f[n], n + 1, launch)]
  <2>1. ASSUME NEW t \in 0 .. n + 1
        PROVE  g[t] = IF t = 0 THEN s ELSE ServiceIfKnown(g[t - 1], t, launch)
    <3>1. CASE t = 0 BY <3>1 DEF ServedTable
    <3>2. CASE t # 0 /\ t <= n
      <4>1. t \in 0 .. n /\ t - 1 \in 0 .. n + 1 /\ t - 1 <= n BY <3>2
      <4>2. g[t] = f[t] /\ g[t - 1] = f[t - 1] BY <4>1
      <4>3. f[t] = ServiceIfKnown(f[t - 1], t, launch) BY <4>1, <3>2 DEF ServedTable
      <4> QED BY <4>2, <4>3, <3>2
    <3>3. CASE t = n + 1
      <4>1. ~(t <= n) /\ t - 1 = n /\ n \in 0 .. n + 1 /\ t # 0 BY <3>3
      <4>2. g[t] = ServiceIfKnown(f[n], n + 1, launch) BY <4>1, <3>3
      <4>3. g[n] = f[n] BY <4>1
      <4> QED BY <4>1, <4>2, <4>3, <3>3
    <3> QED BY <3>1, <3>2, <3>3
  <2>2. g = [t \in 0 .. n + 1 |-> g[t]] OBVIOUS
  <2> HIDE DEF g
  <2>3. ServedTable(g, s, n + 1, launch) BY <2>1, <2>2 DEF ServedTable
  <2> QED BY <2>3
<1> HIDE DEF T
<1>3. m \in T BY <1>1, <1>2, Counting
<1> QED BY <1>3 DEF T

\* service, as the last value of such a table.
LEMMA ServiceTable ==
  ASSUME NEW s, NEW launch, NEW last, last = Max(DOMAIN s.b.entries \cup {0}), last \in Nat
  PROVE  \E f : ServedTable(f, s, last, launch) /\ Service(s, launch) = f[last]
<1> DEFINE f[t \in 0 .. last] ==
             IF t = 0 THEN s ELSE ServiceIfKnown(f[t - 1], t, launch)
<1>1. Service(s, launch) = f[last] BY DEF Service
<1>2. f = CHOOSE g : ServedTable(g, s, last, launch) BY DEF ServedTable
<1>3. \E g : ServedTable(g, s, last, launch) BY TableExists
<1>4. ServedTable(f, s, last, launch) BY <1>2, <1>3
<1> QED BY <1>1, <1>4

\* service, over all entries there are.
LEMMA ServiceServes ==
  ASSUME NEW s, Base(s), NEW launch
  PROVE  Serves(s, Service(s, launch))
<1> DEFINE D == DOMAIN s.b.entries \cup {0}
           last == Max(D)
<1>1. /\ s \in States /\ MailboxOK(s.b, s.x, s.k) BY DEF Base, Loose
<1>2. D \subseteq Nat /\ s.k.runs \in Nat
  BY <1>1, PartTypes, BrokerType, KernelType
<1>3. \A n \in D : n <= s.k.runs BY <1>1, <1>2 DEF MailboxOK
<1>4. last \in D BY <1>2, <1>3, LargestExists
<1>5. last \in Nat BY <1>2, <1>4
<1>6. last = Max(DOMAIN s.b.entries \cup {0}) OBVIOUS
<1> HIDE DEF last, D
<1>7. PICK f : ServedTable(f, s, last, launch) /\ Service(s, launch) = f[last]
  BY <1>5, <1>6, ServiceTable
<1> DEFINE T == {n \in Nat : n <= last => Serves(s, f[n])}
<1>8. 0 \in T
  <2>1. 0 \in 0 .. last BY <1>5
  <2>2. f[0] = s BY <2>1, <1>7 DEF ServedTable
  <2>3. Serves(s, f[0]) BY <2>2, ServesSame
  <2> QED BY <2>3
<1>9. \A n \in Nat : n \in T => n + 1 \in T
  <2> TAKE n \in Nat
  <2> SUFFICES ASSUME n \in T, n + 1 <= last PROVE Serves(s, f[n + 1])
    OBVIOUS
  <2>1. n + 1 \in 0 .. last /\ n + 1 # 0 /\ (n + 1) - 1 = n /\ n <= last BY <1>5
  <2>2. f[n + 1] = ServiceIfKnown(f[(n + 1) - 1], n + 1, launch)
    BY <2>1, <1>7 DEF ServedTable
  <2>3. f[n + 1] = ServiceIfKnown(f[n], n + 1, launch) BY <2>1, <2>2
  <2>4. Serves(s, f[n]) BY <2>1
  <2>5. Base(f[n]) BY <2>4, SettlesBase DEF Serves
  <2>6. Serves(f[n], f[n + 1]) BY <2>3, <2>5, ServiceEntryServes
  <2> QED BY <2>4, <2>6, ServesChain
<1> HIDE DEF T
<1>10. last \in T BY <1>5, <1>8, <1>9, Counting
<1>11. Serves(s, f[last]) BY <1>10, <1>5 DEF T
<1> QED BY <1>7, <1>11
-----------------------------------------------------------------------------
(* The chat session. *)

\* service with the note that a source was lost.
LEMMA ServiceAndNoteSettles ==
  ASSUME NEW s, Base(s), NEW launch
  PROVE  Settles(s, ServiceAndNote(s, launch))
<1> DEFINE r == [s EXCEPT !.lost = FALSE]
           u == Service(r, launch)
<1>1. Differ(s, r, {}) BY DEF Base, Loose, States, Differ
<1>2. Settles(s, r) BY <1>1, OutcomeSettles
<1>3. Base(r) BY <1>2, SettlesBase
<1> HIDE DEF r
<1>4. Settles(r, u) BY <1>3, ServiceServes DEF Serves
<1>5. Settles(s, u) /\ Base(u) BY <1>2, <1>4, SettlesChain, SettlesBase
<1> HIDE DEF u
<1>6. NoteLoss(u) = u \/ NoteLoss(u) = Fail(u, "other") BY DEF NoteLoss
<1>7. Settles(u, NoteLoss(u)) BY <1>5, <1>6, SameSettles, FailSettles DEF Failures
<1>8. Settles(s, NoteLoss(u)) BY <1>5, <1>7, SettlesChain
<1> QED BY <1>8 DEF ServiceAndNote, u, r

\* The failure of a service cancels the manual run.
LEMMA CancelFailedSettles ==
  ASSUME NEW s, Base(s), NEW stored \in BOOLEAN
  PROVE  Settles(s, CancelFailed(s, stored))
<1>1. CASE s.ok \/ ~ManualActive(s.k) BY <1>1, SameSettles DEF CancelFailed
<1>2. CASE ~(s.ok \/ ~ManualActive(s.k))
  <2> DEFINE u == CancelRun(s, stored)
  <2>1. s.k.run # Nil BY <1>2 DEF ManualActive
  <2>2. Settles(s, u) BY <2>1, CancelSettles
  <2>3. Base(u) /\ s.why \in Failures BY <2>2, SettlesBase, PartTypes DEF Base, Loose
  <2>4. CancelFailed(s, stored) = KeepFailure(u, s.why) BY <1>2 DEF CancelFailed
  <2> HIDE DEF u
  <2>5. Settles(u, KeepFailure(u, s.why))
    BY <2>3, SameSettles, FailSettles DEF KeepFailure
  <2> QED BY <2>2, <2>4, <2>5, SettlesChain
<1> QED BY <1>1, <1>2

\* service, and the cancellation its failure asks for.
LEMMA ServiceSessionSettles ==
  ASSUME NEW s, Base(s), NEW launch, NEW stored \in BOOLEAN
  PROVE  Settles(s, ServiceSession(s, launch, stored))
<1> DEFINE u == ServiceAndNote(s, launch)
<1>1. Settles(s, u) BY ServiceAndNoteSettles
<1>2. Base(u) BY <1>1, SettlesBase
<1> HIDE DEF u
<1>3. Settles(u, CancelFailed(u, stored)) BY <1>2, CancelFailedSettles
<1>4. Settles(s, CancelFailed(u, stored)) BY <1>1, <1>3, SettlesChain
<1> QED BY <1>4 DEF u, ServiceSession

\* The drain of a manual run keeps the outcome of what came before.
LEMMA DrainManualSettles ==
  ASSUME NEW s, Base(s), NEW stored \in BOOLEAN
  PROVE  Settles(s, DrainManual(s, stored))
<1>1. CASE ~ManualActive(s.k) BY <1>1, SameSettles DEF DrainManual
<1>2. CASE ManualActive(s.k)
  <2> DEFINE u == Drain(s, stored)
             v == KeepOutcome(u, s.ok, s.why)
  <2>1. Settles(s, u) BY DrainSettles
  <2>2. Base(u) BY <2>1, SettlesBase
  <2>3. s \in States /\ u \in States BY <2>2 DEF Base, Loose
  <2> HIDE DEF u
  <2>4. Differ(u, [u EXCEPT !.ok = s.ok, !.why = s.why], {})
    <3>1. CASE s.ok
      <4>1. Differ(u, [u EXCEPT !.ok = TRUE, !.why = s.why], {})
        BY <2>3, PartTypes DEF States, Differ
      <4>2. s.ok = TRUE BY <3>1, <2>3 DEF States
      <4> QED BY <4>1, <4>2
    <3>2. CASE ~s.ok
      <4>1. Differ(u, [u EXCEPT !.ok = FALSE, !.why = s.why], {})
        BY <2>3, PartTypes DEF States, Differ
      <4>2. s.ok = FALSE BY <3>2, <2>3 DEF States
      <4> QED BY <4>1, <4>2
    <3> QED BY <3>1, <3>2
  <2>5. Settles(u, v)
    <3>1. CASE u.ok BY <3>1, <2>2, <2>4, OutcomeSettles DEF KeepOutcome
    <3>2. CASE ~u.ok BY <3>2, <2>2, SameSettles DEF KeepOutcome
    <3> QED BY <3>1, <3>2
  <2>6. Settles(s, v) BY <2>1, <2>5, SettlesChain
  <2> QED BY <1>2, <2>6 DEF u, DrainManual
<1> QED BY <1>1, <1>2

\* pump_observations
LEMMA PumpSessionSettles ==
  ASSUME NEW s, Base(s), NEW launch, NEW stored \in BOOLEAN
  PROVE  Settles(s, PumpSession(s, launch, stored))
<1> DEFINE begun == IF s.k.problem = Nil THEN Ok(s) ELSE Fail(s, s.k.problem)
           u1 == Synchronize(begun)
           u2 == ServiceSession(u1, launch, stored)
           u3 == DrainManual(u2, stored)
           u4 == ServiceSession(u3, launch, stored)
           u5 == Synchronize(u4)
<1>0. s.k.problem \in Failures BY PartTypes, KernelType DEF Base, Loose
<1>1. Settles(s, begun) BY <1>0, OkSettles, FailSettles
<1>2. Base(begun) BY <1>1, SettlesBase
<1> HIDE DEF begun
<1>3. Settles(s, u1) /\ Base(u1) BY <1>1, <1>2, SynchronizeSettles, SettlesChain, SettlesBase
<1> HIDE DEF u1
<1>4. Settles(u1, u2) BY <1>3, ServiceSessionSettles
<1>5. Settles(s, u2) /\ Base(u2) BY <1>3, <1>4, SettlesChain, SettlesBase
<1> HIDE DEF u2
<1>6. Settles(u2, u3) BY <1>5, DrainManualSettles
<1>7. Settles(s, u3) /\ Base(u3) BY <1>5, <1>6, SettlesChain, SettlesBase
<1> HIDE DEF u3
<1>8. Settles(u3, u4) BY <1>7, ServiceSessionSettles
<1>9. Settles(s, u4) /\ Base(u4) BY <1>7, <1>8, SettlesChain, SettlesBase
<1> HIDE DEF u4
<1>10. Settles(u4, u5) BY <1>9, SynchronizeSettles
<1>11. Settles(s, u5) /\ Base(u5) BY <1>9, <1>10, SettlesChain, SettlesBase
<1> HIDE DEF u5
<1>12. Settles(u5, CloseIfFailed(u5)) BY <1>11, CloseIfFailedSettles
<1>13. Settles(s, CloseIfFailed(u5)) BY <1>11, <1>12, SettlesChain
<1> QED BY <1>13 DEF PumpSession, u5, u4, u3, u2, u1, begun

\* cancel_observation
LEMMA CancelObservationSettles ==
  ASSUME NEW s, Base(s), NEW run, NEW stored \in BOOLEAN
  PROVE  Settles(s, CancelObservation(s, run, stored))
<1>1. CASE ~ManualActive(s.k) \/ s.k.manual.run # run
  BY <1>1, FailSettles DEF CancelObservation, Failures
<1>2. CASE ~(~ManualActive(s.k) \/ s.k.manual.run # run)
  <2> DEFINE u == CancelRun(s, stored)
             v == SynchronizeIfOk(u)
  <2>1. s.k.run # Nil BY <1>2 DEF ManualActive
  <2>2. Settles(s, u) BY <2>1, CancelSettles
  <2>3. Base(u) BY <2>2, SettlesBase
  <2> HIDE DEF u
  <2>4. Settles(u, v) BY <2>3, SynchronizeIfOkSettles
  <2>5. Settles(s, v) /\ Base(v) BY <2>2, <2>4, SettlesChain, SettlesBase
  <2> HIDE DEF v
  <2>6. Settles(v, CloseIfFailed(v)) BY <2>5, CloseIfFailedSettles
  <2>7. Settles(s, CloseIfFailed(v)) BY <2>5, <2>6, SettlesChain
  <2> QED BY <1>2, <2>7 DEF CancelObservation, v, u
<1> QED BY <1>1, <1>2

\* A start after a step that changes no authority is a start.
LEMMA SettlesThenStarts ==
  ASSUME NEW s, NEW t, NEW u, Settles(s, t), Starts(t, u), t.h = s.h
  PROVE  Starts(s, u)
<1>1. SameAuthority(s.b, t.b) /\ t.k.tool = s.k.tool /\ t.a = s.a
  BY DEF Settles, Advances, ProjectionStep
<1>2. \A r : Preflight(t.b, r) <=> Preflight(s.b, r) BY <1>1, CurrentKept
<1>3. HistoryStep(s.b, s.h, u.h) BY <1>2 DEF Starts, HistoryStep
<1>4. SameAuthority(s.b, u.b) BY <1>1 DEF Starts, SameAuthority
<1> QED BY <1>1, <1>2, <1>3, <1>4 DEF Starts

\* report_observation_kernel_failure passes a failure of the store on.
LEMMA StorageReported ==
  ASSUME NEW s, s \in States, ~s.ok, s.why = "storage"
  PROVE  LET t == ReportKernelFailure(s) IN ~t.ok /\ t.why = "storage"
BY DEF ReportKernelFailure, CloseAdmission, FatalFailures, Fail, States

\* submit_observation starts a run or leaves everything as it was.
LEMMA SubmitStarts ==
  ASSUME NEW s, Base(s), NEW target, NEW gen, NEW op \in Operations, NEW policy,
         NEW stored \in BOOLEAN, NEW launched \in BOOLEAN
  PROVE  StartsOrFails(s, SubmitObservation(s, target, gen, op, policy, stored, launched))
<1> DEFINE r == Synchronize(s)
           t == SubmitObservation(s, target, gen, op, policy, stored, launched)
<1>1. Settles(s, r) /\ Base(r) /\ Differ(s, r, {"k"})
  BY SynchronizeSettles, SettlesBase
<1>2. CASE s.k.problem # Nil \/ ~s.k.available
  BY <1>2, FailSettles DEF SubmitObservation, StartsOrFails, Failures
<1>3. CASE ~(s.k.problem # Nil \/ ~s.k.available) /\ s.k.run # Nil
  <2>1. t = Fail(r, "other") BY <1>3 DEF SubmitObservation
  <2> HIDE DEF r, t
  <2>2. Settles(r, t) /\ ~t.ok BY <1>1, <2>1, FailSettles DEF Failures
  <2>3. Settles(s, t) BY <1>1, <2>2, SettlesChain
  <2> QED BY <2>2, <2>3 DEF StartsOrFails, t
<1>4. CASE ~(s.k.problem # Nil \/ ~s.k.available) /\ s.k.run = Nil
  <2> DEFINE p == StartObservation(r, target, gen, op, policy, stored, launched)
             q == SynchronizeIfOk(p)
  <2>1. t = ReportKernelFailure(q) BY <1>4 DEF SubmitObservation
  <2> HIDE DEF r, t
  <2>2. StartsOrFails(r, p) BY <1>1, StartObservationStarts
  <2> HIDE DEF p
  <2>3. Base(p) BY <2>2, SettlesBase DEF StartsOrFails, Starts
  <2>4. Settles(p, q) /\ q.ok = p.ok BY <2>3, SynchronizeIfOkSettles
  <2> HIDE DEF q
  <2>5. Base(q) BY <2>4, SettlesBase
  <2>6. Settles(q, t) /\ (q.ok => t = q) /\ (~q.ok => ~t.ok)
    BY <2>1, <2>5, ReportKernelSettles
  <2>7. Settles(p, t) BY <2>4, <2>6, SettlesChain
  <2>8. CASE p.ok
    <3>1. Starts(r, t) BY <2>2, <2>7, <2>8, StartsThenSettles DEF StartsOrFails
    <3>2. r.h = s.h BY <1>1 DEF Differ
    <3>3. Starts(s, t) BY <1>1, <3>1, <3>2, SettlesThenStarts
    <3>4. t.ok BY <2>4, <2>6, <2>8
    <3> QED BY <3>3, <3>4 DEF StartsOrFails, t
  <2>9. CASE ~p.ok /\ Settles(r, p)
    <3>1. Settles(s, t) BY <1>1, <2>7, <2>9, SettlesChain
    <3>2. ~t.ok BY <2>4, <2>6, <2>9
    <3> QED BY <3>1, <3>2 DEF StartsOrFails, t
  <2>10. CASE ~p.ok /\ Starts(r, p) /\ p.why = "storage"
    <3>1. Starts(r, t) BY <2>7, <2>10, StartsThenSettles
    <3>2. r.h = s.h BY <1>1 DEF Differ
    <3>3. Starts(s, t) BY <1>1, <3>1, <3>2, SettlesThenStarts
    <3>4. q = p BY <2>10 DEF q, SynchronizeIfOk
    <3>6. p \in States BY <2>3 DEF Base, Loose
    <3>5. t.why = "storage" /\ ~t.ok BY <2>1, <2>10, <3>4, <3>6, StorageReported
    <3> QED BY <3>3, <3>5 DEF StartsOrFails, t
  <2> QED BY <2>2, <2>8, <2>9, <2>10 DEF StartsOrFails
<1> QED BY <1>2, <1>3, <1>4
-----------------------------------------------------------------------------
(* What the controller does to the broker. *)

\* The mailbox loses entries at most, and no rejection is taken back.
Keeps(b, c) ==
  /\ DOMAIN c.entries \subseteq DOMAIN b.entries
  /\ \A n \in DOMAIN c.entries :
       c.entries[n] = b.entries[n] /\ (Rejected(b, n) => Rejected(c, n))

\* What the mailbox says about the executor survives.
LEMMA KeepsMailbox ==
  ASSUME NEW b, NEW c, NEW x, NEW k, NEW l, Keeps(b, c), MailboxOK(b, x, k),
         SeenOK(b, x), l.run = k.run, l.runs = k.runs
  PROVE  MailboxOK(c, x, l) /\ SeenOK(c, x)
<1>1. SeenOK(c, x) BY DEF SeenOK, Keeps
<1>2. x # Nil => EntryOf(c, x, l) BY DEF MailboxOK, EntryOf, Keeps
<1>3. \A n \in DOMAIN c.entries :
        n <= l.runs /\ ((x # Nil /\ x.ticket = n) \/ Rejected(c, n))
  BY DEF MailboxOK, Keeps
<1>4. (l.run # Nil /\ l.run.phase \in {"proposed", "approval"}) =>
        l.runs \notin DOMAIN c.entries
  BY DEF MailboxOK, Keeps
<1> QED BY <1>1, <1>2, <1>3, <1>4 DEF MailboxOK

\* A step that leaves the run and its executor alone.
LEMMA Rearranged ==
  ASSUME NEW s, NEW t, Base(s), t \in States, t.x = s.x,
         t.k.run = s.k.run, t.k.runs = s.k.runs, t.k.manual = s.k.manual,
         t.k.success = s.k.success, WorkerOK(t.w), BrokerOK(t.b), Keeps(s.b, t.b),
         SlotsOK(t.w, t.b, t.a), PlaceOK(t.b, t.a)
  PROVE  Base(t)
<1>1. MailboxOK(t.b, t.x, t.k) /\ SeenOK(t.b, t.x)
  BY KeepsMailbox DEF Base, Loose
<1>2. RunOK(t.k, t.x) BY DEF Base, Loose, RunOK
<1>3. SettledOK(t.k, t.x) BY DEF Base, SettledOK, HandledOK
<1> QED BY <1>1, <1>2, <1>3 DEF Base, Loose

\* The parts of a broker that a change of the consent leaves alone.
SameButConsent(b, c) ==
  /\ c \in Brokers
  /\ c.session = b.session /\ c.epoch = b.epoch /\ c.closed = b.closed
  /\ c.entries = b.entries /\ c.authority = b.authority /\ c.source = b.source

\* A consent that is not the one for the authority makes no request current.
LEMMA NoneCurrent ==
  ASSUME NEW c, ~c.consent.active \/ c.consent.current # c.authority \/ c.authority = Nil
  PROVE  AllRejected(c) /\ \A r : ~Preflight(c, r)
BY DEF AllRejected, Rejected, Current, ConsentMatches, Preflight

\* A consent that is withdrawn, or is for another selection than the broker's,
\* rejects every entry.
LEMMA ConsentChanged ==
  ASSUME NEW b, NEW c, BrokerOK(b), SameButConsent(b, c),
         c.consent.current # Nil \/ b.consent.current = Nil,
         ~c.consent.active \/ c.consent.current # c.authority \/ c.authority = Nil
  PROVE  /\ BrokerOK(c) /\ Keeps(b, c) /\ AllRejected(c) /\ Tokens(c) = Tokens(b)
         /\ \A r : ~Preflight(c, r)
<1>1. AllRejected(c) /\ \A r : ~Preflight(c, r) BY NoneCurrent
<1>2. BrokerOK(c) BY DEF BrokerOK, SameButConsent
<1>3. Tokens(c) = Tokens(b) BY DEF Tokens, SameButConsent
<1>4. Keeps(b, c) BY <1>1 DEF Keeps, SameButConsent, AllRejected
<1> QED BY <1>1, <1>2, <1>3, <1>4

\* revoke
LEMMA RevokedConsent ==
  ASSUME NEW b, BrokerOK(b)
  PROVE  LET c == RevokeConsent(b)
         IN /\ SameButConsent(b, c) /\ ~c.consent.active
            /\ BrokerOK(c) /\ Keeps(b, c) /\ AllRejected(c) /\ Tokens(c) = Tokens(b)
<1> DEFINE c == RevokeConsent(b)
           r == IF b.consent.current = Nil THEN Nil
                ELSE [b.consent.current EXCEPT !.logs = FALSE]
           q == [b.consent EXCEPT !.active = FALSE, !.current = r]
<1>0. b \in Brokers /\ b.consent \in Consents /\ b.consent.current \in Authorities \cup {Nil}
  BY BrokerType DEF BrokerOK
<1>1. c = [b EXCEPT !.consent = q] BY <1>0 DEF RevokeConsent, Brokers, Consents
<1>2. r \in Authorities \cup {Nil} /\ (b.consent.current # Nil => r # Nil)
  <2>1. CASE b.consent.current = Nil BY <2>1
  <2>2. CASE b.consent.current # Nil
    <3>1. b.consent.current \in Authorities BY <1>0, <2>2
    <3>2. r \in Authorities BY <2>2, <3>1 DEF Authorities
    <3> QED BY <3>2, NilIsNone
  <2> QED BY <2>1, <2>2
<1> HIDE DEF r
<1>3. q \in Consents /\ ~q.active /\ q.current = r BY <1>0, <1>2 DEF Consents
<1> HIDE DEF q
<1>4. c \in Brokers /\ c.consent = q /\ SameButConsent(b, c)
  BY <1>0, <1>1, <1>3 DEF Brokers, SameButConsent
<1> HIDE DEF c
<1>5. c.consent.current # Nil \/ b.consent.current = Nil BY <1>2, <1>3, <1>4
<1>6. ~c.consent.active BY <1>3, <1>4
<1>7. /\ BrokerOK(c) /\ Keeps(b, c) /\ AllRejected(c) /\ Tokens(c) = Tokens(b)
  BY <1>4, <1>5, <1>6, ConsentChanged
<1> QED BY <1>4, <1>6, <1>7 DEF c

\* What is left of the controller's state.
LEMMA WithoutAuthorityFields ==
  ASSUME NEW a \in Admins
  PROVE  LET c == WithoutAuthority(a)
         IN /\ c \in Admins
            /\ ~c.consent /\ c.source = Nil /\ c.active = Nil
            /\ c.logs = "unavailable" /\ c.current = Nil
            /\ c.session = a.session /\ c.epoch = a.epoch /\ c.gen = a.gen
            /\ c.prep = a.prep /\ c.health = a.health
BY DEF WithoutAuthority, Admins

\* The histories record the same observations.
SameLatest(h, g) == \A id \in Sessions : g[id].latest = h[id].latest

\* A controller without an authority matches every broker.
LEMMA NothingMatches ==
  ASSUME NEW b, NEW k, NEW a, a.active = Nil, ~a.consent, a.source = Nil,
         a.current = Nil, a.logs = "unavailable"
  PROVE  Matches(b, k, a)
BY DEF Matches

\* revoke_current_authority
LEMMA Revokes ==
  ASSUME NEW s, Base(s)
  PROVE  LET t == RevokeAuthority(s)
         IN /\ Good(t) /\ Differ(s, t, {"b", "a"}) /\ t.a = WithoutAuthority(s.a)
            /\ \A r : Preflight(t.b, r) => Preflight(s.b, r)
            /\ t.ok = s.ok /\ t.why = s.why /\ t.lost = s.lost
            /\ t.b.session = s.b.session /\ t.b.epoch = s.b.epoch
            /\ Tokens(t.b) = Tokens(s.b)
<1> DEFINE a == WithoutAuthority(s.a)
           c == IF s.a.consent THEN RevokeConsent(s.b) ELSE s.b
           t == RevokeAuthority(s)
<1>0. /\ s \in States /\ s.a \in Admins /\ s.b \in Brokers
      /\ BrokerOK(s.b) /\ PlaceOK(s.b, s.a) /\ WorkerOK(s.w) /\ SlotsOK(s.w, s.b, s.a)
  BY PartTypes DEF Base, Loose
<1>1. /\ a \in Admins /\ ~a.consent /\ a.source = Nil /\ a.active = Nil
      /\ a.logs = "unavailable" /\ a.current = Nil
      /\ a.session = s.a.session /\ a.epoch = s.a.epoch /\ a.prep = s.a.prep
  BY <1>0, WithoutAuthorityFields
<1>2. /\ SameButConsent(s.b, c) /\ BrokerOK(c) /\ Keeps(s.b, c)
      /\ Tokens(c) = Tokens(s.b) /\ (\A r : Preflight(c, r) => Preflight(s.b, r))
      /\ ~c.consent.active \/ c.consent.current = Nil
  <2>1. CASE s.a.consent BY <2>1, <1>0, RevokedConsent, NoneCurrent
  <2>2. CASE ~s.a.consent BY <2>2, <1>0 DEF SameButConsent, Keeps, PlaceOK
  <2> QED BY <2>1, <2>2
<1>3. t = [s EXCEPT !.a = a, !.b = c] BY DEF RevokeAuthority
<1> HIDE DEF a, c
<1>4. t \in States /\ t.a = a /\ t.b = c /\ Differ(s, t, {"b", "a"})
      /\ t.ok = s.ok /\ t.why = s.why /\ t.lost = s.lost
  BY <1>0, <1>1, <1>2, <1>3 DEF States, Differ, SameButConsent
<1> HIDE DEF t
<1>5. PlaceOK(c, a) BY <1>0, <1>1, <1>2 DEF PlaceOK, SameButConsent
<1>6. SlotsOK(s.w, c, a) BY <1>0, <1>1, <1>2 DEF SlotsOK, PrepIds
<1>7. t.w = s.w /\ t.x = s.x /\ t.k = s.k BY <1>4 DEF Differ
<1>8. Base(t) BY <1>0, <1>2, <1>4, <1>5, <1>6, <1>7, Rearranged
<1>9. Matches(t.b, t.k, t.a) BY <1>1, <1>4, NothingMatches
<1>10. t.a = WithoutAuthority(s.a) BY <1>4 DEF a
<1> QED BY <1>2, <1>4, <1>8, <1>9, <1>10 DEF Good, t, SameButConsent

\* What a controller shows, but for the outcome of its last read.
SameShown(a, c) ==
  /\ c.session = a.session /\ c.epoch = a.epoch /\ c.gen = a.gen /\ c.rev = a.rev
  /\ c.prep = a.prep /\ c.source = a.source /\ c.active = a.active
  /\ c.logs = a.logs /\ c.current = a.current
  /\ c.consent <=> a.consent

\* Such a change breaks nothing.
LEMMA ShownKept ==
  ASSUME NEW s, NEW t, Base(s), Differ(s, t, {"a"}), SameShown(s.a, t.a)
  PROVE  Base(t) /\ (Matches(s.b, s.k, s.a) => Matches(t.b, t.k, t.a))
<1>1. /\ t \in States /\ t.w = s.w /\ t.b = s.b /\ t.x = s.x /\ t.k = s.k /\ t.h = s.h
  BY DEF Differ
<1>2. SlotsOK(t.w, t.b, t.a) BY <1>1 DEF Base, Loose, SlotsOK, PrepIds, SameShown
<1>3. PlaceOK(t.b, t.a) BY <1>1 DEF Base, Loose, PlaceOK, SameShown
<1>4. Base(t) BY <1>1, <1>2, <1>3 DEF Base, Loose
<1>5. Agrees(s.b, s.k, s.a) => Agrees(t.b, t.k, t.a) BY <1>1 DEF Agrees, SameShown
<1>6. Matches(s.b, s.k, s.a) => Matches(t.b, t.k, t.a)
  BY <1>1, <1>5 DEF Matches, SameShown
<1> QED BY <1>4, <1>6

\* A call of the controller: nothing is broken, no authority appears, and
\* unless it fails the authority and what is shown of it stay.
Handles(s, t) ==
  /\ Base(t)
  /\ Matches(s.b, s.k, s.a) => Matches(t.b, t.k, t.a)
  /\ HistoryStep(s.b, s.h, t.h)
  /\ \A r : Preflight(t.b, r) => Preflight(s.b, r)
  /\ t.a.prep = s.a.prep
  /\ s.k.run = Nil => t.k.run = Nil
  /\ t.ok => SameAuthority(s.b, t.b) /\ t.k.tool = s.k.tool /\ SameShown(s.a, t.a)

\* Calls compose, when the second one does not hide the failure of the first.
LEMMA HandlesChain ==
  ASSUME NEW s, NEW t, NEW u, Handles(s, t), Handles(t, u), u.ok => t.ok
  PROVE  Handles(s, u)
<1>1. HistoryStep(s.b, s.h, u.h) BY DEF Handles, HistoryStep
<1>2. u.ok => SameAuthority(s.b, u.b) BY DEF Handles, SameAuthority
<1>3. u.ok => SameShown(s.a, u.a) BY DEF Handles, SameShown
<1> QED BY <1>1, <1>2, <1>3 DEF Handles

\* What the session does is such a call.
LEMMA SettlesHandles ==
  ASSUME NEW s, NEW t, Base(s), Settles(s, t), s.k.run = Nil => t.k.run = Nil
  PROVE  Handles(s, t)
<1>1. Base(t) /\ Advances(s, t) BY SettlesBase
<1>2. SameAuthority(s.b, t.b) /\ t.a = s.a /\ HistoryStep(s.b, s.h, t.h) /\ t.k.tool = s.k.tool
  BY <1>1 DEF Advances, ProjectionStep
<1>3. \A r : Preflight(t.b, r) => Preflight(s.b, r) BY <1>2, CurrentKept
<1>4. Matches(s.b, s.k, s.a) => Matches(t.b, t.k, t.a) BY <1>1, AdvancesMatch DEF Base
<1>5. SameShown(s.a, t.a) BY <1>2 DEF SameShown
<1> QED BY <1>1, <1>2, <1>3, <1>4, <1>5 DEF Handles

\* A handler that changes the outcome only.
LEMMA SameHandles ==
  ASSUME NEW s, NEW t, Base(s), Differ(s, t, {})
  PROVE  Handles(s, t)
BY OutcomeSettles, SettlesHandles DEF Differ

\* A handler that only fails.
LEMMA FailHandles ==
  ASSUME NEW s, Base(s), NEW why \in Failures
  PROVE  Handles(s, Fail(s, why)) /\ ~Fail(s, why).ok
BY PutFail, SameHandles DEF Base, Loose

\* A handler that only succeeds.
LEMMA OkHandles ==
  ASSUME NEW s, Base(s)
  PROVE  Handles(s, Ok(s)) /\ Ok(s).ok
BY PutOk, SameHandles DEF Base, Loose

\* Only the outcome of the last read changes.
LEMMA ShownHandles ==
  ASSUME NEW s, NEW t, Base(s), Differ(s, t, {"a"}), SameShown(s.a, t.a)
  PROVE  Handles(s, t)
<1>1. t.b = s.b /\ t.k = s.k /\ t.h = s.h BY DEF Differ
<1>2. Base(t) /\ (Matches(s.b, s.k, s.a) => Matches(t.b, t.k, t.a)) BY ShownKept
<1> QED BY <1>1, <1>2 DEF Handles, HistoryStep, SameAuthority, SameShown

\* fail_closed
LEMMA FailClosedHandles ==
  ASSUME NEW s, Base(s)
  PROVE  LET t == FailClosed(s)
         IN /\ Handles(s, t) /\ Good(t) /\ ~t.ok /\ t.h = s.h /\ t.k = s.k /\ t.x = s.x
            /\ t.w = s.w
<1> DEFINE r == RevokeAuthority(s)
           a == [r.a EXCEPT !.fatal = TRUE]
           t == FailClosed(s)
<1>1. /\ Good(r) /\ Differ(s, r, {"b", "a"}) /\ r.a = WithoutAuthority(s.a)
      /\ \A q : Preflight(r.b, q) => Preflight(s.b, q)
  BY Revokes
<1>2. Base(r) /\ Matches(r.b, r.k, r.a) /\ r \in States /\ r.a \in Admins
  BY <1>1, PartTypes DEF Good, Base, Loose
<1>3. t = [r EXCEPT !.a = a, !.ok = FALSE] BY <1>2 DEF FailClosed, States
<1>8. r.a.prep = s.a.prep BY <1>1, WithoutAuthorityFields, PartTypes DEF Base, Loose
<1> HIDE DEF r
<1>4. a \in Admins /\ SameShown(r.a, a) BY <1>2 DEF Admins, SameShown
<1> HIDE DEF a
<1>5. t.a = a /\ Differ(r, t, {"a"}) /\ ~t.ok BY <1>2, <1>3, <1>4 DEF States, Differ
<1> HIDE DEF t
<1>6. Base(t) /\ Matches(t.b, t.k, t.a) BY <1>2, <1>4, <1>5, ShownKept
<1>7. t.b = r.b /\ t.h = s.h /\ t.k = s.k /\ t.x = s.x /\ t.w = s.w
  BY <1>1, <1>5 DEF Differ
<1>9. t.a.prep = s.a.prep BY <1>4, <1>5, <1>8 DEF SameShown
<1>10. Handles(s, t) BY <1>1, <1>5, <1>6, <1>7, <1>9 DEF Handles, HistoryStep
<1> QED BY <1>5, <1>6, <1>7, <1>10 DEF Good, t

\* report
LEMMA ReportHandles ==
  ASSUME NEW s, Base(s)
  PROVE  LET t == Report(s)
         IN /\ Handles(s, t) /\ (t.ok => s.ok) /\ t.h = s.h /\ t.k = s.k /\ t.x = s.x
            /\ t.w = s.w /\ (s.ok => t = s)
BY FailClosedHandles, SameHandles DEF Report, Base, Loose, Differ

\* refuse
LEMMA RefuseHandles ==
  ASSUME NEW s, Base(s)
  PROVE  LET t == Refuse(s)
         IN Handles(s, t) /\ ~t.ok /\ Differ(s, t, {})
<1> DEFINE u == Fail(s, "other")
<1>1. Differ(s, u, {}) /\ ~u.ok /\ u.why = "other"
  BY PutFail DEF Base, Loose, Failures
<1>2. Refuse(s) = u BY <1>1 DEF Refuse, Report, FatalFailures
<1> HIDE DEF u
<1> QED BY <1>1, <1>2, SameHandles

\* A failure that is reported at once.
LEMMA ReportFailHandles ==
  ASSUME NEW s, Base(s), NEW why \in Failures
  PROVE  LET t == Report(Fail(s, why))
         IN Handles(s, t) /\ ~t.ok /\ t.h = s.h /\ t.k = s.k /\ t.x = s.x /\ t.w = s.w
<1> DEFINE u == Fail(s, why)
<1>1. Differ(s, u, {}) /\ ~u.ok BY PutFail DEF Base, Loose
<1>2. Handles(s, u) BY <1>1, SameHandles
<1>3. Base(u) BY <1>2 DEF Handles
<1> HIDE DEF u
<1> DEFINE t == Report(u)
<1>4. /\ Handles(u, t) /\ (t.ok => u.ok) /\ t.h = u.h /\ t.k = u.k /\ t.x = u.x
      /\ t.w = u.w
  BY <1>3, ReportHandles
<1> HIDE DEF t
<1>5. Handles(s, t) BY <1>1, <1>2, <1>4, HandlesChain
<1> QED BY <1>1, <1>4, <1>5 DEF Differ, t, u

\* The controller takes over the status of a run, and what it observed.
LEMMA StatusShown ==
  ASSUME NEW s, Base(s), NEW m \in Manuals, NEW t,
         \/ t = [s EXCEPT !.a.status = m.status]
         \/ \E health \in Requests :
              t = [[s EXCEPT !.a.status = m.status] EXCEPT !.a.health = health]
  PROVE  Handles(s, t) /\ t.ok = s.ok /\ Differ(s, t, {"a"})
<1> DEFINE status == m.status
           a == [s.a EXCEPT !.status = status]
           u == [s EXCEPT !.a = a]
<1>0. s \in States /\ s.a \in Admins BY PartTypes DEF Base, Loose
<1>1. status \in {"not_started", "running", "completed", "failed", "cancelled"}
  BY DEF Manuals
<1>2. [s EXCEPT !.a.status = m.status] = u BY <1>0 DEF States
<1> HIDE DEF status
<1>3. a \in Admins /\ SameShown(s.a, a)
  <2>1. a \in Admins BY <1>0, <1>1 DEF Admins
  <2>2. SameShown(s.a, a) BY <1>0 DEF Admins, SameShown
  <2> QED BY <2>1, <2>2
<1> HIDE DEF a
<1>4. u.a = a /\ Differ(s, u, {"a"}) /\ u.ok = s.ok BY <1>0, <1>3, PutA
<1>5. CASE t = u BY <1>3, <1>4, <1>5, ShownHandles
<1>6. CASE \E health \in Requests : t = [u EXCEPT !.a.health = health]
  <2>1. PICK health \in Requests : t = [u EXCEPT !.a.health = health] BY <1>6
  <2> DEFINE c == [u.a EXCEPT !.health = health]
  <2>2. u \in States /\ u.a \in Admins BY <1>4, PartTypes DEF Differ
  <2> HIDE DEF u
  <2>3. t = [u EXCEPT !.a = c] BY <2>1, <2>2 DEF States
  <2>4. c \in Admins /\ SameShown(u.a, c) BY <2>2 DEF Admins, SameShown
  <2> HIDE DEF c
  <2>5. t.a = c /\ Differ(u, t, {"a"}) /\ t.ok = u.ok BY <2>2, <2>3, <2>4, PutA
  <2>6. SameShown(s.a, t.a) BY <1>3, <1>4, <2>4, <2>5 DEF SameShown
  <2>7. Differ(s, t, {"a"}) /\ t.ok = s.ok BY <1>4, <2>5 DEF Differ
  <2> QED BY <2>6, <2>7, ShownHandles
<1> QED BY <1>2, <1>5, <1>6

\* synchronize and cache
LEMMA SynchronizeAdminHandles ==
  ASSUME NEW s, Base(s)
  PROVE  LET t == SynchronizeAdmin(s)
         IN Handles(s, t) /\ (t.ok => s.ok) /\ t.h = s.h /\ t.k = s.k /\ t.x = s.x /\ t.w = s.w
<1> DEFINE t == SynchronizeAdmin(s)
           known == [s EXCEPT !.a.status = s.k.manual.status]
<1>0. /\ s \in States /\ s.k.problem \in Failures /\ s.k.manual \in Manuals \cup {Nil}
      /\ s.k.success \in Successes \cup {Nil}
  BY PartTypes, KernelType DEF Base, Loose
<1>1. CASE t = s BY <1>0, <1>1, SameHandles DEF Differ
<1>2. CASE t = Report(Fail(s, s.k.problem)) BY <1>0, <1>2, ReportFailHandles
<1>3. CASE t = Report(Fail(s, "history")) BY <1>3, ReportFailHandles DEF Failures
<1>4. CASE s.k.manual # Nil /\ t = known
  <2>1. s.k.manual \in Manuals BY <1>0, <1>4
  <2> HIDE DEF t
  <2>2. Handles(s, t) /\ t.ok = s.ok /\ Differ(s, t, {"a"}) BY <1>4, <2>1, StatusShown
  <2> QED BY <2>2 DEF Differ, t
<1>5. CASE s.k.manual # Nil /\ s.k.success # Nil
           /\ t = [known EXCEPT !.a.health = s.k.success.request]
  <2>1. s.k.manual \in Manuals /\ s.k.success.request \in Requests
    BY <1>0, <1>5 DEF Successes
  <2> HIDE DEF t
  <2>3. \E health \in Requests :
          t = [[s EXCEPT !.a.status = s.k.manual.status] EXCEPT !.a.health = health]
    BY <1>5, <2>1
  <2>2. Handles(s, t) /\ t.ok = s.ok /\ Differ(s, t, {"a"})
    BY <2>1, <2>3, StatusShown
  <2> QED BY <2>2 DEF Differ, t
<1>6. \/ t = s
      \/ t = Report(Fail(s, s.k.problem))
      \/ t = Report(Fail(s, "history"))
      \/ s.k.manual # Nil /\ t = known
      \/ s.k.manual # Nil /\ s.k.success # Nil
         /\ t = [known EXCEPT !.a.health = s.k.success.request]
  BY DEF SynchronizeAdmin
<1> QED BY <1>1, <1>2, <1>3, <1>4, <1>5, <1>6

\* synchronize after a call that succeeded, report after one that failed.
LEMMA SynchronizeIfOkHandles ==
  ASSUME NEW s, Base(s)
  PROVE  LET t == SynchronizeAdminIfOk(s)
         IN Handles(s, t) /\ (t.ok => s.ok) /\ t.h = s.h /\ t.k = s.k /\ t.x = s.x /\ t.w = s.w
BY SynchronizeAdminHandles, ReportHandles DEF SynchronizeAdminIfOk

\* Without a run there is none to cancel.
LEMMA CancelNothing ==
  ASSUME NEW s, Base(s), s.k.run = Nil, NEW run, NEW stored
  PROVE  CancelObservation(s, run, stored).k.run = Nil
BY PutFail DEF CancelObservation, ManualActive, Base, Loose, Differ, Failures

\* cancel_current
LEMMA CancelCurrentHandles ==
  ASSUME NEW s, Base(s), NEW stored \in BOOLEAN
  PROVE  Handles(s, CancelCurrent(s, stored))
<1> DEFINE t == CancelCurrent(s, stored)
           shown == [s EXCEPT !.a.status = s.k.manual.status]
           u == CancelObservation(s, s.a.current, stored)
<1>0. s \in States /\ s.k.manual \in Manuals \cup {Nil}
  BY PartTypes, KernelType DEF Base, Loose
<1>1. CASE t = Ok(s) BY <1>1, OkHandles
<1>2. CASE t = Refuse(s) BY <1>2, RefuseHandles
<1>3. CASE s.k.manual # Nil /\ t = Ok(shown)
  <2>1. s.k.manual \in Manuals BY <1>0, <1>3
  <2>2. Differ(s, shown, {"a"}) /\ Handles(s, shown) BY <2>1, StatusShown
  <2>3. shown \in States /\ Base(shown) BY <2>2 DEF Handles, Differ
  <2>5. SameShown(s.a, shown.a)
    <3>1. shown = [s EXCEPT !.a = [s.a EXCEPT !.status = s.k.manual.status]]
      BY <1>0 DEF States
    <3>2. shown.a = [s.a EXCEPT !.status = s.k.manual.status] BY <1>0, <3>1 DEF States
    <3> HIDE DEF shown
    <3> QED BY <3>2, <1>0, PartTypes DEF SameShown, Admins
  <2> HIDE DEF shown, t
  <2>4. Differ(shown, t, {}) BY <2>3, <1>3, PutOk
  <2>6. Differ(s, t, {"a"}) /\ SameShown(s.a, t.a) BY <2>2, <2>4, <2>5 DEF Differ
  <2> QED BY <2>6, ShownHandles DEF t
<1>4. CASE t = SynchronizeAdminIfOk(u)
  <2>1. Settles(s, u) BY CancelObservationSettles
  <2>2. s.k.run = Nil => u.k.run = Nil BY CancelNothing
  <2> HIDE DEF u, t
  <2>3. Handles(s, u) /\ Base(u) BY <2>1, <2>2, SettlesHandles, SettlesBase
  <2>4. Handles(u, t) /\ (t.ok => u.ok) BY <1>4, <2>3, SynchronizeIfOkHandles
  <2>5. Handles(s, t) BY <2>3, <2>4, HandlesChain
  <2> QED BY <2>5 DEF t
<1>5. \/ t = Ok(s) \/ t = Refuse(s) \/ (s.k.manual # Nil /\ t = Ok(shown))
      \/ t = SynchronizeAdminIfOk(u)
  BY DEF CancelCurrent
<1> QED BY <1>1, <1>2, <1>3, <1>4, <1>5
-----------------------------------------------------------------------------
(* Preparations. *)

\* A controller in which only the preparation changed.
SameButPrep(a, c) ==
  /\ c.session = a.session /\ c.epoch = a.epoch /\ c.gen = a.gen /\ c.rev = a.rev
  /\ c.source = a.source /\ c.active = a.active
  /\ c.logs = a.logs /\ c.current = a.current
  /\ c.consent <=> a.consent

\* Replacing the preparation.
LEMMA PutPrep ==
  ASSUME NEW a \in Admins, NEW y \in PreparationWork \cup {Nil}
  PROVE  LET c == [a EXCEPT !.prep = y]
         IN c \in Admins /\ c.prep = y /\ SameButPrep(a, c)
<1> DEFINE c == [a EXCEPT !.prep = y]
<1>1. c \in Admins BY DEF Admins
<1>2. c.prep = y BY DEF Admins
<1>3. SameButPrep(a, c) BY DEF Admins, SameButPrep
<1> QED BY <1>1, <1>2, <1>3

\* What a preparation has to do with the activation it was made for.
PrepOK(a) ==
  a.prep # Nil =>
    /\ ~a.prep.discarded => a.prep.session = a.session /\ a.prep.epoch = a.epoch
    /\ a.prep.claimed # Nil => a.prep.claimed.epoch = a.prep.epoch

\* The worker and the preparation change, and nothing else.
Tends(s, t) ==
  /\ Base(t)
  /\ Matches(s.b, s.k, s.a) => Matches(t.b, t.k, t.a)
  /\ Differ(s, t, {"w", "a"})
  /\ SameButPrep(s.a, t.a)

\* A handler that changes the preparation and the worker only.
LEMMA Tended ==
  ASSUME NEW s, NEW t, Base(s), Differ(s, t, {"w", "a"}), WorkerOK(t.w),
         SlotsOK(t.w, s.b, t.a), SameButPrep(s.a, t.a), PrepOK(t.a)
  PROVE  Tends(s, t)
<1>1. t \in States /\ t.b = s.b /\ t.x = s.x /\ t.k = s.k /\ t.h = s.h BY DEF Differ
<1>2. PlaceOK(t.b, t.a)
  <2>1. /\ t.a.epoch = t.b.epoch /\ t.a.session = t.b.session
        /\ t.a.source # Nil => t.a.source.epoch = t.a.epoch
        /\ t.b.source # Nil => t.b.source.epoch = t.b.epoch
        /\ ~t.a.consent => ~t.b.consent.active \/ t.b.consent.current = Nil
    BY <1>1 DEF Base, Loose, PlaceOK, SameButPrep
  <2> QED BY <2>1 DEF PlaceOK, PrepOK
<1>3. Base(t) BY <1>1, <1>2 DEF Base, Loose
<1>4. Agrees(s.b, s.k, s.a) => Agrees(t.b, t.k, t.a) BY <1>1 DEF Agrees, SameButPrep
<1>5. Matches(s.b, s.k, s.a) => Matches(t.b, t.k, t.a)
  BY <1>1, <1>4 DEF Matches, SameButPrep
<1> QED BY <1>3, <1>5 DEF Tends

\* cancel_preparation gives up the job that is still live.
LEMMA PreparationCancelled ==
  ASSUME NEW s \in States, WorkerOK(s.w), SlotsOK(s.w, s.b, s.a)
  PROVE  LET t == CancelPreparation(s)
         IN /\ Differ(s, t, {"w", "a"}) /\ Works(s.w, t.w, {}, {})
            /\ SlotsOK(t.w, s.b, t.a) /\ SameButPrep(s.a, t.a)
            /\ t.ok = s.ok
            /\ \/ t.a.prep = Nil
               \/ /\ s.a.prep # Nil /\ t.a.prep.discarded
                  /\ t.a.prep.claimed = s.a.prep.claimed
                  /\ t.a.prep.epoch = s.a.prep.epoch
<1> DEFINE t == CancelPreparation(s)
           p == s.a.prep
<1>0. s.a \in Admins /\ p \in PreparationWork \cup {Nil} BY PartTypes DEF Admins
<1>1. CASE p = Nil
  <2>1. t = s BY <1>1 DEF CancelPreparation
  <2> HIDE DEF t
  <2>2. SameButPrep(s.a, t.a) BY <2>1 DEF SameButPrep
  <2> QED BY <1>1, <2>1, <2>2, WorksUnchanged DEF Differ, t
<1>2. CASE p # Nil /\ ~Outstanding(s)
  <2> DEFINE a == [s.a EXCEPT !.prep = Nil]
  <2>1. a \in Admins /\ a.prep = Nil /\ SameButPrep(s.a, a) BY <1>0, PutPrep
  <2>2. t = [s EXCEPT !.a = a] BY <1>2 DEF CancelPreparation, States
  <2> HIDE DEF a
  <2>3. t.a = a /\ Differ(s, t, {"a"}) /\ t.ok = s.ok BY <2>1, <2>2, PutA
  <2> HIDE DEF t
  <2>4. p.id \notin LiveIds(s.w)
    BY <1>2 DEF Outstanding, Known, LiveIds, Retired, Live
  <2>5. LiveIds(s.w) \subseteq Tokens(s.b) BY <1>2, <2>4 DEF SlotsOK, PrepIds
  <2>6. SlotsOK(s.w, s.b, a) BY <2>1, <2>5 DEF SlotsOK
  <2> QED BY <2>1, <2>3, <2>6, WorksUnchanged DEF Differ, t
<1>3. CASE p # Nil /\ Outstanding(s)
  <2> DEFINE y == [p EXCEPT !.discarded = TRUE]
             a == [s.a EXCEPT !.prep = y]
             v == IF p.claimed = Nil THEN Cancel(s.w, p.id) ELSE s.w
  <2>1. p \in PreparationWork BY <1>0, <1>3
  <2>2. /\ y \in PreparationWork /\ y.discarded /\ y.id = p.id /\ y.claimed = p.claimed
        /\ y.epoch = p.epoch /\ y # Nil /\ y.id \in Nat
    BY <2>1, NilIsNone DEF PreparationWork
  <2>3. t = [s EXCEPT !.a = a, !.w = v]
    BY <1>0, <1>3 DEF CancelPreparation, States, Admins
  <2> HIDE DEF y
  <2>4. a \in Admins /\ a.prep = y /\ SameButPrep(s.a, a) BY <1>0, <2>2, PutPrep
  <2>5. /\ Works(s.w, v, {}, {}) /\ (p.claimed = Nil => Works(s.w, v, {}, {p.id}))
        /\ (p.claimed # Nil => v = s.w)
    <3>1. CASE p.claimed = Nil
      <4>1. Works(s.w, v, {}, {p.id}) BY <3>1, WorksCancel
      <4> QED BY <3>1, <4>1 DEF Works
    <3>2. CASE p.claimed # Nil BY <3>2, WorksUnchanged
    <3> QED BY <3>1, <3>2
  <2> HIDE DEF a, v
  <2>6. v \in Workers BY <2>5 DEF Works, WorkerOK
  <2>7. t.a = a /\ t.w = v /\ Differ(s, t, {"w", "a"}) /\ t.ok = s.ok
    BY <2>3, <2>4, <2>6 DEF States, Differ
  <2> HIDE DEF t
  <2>8. LiveIds(v) \subseteq Tokens(s.b)
    <3>1. LiveIds(s.w) \subseteq Tokens(s.b) \cup {p.id} BY <1>3 DEF SlotsOK, PrepIds
    <3>2. p.id \notin LiveIds(v)
      BY <1>3, <2>5 DEF SlotsOK, Works
    <3> QED BY <2>5, <3>1, <3>2 DEF Works
  <2>9. NextRequest(v) \in Nat /\ NextRequest(s.w) \in Nat /\ NextRequest(v) >= NextRequest(s.w)
    BY <2>5, NextRequestIsNew DEF Works
  <2>10. SlotsOK(v, s.b, a)
    <3>1. y.id < NextRequest(v) BY <1>3, <2>2, <2>9 DEF SlotsOK
    <3>2. y.claimed # Nil => y.id \notin LiveIds(v) BY <1>3, <2>2, <2>5 DEF SlotsOK
    <3> QED BY <2>4, <2>8, <3>1, <3>2 DEF SlotsOK
  <2> QED BY <1>3, <2>2, <2>4, <2>5, <2>7, <2>10 DEF t
<1> QED BY <1>1, <1>2, <1>3

\* cancel_preparation within an activation
LEMMA CancelPreparationTends ==
  ASSUME NEW s, Base(s)
  PROVE  LET t == CancelPreparation(s)
         IN Tends(s, t) /\ t.ok = s.ok
<1> DEFINE t == CancelPreparation(s)
<1>0. s \in States /\ WorkerOK(s.w) /\ SlotsOK(s.w, s.b, s.a) /\ PlaceOK(s.b, s.a)
  BY DEF Base, Loose
<1>1. /\ Differ(s, t, {"w", "a"}) /\ Works(s.w, t.w, {}, {})
      /\ SlotsOK(t.w, s.b, t.a) /\ SameButPrep(s.a, t.a) /\ t.ok = s.ok
      /\ \/ t.a.prep = Nil
         \/ /\ s.a.prep # Nil /\ t.a.prep.discarded
            /\ t.a.prep.claimed = s.a.prep.claimed
            /\ t.a.prep.epoch = s.a.prep.epoch
  BY <1>0, PreparationCancelled
<1> HIDE DEF t
<1>2. PrepOK(t.a) BY <1>0, <1>1 DEF PrepOK, PlaceOK
<1>3. Tends(s, t) BY <1>1, <1>2, Tended DEF Works
<1> QED BY <1>1, <1>3 DEF t

\* A step that keeps the invariant and records nothing.
Stays(s, t) == Good(t) /\ SameLatest(s.h, t.h)

\* Handlers that record nothing compose.
LEMMA StaysChain ==
  ASSUME NEW s, NEW t, NEW u, Stays(s, t), Stays(t, u)
  PROVE  Stays(s, u)
BY DEF Stays, SameLatest

\* A preparation is no record.
LEMMA TendsStays ==
  ASSUME NEW s, NEW t, Good(s), Tends(s, t)
  PROVE  Stays(s, t)
BY DEF Good, Tends, Stays, Differ, SameLatest

\* A handler that leaves the history alone.
LEMMA HandlesStays ==
  ASSUME NEW s, NEW t, Good(s), Handles(s, t), t.h = s.h
  PROVE  Stays(s, t)
BY DEF Good, Handles, Stays, SameLatest

\* The job of a preparation
LEMMA PreparationJob ==
  ASSUME NEW id \in Sessions, NEW target \in Targets
  PROVE  NewJob(id, [kind |-> "preparation", target |-> target], {}) \in Jobs
<1> DEFINE task == [kind |-> "preparation", target |-> target]
<1>1. task \in Tasks BY DEF Tasks
<1> HIDE DEF task
<1>2. NewJob(id, task, {}) \in Jobs BY <1>1 DEF NewJob, Jobs
<1> QED BY <1>2 DEF task

\* The rest of select
LEMMA SubmitPreparationStays ==
  ASSUME NEW s, Good(s), s.a.prep = Nil, s.a.session # Nil, NEW target \in Targets, NEW launch
  PROVE  Stays(s, SubmitPreparation(s, target, launch))
<1> DEFINE id == NextRequest(s.w)
           job == NewJob(s.a.session, [kind |-> "preparation", target |-> target], {})
           v == Submit(Allocate(s.w), id, job, launch)
           sent == [s EXCEPT !.w = v]
           started == Admission(Allocate(s.w), id) = "launched" /\ launch = "started"
           t == SubmitPreparation(s, target, launch)
<1>0. /\ Base(s) /\ s \in States /\ s.a \in Admins /\ WorkerOK(s.w)
      /\ SlotsOK(s.w, s.b, s.a) /\ Matches(s.b, s.k, s.a)
  BY PartTypes DEF Good, Base, Loose
<1>1. s.a.session \in Sessions /\ s.a.epoch \in Nat BY <1>0 DEF Admins
<1>2. job \in Jobs BY <1>1, PreparationJob
<1>3. id \in Nat BY <1>0, NextRequestIsNew
<1>4. t = IF Admission(Allocate(s.w), id) # "launched" THEN Refuse(sent)
          ELSE IF launch # "started" THEN Report(Fail(sent, "internal"))
          ELSE Ok([sent EXCEPT !.a.prep =
                 [id |-> id, session |-> s.a.session, epoch |-> s.a.epoch,
                  target |-> target, discarded |-> FALSE, claimed |-> Nil]])
  BY DEF SubmitPreparation
<1>5. /\ Works(s.w, v, {id}, {}) /\ NextRequest(v) > id
      /\ ~started => Works(s.w, v, {}, {})
  <2> HIDE DEF job
  <2> QED BY <1>0, <1>2, WorksSubmit
<1>6. v \in Workers /\ WorkerOK(v) BY <1>5 DEF Works, WorkerOK
<1>10. LiveIds(s.w) \subseteq Tokens(s.b) BY <1>0 DEF SlotsOK, PrepIds
<1> HIDE DEF v, job
<1>7. sent.w = v /\ Differ(s, sent, {"w"}) BY <1>0, <1>6, PutW
<1>8. CASE ~started
  <2>1. SlotsOK(v, s.b, s.a) BY <1>5, <1>8, <1>10 DEF SlotsOK, Works
  <2>2. Tends(s, sent)
    <3>1. SameButPrep(s.a, sent.a) /\ PrepOK(sent.a) /\ Differ(s, sent, {"w", "a"})
          /\ sent.a = s.a
      BY <1>7 DEF SameButPrep, PrepOK, Differ
    <3> HIDE DEF sent
    <3> QED BY <1>0, <1>6, <1>7, <2>1, <3>1, Tended
  <2>3. t = Refuse(sent) \/ t = Report(Fail(sent, "internal")) BY <1>4, <1>8
  <2> HIDE DEF sent, t
  <2>4. Stays(s, sent) /\ Good(sent) BY <2>2, TendsStays DEF Stays
  <2>5. Handles(sent, t) /\ t.h = sent.h
    BY <2>3, <2>4, RefuseHandles, ReportFailHandles DEF Good, Failures, Differ
  <2>6. Stays(sent, t) BY <2>4, <2>5, HandlesStays
  <2>7. Stays(s, t) BY <2>4, <2>6, StaysChain
  <2> QED BY <2>7 DEF t
<1>9. CASE started
  <2> DEFINE y == [id |-> id, session |-> s.a.session, epoch |-> s.a.epoch,
                   target |-> target, discarded |-> FALSE, claimed |-> Nil]
             a == [s.a EXCEPT !.prep = y]
             r == [sent EXCEPT !.a.prep = y]
  <2>1. t = Ok(r) BY <1>4, <1>9
  <2> HIDE DEF id, t
  <2>2. y \in PreparationWork /\ y # Nil
    <3>1. y \in PreparationWork BY <1>1, <1>3 DEF PreparationWork
    <3> HIDE DEF y
    <3> QED BY <3>1, NilIsNone
  <2>3. y.id = id /\ ~y.discarded /\ y.claimed = Nil /\ y.session = s.a.session
        /\ y.epoch = s.a.epoch
    OBVIOUS
  <2>4. sent \in States /\ sent.a = s.a BY <1>7 DEF Differ
  <2> HIDE DEF sent, y
  <2>5. r = [sent EXCEPT !.a = a] BY <2>4 DEF States
  <2>6. a \in Admins /\ a.prep = y /\ SameButPrep(s.a, a) BY <1>0, <2>2, PutPrep
  <2> HIDE DEF a
  <2>7. r.a = a /\ Differ(sent, r, {"a"}) BY <2>4, <2>5, <2>6, PutA
  <2> HIDE DEF r
  <2>8. Differ(r, t, {}) BY <2>1, <2>7, PutOk DEF Differ
  <2>9. Differ(s, t, {"w", "a"}) /\ t.w = v /\ t.a = a
    BY <1>7, <2>7, <2>8 DEF Differ
  <2>10. PrepIds(a) = {id} BY <2>2, <2>3, <2>6 DEF PrepIds
  <2>11. LiveIds(v) \subseteq Tokens(s.b) \cup {id} BY <1>5, <1>10 DEF Works
  <2>12. SlotsOK(v, s.b, a) BY <1>3, <1>5, <1>6, <2>3, <2>6, <2>10, <2>11, NextRequestIsNew DEF SlotsOK
  <2>13. PrepOK(a) BY <2>3, <2>6 DEF PrepOK, SameButPrep
  <2>14. Tends(s, t) BY <1>0, <1>6, <2>6, <2>9, <2>12, <2>13, Tended
  <2>15. Stays(s, t) BY <2>14, TendsStays
  <2> QED BY <2>15 DEF t
<1> QED BY <1>8, <1>9

\* The preparation is changed, and not live any more.
LEMMA PrepChanged ==
  ASSUME NEW s, Base(s), s.a.prep # Nil, NEW v, NEW t, NEW y \in PreparationWork \cup {Nil},
         Works(s.w, v, {}, {s.a.prep.id}),
         t = [s EXCEPT !.w = v, !.a = [s.a EXCEPT !.prep = y]],
         y # Nil => /\ y.id = s.a.prep.id
                    /\ ~y.discarded => y.session = s.a.session /\ y.epoch = s.a.epoch
                    /\ y.claimed # Nil => y.claimed.epoch = y.epoch
  PROVE  Tends(s, t)
<1> DEFINE a == [s.a EXCEPT !.prep = y]
           p == s.a.prep
<1>0. /\ s \in States /\ s.a \in Admins /\ WorkerOK(s.w) /\ SlotsOK(s.w, s.b, s.a)
  BY PartTypes DEF Base, Loose
<1>1. a \in Admins /\ a.prep = y /\ SameButPrep(s.a, a) BY <1>0, PutPrep
<1>2. v \in Workers /\ WorkerOK(v) BY DEF Works, WorkerOK
<1>7. p.id \in Nat BY <1>0 DEF Admins, PreparationWork
<1> HIDE DEF a
<1>3. t.w = v /\ t.a = a /\ Differ(s, t, {"w", "a"})
  BY <1>0, <1>1, <1>2 DEF a, States, Differ
<1>4. LiveIds(v) \subseteq Tokens(s.b)
  BY <1>0 DEF SlotsOK, PrepIds, Works
<1>5. NextRequest(v) \in Nat /\ NextRequest(s.w) \in Nat /\ NextRequest(v) >= NextRequest(s.w)
      /\ p.id < NextRequest(s.w)
  BY <1>0, NextRequestIsNew DEF Works, SlotsOK
<1>6. SlotsOK(v, s.b, a)
  <2>1. y # Nil => y.id < NextRequest(v) BY <1>5, <1>7
  <2>2. y # Nil => y.id \notin LiveIds(v) BY DEF Works
  <2> QED BY <1>1, <1>4, <2>1, <2>2 DEF SlotsOK
<1>8. PrepOK(a) BY <1>1 DEF PrepOK, SameButPrep
<1> QED BY <1>1, <1>2, <1>3, <1>6, <1>8, Tended

\* A refusal after a step that keeps the invariant.
LEMMA RefuseStays ==
  ASSUME NEW s, Good(s)
  PROVE  Stays(s, Refuse(s))
BY RefuseHandles, HandlesStays DEF Good, Differ

\* No call at all
LEMMA SameStays ==
  ASSUME NEW s, Good(s)
  PROVE  Stays(s, s)
BY DEF Stays, SameLatest

\* cancel_preparation, from a good state
LEMMA CancelPreparationStays ==
  ASSUME NEW s, Good(s)
  PROVE  Stays(s, CancelPreparation(s))
BY CancelPreparationTends, TendsStays DEF Good

\* claim_prepared
LEMMA ClaimStays ==
  ASSUME NEW s, Good(s), s.a.prep # Nil, ~s.a.prep.discarded, s.a.prep.claimed = Nil,
         PreparationReady(s), NEW expired \in BOOLEAN
  PROVE  Stays(s, ClaimPrepared(s, expired))
<1> DEFINE p == s.a.prep
           left == expired /\ s.w.jobs[p.id].result = "ok"
           v == Poll(s.w, p.id, left)
           taken == [s EXCEPT !.w = v]
           failed == [taken EXCEPT !.a.prep.discarded = TRUE]
           source == [id |-> p.id, target |-> p.target, epoch |-> p.epoch]
           claimed == [taken EXCEPT !.a.prep.claimed = source]
           t == ClaimPrepared(s, expired)
<1>0. /\ Base(s) /\ s \in States /\ s.a \in Admins /\ WorkerOK(s.w) /\ PlaceOK(s.b, s.a)
  BY PartTypes DEF Good, Base, Loose
<1>1. p \in PreparationWork BY <1>0 DEF Admins
<1>2. Works(s.w, v, {}, {p.id})
  <2>1. left \in BOOLEAN OBVIOUS
  <2> HIDE DEF left
  <2> QED BY <1>0, <2>1, WorksPoll DEF PreparationReady
<1>3. p.session = s.a.session /\ p.epoch = s.a.epoch BY <1>0 DEF PlaceOK
<1>4. \/ t = Refuse(CancelPreparation(s))
      \/ t = s
      \/ t = claimed
      \/ t = Report(Fail(failed, "internal"))
      \/ t = Refuse(failed)
  BY DEF ClaimPrepared
<1> HIDE DEF v
<1>5. Stays(s, claimed)
  <2> DEFINE y == [p EXCEPT !.claimed = source]
  <2>1. source \in Sources /\ source.epoch = p.epoch BY <1>1 DEF PreparationWork, Sources
  <2> HIDE DEF source
  <2>2. y \in PreparationWork /\ y.id = p.id /\ y.session = p.session /\ y.epoch = p.epoch
        /\ y.claimed = source
    BY <1>1, <2>1 DEF PreparationWork
  <2>3. claimed = [s EXCEPT !.w = v, !.a = [s.a EXCEPT !.prep = y]]
    BY <1>0 DEF States, Admins
  <2> HIDE DEF claimed, y
  <2>4. Tends(s, claimed) BY <1>0, <1>2, <1>3, <2>1, <2>2, <2>3, PrepChanged
  <2> QED BY <2>4, TendsStays
<1>6. Stays(s, failed)
  <2> DEFINE y == [p EXCEPT !.discarded = TRUE]
  <2>2. y \in PreparationWork /\ y.id = p.id /\ y.discarded /\ y.claimed = Nil
    BY <1>1 DEF PreparationWork
  <2>3. failed = [s EXCEPT !.w = v, !.a = [s.a EXCEPT !.prep = y]]
    BY <1>0 DEF States, Admins
  <2> HIDE DEF failed, y
  <2>4. Tends(s, failed) BY <1>0, <1>2, <2>2, <2>3, PrepChanged
  <2> QED BY <2>4, TendsStays
<1> HIDE DEF failed, claimed, t
<1>7. Good(failed) BY <1>6 DEF Stays
<1>8. CASE t = Refuse(CancelPreparation(s))
  <2> DEFINE u == CancelPreparation(s)
  <2>1. Stays(s, u) BY CancelPreparationStays
  <2> HIDE DEF u
  <2>2. Stays(u, Refuse(u)) BY <2>1, RefuseStays DEF Stays
  <2>3. Stays(s, Refuse(u)) BY <2>1, <2>2, StaysChain
  <2> QED BY <1>8, <2>3 DEF t, u
<1>9. CASE t = Report(Fail(failed, "internal"))
  <2>1. Stays(failed, t)
    BY <1>7, <1>9, ReportFailHandles, HandlesStays DEF Good, Failures
  <2>2. Stays(s, t) BY <1>6, <2>1, StaysChain
  <2> QED BY <2>2 DEF t
<1>10. CASE t = Refuse(failed)
  <2>1. Stays(failed, t) BY <1>7, <1>10, RefuseStays
  <2>2. Stays(s, t) BY <1>6, <2>1, StaysChain
  <2> QED BY <2>2 DEF t
<1>11. CASE t = s BY <1>11, SameStays DEF t
<1>12. CASE t = claimed BY <1>5, <1>12 DEF t
<1> QED BY <1>4, <1>8, <1>9, <1>10, <1>11, <1>12
-----------------------------------------------------------------------------
(* Selections. *)

\* discard_all: the mailbox is emptied, and its jobs with it.
LEMMA EmptiedBroker ==
  ASSUME NEW b, BrokerOK(b), NEW c, c \in Brokers, c.entries = [n \in {} |-> Nil],
         c.authority # Nil => c.source # Nil /\ c.consent.current # Nil
  PROVE  BrokerOK(c) /\ Keeps(b, c) /\ Tokens(c) = {}
BY DEF BrokerOK, Keeps, Tokens

\* The empty mailbox
LEMMA NoEntries == [n \in {} |-> Nil] \in EntryTables
BY EntryTable

\* Nothing awaited is left in the worker but the preparation.
LEMMA SlotsEmptied ==
  ASSUME NEW w, WorkerOK(w), NEW b, NEW a \in Admins, SlotsOK(w, b, a), NEW c, Tokens(c) = {}
  PROVE  WorkerOK(CancelAll(w, Tokens(b))) /\ SlotsOK(CancelAll(w, Tokens(b)), c, a)
<1> DEFINE v == CancelAll(w, Tokens(b))
<1>1. Works(w, v, {}, Tokens(b)) BY WorksCancelAll
<1> HIDE DEF v
<1>2. LiveIds(v) \subseteq PrepIds(a) BY <1>1 DEF SlotsOK, Works
<1>3. NextRequest(v) \in Nat /\ NextRequest(w) \in Nat /\ NextRequest(v) >= NextRequest(w)
  BY <1>1, NextRequestIsNew DEF Works
<1>4. a.prep # Nil => a.prep.id \in Nat BY DEF Admins, PreparationWork
<1>5. SlotsOK(v, c, a) BY <1>1, <1>2, <1>3, <1>4 DEF SlotsOK, Works
<1> QED BY <1>1, <1>5 DEF v, Works

\* The broker that a selection leaves, and the one a deactivation leaves.
SelectedBroker(b, spec, source) ==
  [b EXCEPT !.entries = [n \in {} |-> Nil], !.closed = FALSE,
            !.authority = spec, !.source = source]

\* select
LEMMA SelectKeepsBase ==
  ASSUME NEW s, Base(s), s.a.consent, NEW spec \in Authorities, NEW source \in Sources,
         ConsentMatches(s.b, spec), source.epoch = s.b.epoch
  PROVE  LET t == SelectSource(s, spec, source)
         IN /\ Base(t) /\ Differ(s, t, {"w", "b"}) /\ t.ok = s.ok
            /\ t.b.authority = spec /\ t.b.source = source
            /\ t.b.consent = s.b.consent
            /\ t.b.session = s.b.session /\ t.b.epoch = s.b.epoch
<1> DEFINE c == SelectedBroker(s.b, spec, source)
           v == CancelAll(s.w, Tokens(s.b))
           t == SelectSource(s, spec, source)
<1>0. /\ s \in States /\ s.b \in Brokers /\ BrokerOK(s.b) /\ WorkerOK(s.w) /\ s.a \in Admins
      /\ SlotsOK(s.w, s.b, s.a) /\ PlaceOK(s.b, s.a)
  BY PartTypes DEF Base, Loose
<1> DEFINE left == DiscardAll(s, FALSE)
           d == [s.b EXCEPT !.entries = [n \in {} |-> Nil], !.closed = FALSE]
<1>1. d \in Brokers /\ d.consent = s.b.consent
  BY <1>0, NoEntries DEF Brokers
<1>2. left = [s EXCEPT !.b = d, !.w = v] BY <1>0 DEF DiscardAll, States
<1>3. RevokeStaleConsent(d, spec) = d
  BY <1>1 DEF RevokeStaleConsent, ConsentMatches
<1>4. [d EXCEPT !.authority = spec, !.source = source] = c
  BY <1>0 DEF SelectedBroker, Brokers
<1> HIDE DEF d, v
<1>9. v \in Workers BY <1>0, WorksCancelAll DEF v, Works, WorkerOK
<1>10. left \in States /\ left.b = d /\ left.w = v /\ Differ(s, left, {"w", "b"}) /\ left.ok = s.ok
  BY <1>0, <1>1, <1>2, <1>9 DEF States, Differ
<1>11. t = [left EXCEPT !.b = c] BY <1>3, <1>4, <1>10 DEF SelectSource
<1>5. /\ c \in Brokers /\ c.entries = [n \in {} |-> Nil] /\ c.authority = spec
      /\ c.source = source /\ c.consent = s.b.consent /\ c.session = s.b.session
      /\ c.epoch = s.b.epoch
  BY <1>0, NoEntries DEF SelectedBroker, Brokers
<1> HIDE DEF c, left
<1>12. t \in States /\ t.b = c /\ t.w = v /\ Differ(s, t, {"w", "b"}) /\ t.ok = s.ok
  BY <1>5, <1>10, <1>11, PutB DEF Differ
<1> HIDE DEF t
<1>6. c.consent.current # Nil /\ c.source # Nil
  BY <1>5, NilIsNone DEF ConsentMatches
<1>7. BrokerOK(c) /\ Keeps(s.b, c) /\ Tokens(c) = {} BY <1>0, <1>5, <1>6, EmptiedBroker
<1>8. WorkerOK(v) /\ SlotsOK(v, c, s.a) BY <1>0, <1>7, SlotsEmptied DEF v
<1>13. PlaceOK(c, s.a) BY <1>0, <1>5 DEF PlaceOK
<1>14. Base(t)
  <2>1. t.a = s.a /\ t.x = s.x /\ t.k = s.k BY <1>12 DEF Differ
  <2> QED BY <1>7, <1>8, <1>12, <1>13, <2>1, Rearranged
<1> QED BY <1>5, <1>12, <1>14 DEF t

\* deactivate
LEMMA DeactivateKeepsBase ==
  ASSUME NEW s, Base(s)
  PROVE  LET t == DeactivateBroker(s)
         IN Base(t) /\ Differ(s, t, {"w", "b"})
<1> DEFINE q == RevokeConsent(s.b)
           r == [s EXCEPT !.b = q]
           d == [q EXCEPT !.entries = [n \in {} |-> Nil], !.closed = TRUE]
           v == CancelAll(s.w, Tokens(q))
           left == DiscardAll(r, TRUE)
           c == [d EXCEPT !.authority = Nil, !.source = Nil]
           t == DeactivateBroker(s)
<1>0. /\ s \in States /\ s.b \in Brokers /\ BrokerOK(s.b) /\ WorkerOK(s.w) /\ s.a \in Admins
      /\ SlotsOK(s.w, s.b, s.a) /\ PlaceOK(s.b, s.a)
  BY PartTypes DEF Base, Loose
<1>1. /\ SameButConsent(s.b, q) /\ ~q.consent.active /\ Tokens(q) = Tokens(s.b)
      /\ q \in Brokers
  BY <1>0, RevokedConsent DEF SameButConsent
<1>2. t = [left EXCEPT !.b.authority = Nil, !.b.source = Nil] BY DEF DeactivateBroker
<1> HIDE DEF q
<1>3. r \in States /\ r.b = q /\ r.w = s.w /\ Differ(s, r, {"b"})
  BY <1>0, <1>1, PutB DEF Differ
<1> HIDE DEF r
<1>4. left = [r EXCEPT !.b = d, !.w = v] BY <1>3 DEF DiscardAll, States
<1>5. d \in Brokers /\ d.consent = q.consent BY <1>1, NoEntries DEF Brokers
<1>6. /\ c \in Brokers /\ c.entries = [n \in {} |-> Nil] /\ c.authority = Nil
      /\ c.source = Nil /\ c.consent = q.consent /\ c.session = q.session /\ c.epoch = q.epoch
  BY <1>1, NoEntries DEF Brokers
<1> HIDE DEF d, v
<1>7. v \in Workers BY <1>0, WorksCancelAll DEF v, Works, WorkerOK
<1>8. left \in States /\ left.b = d /\ left.w = v /\ Differ(s, left, {"w", "b"})
  BY <1>3, <1>4, <1>5, <1>7 DEF States, Differ
<1> HIDE DEF left
<1>9. t = [left EXCEPT !.b = c] BY <1>2, <1>5, <1>8 DEF States, Brokers
<1> HIDE DEF c
<1>10. t \in States /\ t.b = c /\ t.w = v /\ Differ(s, t, {"w", "b"})
  BY <1>6, <1>8, <1>9, PutB DEF Differ
<1> HIDE DEF t
<1>11. BrokerOK(c) /\ Keeps(s.b, c) /\ Tokens(c) = {} BY <1>0, <1>6, EmptiedBroker
<1>12. WorkerOK(v) /\ SlotsOK(v, c, s.a) BY <1>0, <1>1, <1>11, SlotsEmptied DEF v
<1>13. PlaceOK(c, s.a) BY <1>0, <1>1, <1>6 DEF PlaceOK, SameButConsent
<1>14. Base(t)
  <2>1. t.a = s.a /\ t.x = s.x /\ t.k = s.k BY <1>10 DEF Differ
  <2> QED BY <1>10, <1>11, <1>12, <1>13, <2>1, Rearranged
<1> QED BY <1>10, <1>14 DEF t

\* persistence_failure records nothing.
LEMMA PersistenceKeepsHistory ==
  ASSUME NEW s \in States
  PROVE  PersistenceFailure(s).h = s.h
<1> DEFINE r == StopExec(s)
           u == [r EXCEPT !.x = Nil]
<1>1. r.h = s.h BY DEF StopExec, States
<1> HIDE DEF r
<1>2. u.h = s.h BY <1>1
<1>3. PersistenceFailure(s) = Fail([u EXCEPT !.k.run = Nil, !.k.unusable = TRUE], "storage")
  BY DEF PersistenceFailure, JoinExec, r
<1> HIDE DEF u
<1> QED BY <1>2, <1>3 DEF Fail

\* A binding that succeeded has the authority, the source and the tool it was
\* asked for, and one that failed has broken nothing.
Binds(s, t, spec, source) ==
  /\ Base(t) /\ SameLatest(s.h, t.h) /\ t.a = s.a
  /\ t.ok => /\ t.b.authority = spec /\ t.b.source = source
             /\ t.b.consent = s.b.consent
             /\ t.k.tool = spec
             /\ t.k.manual = s.k.manual /\ t.k.success = s.k.success

\* The end of bind_ops_observation, on a state with the selection made
LEMMA RegisteredBinds ==
  ASSUME NEW s, Base(s), NEW spec \in Authorities, NEW stored \in BOOLEAN
  PROVE  LET t == Registered(s, spec, stored)
         IN /\ Base(t) /\ SameLatest(s.h, t.h) /\ t.a = s.a
            /\ t.ok => t.b = s.b /\ t.k.tool = spec /\ t.k.manual = s.k.manual
                       /\ t.k.success = s.k.success
<1> DEFINE t == Registered(s, spec, stored)
<1>0. /\ s \in States /\ s.k \in Kernels /\ s.h \in Histories /\ Loose(s)
  BY PartTypes DEF Base, Loose
<1>1. CASE stored
  <2> DEFINE id == spec.session
             g == [s.h EXCEPT ![id] = [s.h[id] EXCEPT !.gen = spec.gen]]
             y == [s.k EXCEPT !.tool = spec]
             r == [s EXCEPT !.h = g, !.k = y]
  <2>1. id \in Sessions /\ spec.gen \in Nat BY DEF Authorities
  <2>2. t = Ok(r) BY <1>0, <1>1, <2>1 DEF Registered, States, Histories
  <2>3. [s.h[id] EXCEPT !.gen = spec.gen] \in Records
        /\ [s.h[id] EXCEPT !.gen = spec.gen].latest = s.h[id].latest
    BY <1>0, <2>1 DEF Histories, Records
  <2>4. g \in Histories /\ SameLatest(s.h, g)
    <3> DEFINE e == [s.h[id] EXCEPT !.gen = spec.gen]
    <3>1. e \in Records /\ e.latest = s.h[id].latest BY <2>3
    <3>2. g = [s.h EXCEPT ![id] = e] OBVIOUS
    <3> HIDE DEF e, g
    <3> QED BY <1>0, <2>1, <3>1, <3>2 DEF Histories, SameLatest
  <2>5. /\ y \in Kernels /\ y.run = s.k.run /\ y.runs = s.k.runs /\ y.manual = s.k.manual
        /\ y.success = s.k.success /\ y.tool = spec
    BY <1>0 DEF Kernels
  <2> HIDE DEF g, y
  <2>6. r \in States /\ r.h = g /\ r.k = y /\ Differ(s, r, {"h", "k"})
    BY <1>0, <2>4, <2>5 DEF States, Differ
  <2> HIDE DEF r, t
  <2>7. Differ(r, t, {}) BY <2>2, <2>6, PutOk
  <2>8. t \in States /\ t.h = g /\ t.k = y /\ t.w = s.w /\ t.b = s.b /\ t.x = s.x /\ t.a = s.a
    BY <2>6, <2>7 DEF Differ
  <2>9. Keeps(s.b, t.b) BY <2>8 DEF Keeps
  <2>10. Base(t) BY <2>5, <2>8, <2>9, Rearranged DEF Base, Loose
  <2> QED BY <2>4, <2>5, <2>8, <2>10 DEF t
<1>2. CASE ~stored
  <2> DEFINE u == PersistenceFailure(s)
             v == DeactivateBroker(u)
  <2>1. t = Fail(v, "storage") BY <1>2 DEF Registered
  <2>2. Settles(s, u) BY <1>0, PersistenceSettles
  <2>3. Base(u) /\ u.a = s.a /\ u.h = s.h
    BY <1>0, <2>2, SettlesBase, PersistenceKeepsHistory DEF Advances
  <2> HIDE DEF u
  <2>4. Base(v) /\ Differ(u, v, {"w", "b"}) BY <2>3, DeactivateKeepsBase
  <2> HIDE DEF v, t
  <2>5. Settles(v, t) /\ Differ(v, t, {}) /\ ~t.ok BY <2>1, <2>4, FailSettles DEF Failures
  <2>6. Base(t) /\ t.a = s.a /\ t.h = s.h BY <2>3, <2>4, <2>5, SettlesBase DEF Differ
  <2> QED BY <2>5, <2>6 DEF t, SameLatest
<1> QED BY <1>1, <1>2

\* A binding that is refused.
LEMMA FailBinds ==
  ASSUME NEW s, Base(s), NEW spec, NEW source, NEW why \in Failures
  PROVE  Binds(s, Fail(s, why), spec, source)
BY FailSettles, SettlesBase DEF Binds, Differ, SameLatest

\* bind_ops_observation
LEMMA KernelBinds ==
  ASSUME NEW s, Base(s), s.a.consent, NEW spec \in Authorities, NEW source \in Sources,
         source.epoch = s.b.epoch, NEW stored \in BOOLEAN
  PROVE  Binds(s, BindKernel(s, spec, source, stored), spec, source)
<1> DEFINE u == SelectSource(s, spec, source)
           t == BindKernel(s, spec, source, stored)
<1>1. CASE \E why \in {"storage", "other", "internal"} : t = Fail(s, why)
  BY <1>1, FailBinds DEF Failures
<1>2. CASE ValidSelection(s.b, spec, source) /\ t = Registered(u, spec, stored)
  <2>1. /\ Base(u) /\ Differ(s, u, {"w", "b"})
        /\ u.b.authority = spec /\ u.b.source = source /\ u.b.consent = s.b.consent
    BY <1>2, SelectKeepsBase DEF ValidSelection
  <2> HIDE DEF u, t
  <2>2. /\ Base(t) /\ SameLatest(u.h, t.h) /\ t.a = u.a
        /\ t.ok => t.b = u.b /\ t.k.tool = spec /\ t.k.manual = u.k.manual
                   /\ t.k.success = u.k.success
    BY <1>2, <2>1, RegisteredBinds
  <2>3. Binds(s, t, spec, source) BY <2>1, <2>2 DEF Binds, Differ
  <2> QED BY <2>3 DEF t
<1>3. \/ \E why \in {"storage", "other", "internal"} : t = Fail(s, why)
      \/ ValidSelection(s.b, spec, source) /\ t = Registered(u, spec, stored)
  BY DEF BindKernel
<1> QED BY <1>1, <1>2, <1>3

\* Nothing of a binding is lost when the session notes its outcome.
LEMMA BindsThenFlags ==
  ASSUME NEW s, NEW t, NEW u, NEW spec, NEW source, Binds(s, t, spec, source),
         Differ(t, u, {"k"}), t.k.run = u.k.run, u.k.runs = t.k.runs,
         u.k.tool = t.k.tool, u.k.manual = t.k.manual, u.k.success = t.k.success,
         u.ok => t.ok
  PROVE  Binds(s, u, spec, source)
<1>1. Settles(t, u) BY FlagsSettle DEF Binds
<1>2. Base(u) BY <1>1, SettlesBase
<1> QED BY <1>2 DEF Binds, Differ

\* The flags of a session that is bound.
LEMMA AvailableFlags ==
  ASSUME NEW s, s \in States
  PROVE  LET t == Available(s)
         IN /\ Differ(s, t, {"k"}) /\ t.k.run = s.k.run /\ t.k.runs = s.k.runs
            /\ t.k.tool = s.k.tool /\ t.k.manual = s.k.manual /\ t.k.success = s.k.success
            /\ t.ok = s.ok
<1> DEFINE t == Available(s)
           y == [s.k EXCEPT !.available = TRUE, !.busy = FALSE]
<1>0. s.k \in Kernels BY PartTypes
<1>1. CASE s.ok
  <2>1. t = [s EXCEPT !.k = y] BY <1>1, <1>0 DEF Available, States
  <2>2. /\ y \in Kernels /\ y.run = s.k.run /\ y.runs = s.k.runs /\ y.tool = s.k.tool
        /\ y.manual = s.k.manual /\ y.success = s.k.success
    BY <1>0 DEF Kernels
  <2> HIDE DEF y
  <2>3. t.k = y /\ Differ(s, t, {"k"}) /\ t.ok = s.ok BY <2>1, <2>2, PutK
  <2> QED BY <2>2, <2>3
<1>2. CASE ~s.ok BY <1>2 DEF Available, Differ
<1> QED BY <1>1, <1>2

\* A binding that fails with the store closes admission.
LEMMA ReportKernelBinds ==
  ASSUME NEW s, NEW t, NEW spec, NEW source, Binds(s, t, spec, source)
  PROVE  Binds(s, ReportKernelFailure(t), spec, source)
<1> DEFINE u == ReportKernelFailure(t)
<1>1. Base(t) BY DEF Binds
<1>2. Settles(t, u) /\ (t.ok => u = t) /\ (~t.ok => ~u.ok) BY <1>1, ReportKernelSettles
<1>3. Base(u) /\ u.a = t.a BY <1>2, SettlesBase DEF Advances
<1>4. u.h = t.h
  <2>1. t \in States BY <1>1 DEF Base, Loose
  <2>2. CloseAdmission(t).h = t.h BY <2>1 DEF CloseAdmission, Fail, States
  <2> QED BY <2>2 DEF ReportKernelFailure
<1> HIDE DEF u
<1>5. t.ok => Binds(s, u, spec, source) BY <1>2
<1>6. ~t.ok => Binds(s, u, spec, source) BY <1>2, <1>3, <1>4 DEF Binds
<1> QED BY <1>5, <1>6 DEF u

\* The binding, through the chat session
LEMMA SessionBinds ==
  ASSUME NEW s, Base(s), s.a.consent, NEW spec \in Authorities, NEW source \in Sources,
         source.epoch = s.b.epoch, NEW stored \in BOOLEAN
  PROVE  Binds(s, BindSession(s, spec, source, stored), spec, source)
<1>1. CASE s.k.problem # Nil BY <1>1, FailBinds DEF BindSession, Failures
<1>2. CASE s.k.problem = Nil
  <2> DEFINE r == Synchronize(s)
             u == BindKernel(r, spec, source, stored)
             v == Available(u)
  <2>1. /\ Settles(s, r) /\ Differ(s, r, {"k"}) /\ r.k.manual = s.k.manual
        /\ r.k.success = s.k.success
    BY SynchronizeSettles
  <2> HIDE DEF r
  <2>2. Base(r) /\ r.a = s.a /\ r.b = s.b /\ r.h = s.h BY <2>1, SettlesBase DEF Differ
  <2>3. Binds(r, u, spec, source) BY <2>2, KernelBinds
  <2> HIDE DEF u
  <2>4. Binds(s, u, spec, source) BY <2>1, <2>2, <2>3 DEF Binds
  <2>5. u \in States BY <2>4 DEF Binds, Base, Loose
  <2>6. /\ Differ(u, v, {"k"}) /\ v.k.run = u.k.run /\ v.k.runs = u.k.runs
        /\ v.k.tool = u.k.tool /\ v.k.manual = u.k.manual /\ v.k.success = u.k.success
        /\ v.ok = u.ok
    BY <2>5, AvailableFlags
  <2> HIDE DEF v
  <2>7. Binds(s, v, spec, source) BY <2>4, <2>6, BindsThenFlags
  <2>8. Binds(s, ReportKernelFailure(v), spec, source) BY <2>7, ReportKernelBinds
  <2> QED BY <1>2, <2>8 DEF BindSession, v, u, r
<1> QED BY <1>1, <1>2

\* What the controller shows changes, within the activation.
LEMMA AdminChanged ==
  ASSUME NEW s, NEW t, Base(s), Differ(s, t, {"a"}),
         t.a.prep = s.a.prep, t.a.session = s.a.session, t.a.epoch = s.a.epoch,
         t.a.source # Nil => t.a.source.epoch = t.a.epoch,
         ~t.a.consent => ~s.a.consent
  PROVE  Base(t)
<1>1. t \in States /\ t.w = s.w /\ t.b = s.b /\ t.x = s.x /\ t.k = s.k /\ t.h = s.h
  BY DEF Differ
<1>2. SlotsOK(t.w, t.b, t.a) BY <1>1 DEF Base, Loose, SlotsOK, PrepIds
<1>3. PlaceOK(t.b, t.a) BY <1>1 DEF Base, Loose, PlaceOK
<1> QED BY <1>1, <1>2, <1>3 DEF Base, Loose

\* The controller after a binding that succeeded
BoundAdmin(a, spec) ==
  [a EXCEPT !.gen = spec.gen, !.rev = spec.rev,
            !.logs = IF spec.logs THEN "enabled" ELSE "disabled",
            !.current = Nil, !.status = "not_started"]

\* The fields of a controller that is bound.
LEMMA BoundFields ==
  ASSUME NEW a \in Admins, NEW spec \in Authorities
  PROVE  LET c == BoundAdmin(a, spec)
         IN /\ c \in Admins
            /\ c.gen = spec.gen /\ c.rev = spec.rev /\ c.current = Nil
            /\ spec.logs => c.logs = "enabled"
            /\ ~spec.logs => c.logs # "enabled"
            /\ c.session = a.session /\ c.epoch = a.epoch /\ c.prep = a.prep
            /\ c.source = a.source /\ c.active = a.active
            /\ c.consent <=> a.consent
<1> DEFINE c == BoundAdmin(a, spec)
           logs == IF spec.logs THEN "enabled" ELSE "disabled"
<1>1. /\ spec.gen \in Nat /\ spec.rev \in Nat
      /\ logs \in {"unavailable", "enabled", "disabled"}
      /\ spec.logs => logs = "enabled"
      /\ ~spec.logs => logs # "enabled"
  BY DEF Authorities
<1>2. c = [a EXCEPT !.gen = spec.gen, !.rev = spec.rev, !.logs = logs,
                    !.current = Nil, !.status = "not_started"]
  BY DEF BoundAdmin
<1> HIDE DEF c, logs
<1>3. c \in Admins BY <1>1, <1>2 DEF Admins
<1>4. /\ c.gen = spec.gen /\ c.rev = spec.rev /\ c.current = Nil /\ c.logs = logs
      /\ c.session = a.session /\ c.epoch = a.epoch /\ c.prep = a.prep
      /\ c.source = a.source /\ c.active = a.active
  BY <1>2 DEF Admins
<1>5. c.consent <=> a.consent BY <1>2 DEF Admins
<1> QED BY <1>1, <1>3, <1>4, <1>5 DEF c

\* The state after a binding: closed if it failed, and otherwise one in which
\* the controller matches the broker but for the target and the source shown.
Bound(s, t, spec, source) ==
  /\ Base(t) /\ SameLatest(s.h, t.h) /\ t.a.prep = s.a.prep
  /\ ~t.ok => Good(t)
  /\ t.ok => /\ t.a.session = s.a.session /\ t.a.epoch = s.a.epoch
             /\ t.a.active = s.a.active /\ t.a.source = s.a.source
             /\ t.a.consent /\ t.a.current = Nil
             /\ t.a.gen = spec.gen /\ t.a.rev = spec.rev
             /\ spec.logs => t.a.logs = "enabled"
             /\ ~spec.logs => t.a.logs # "enabled"
             /\ t.b.authority = spec /\ t.b.source = source
             /\ t.b.consent = s.b.consent /\ t.k.tool = spec

\* bind_consent_authority
LEMMA ConsentBinds ==
  ASSUME NEW s, Base(s), s.a.consent, NEW spec \in Authorities, NEW source \in Sources,
         source.epoch = s.b.epoch, NEW stored \in BOOLEAN
  PROVE  Bound(s, BindConsent(s, spec, source, stored), spec, source)
<1> DEFINE u == BindSession(s, spec, source, stored)
           t == BindConsent(s, spec, source, stored)
<1>0. Binds(s, u, spec, source) BY SessionBinds
<1>1. t = BoundConsent(u, spec) BY DEF BindConsent
<1> HIDE DEF u, t
<1>2. Base(u) /\ u \in States /\ u.a \in Admins /\ PlaceOK(u.b, u.a)
  BY <1>0, PartTypes DEF Binds, Base, Loose
<1>3. CASE ~u.ok
  <2>1. t = FailClosed(u) BY <1>1, <1>3 DEF BoundConsent
  <2>2. Good(t) /\ ~t.ok /\ t.h = u.h /\ Handles(u, t) BY <1>2, <2>1, FailClosedHandles
  <2>3. t.a.prep = s.a.prep BY <1>0, <2>2 DEF Handles, Binds
  <2> QED BY <1>0, <2>2, <2>3 DEF Bound, Binds, Good, t
<1>4. CASE u.ok
  <2> DEFINE a == BoundAdmin(u.a, spec)
  <2>1. t = [u EXCEPT !.a = a] BY <1>1, <1>2, <1>4 DEF BoundConsent, BoundAdmin, States
  <2>2. /\ a \in Admins
        /\ a.gen = spec.gen /\ a.rev = spec.rev /\ a.current = Nil
        /\ spec.logs => a.logs = "enabled"
        /\ ~spec.logs => a.logs # "enabled"
        /\ a.session = u.a.session /\ a.epoch = u.a.epoch /\ a.prep = u.a.prep
        /\ a.source = u.a.source /\ a.active = u.a.active
        /\ a.consent <=> u.a.consent
    BY <1>2, BoundFields
  <2> HIDE DEF a
  <2>3. t.a = a /\ Differ(u, t, {"a"}) /\ t.ok = u.ok BY <1>2, <2>1, <2>2, PutA
  <2>4. Base(t) BY <1>2, <2>2, <2>3, AdminChanged DEF PlaceOK
  <2>5. u.a = s.a /\ u.a.consent BY <1>0 DEF Binds
  <2> QED BY <1>0, <1>4, <2>2, <2>3, <2>4, <2>5 DEF Bound, Binds, Differ, t
<1> QED BY <1>3, <1>4

\* A step that can publish nothing records nothing.
LEMMA NothingRecorded ==
  ASSUME NEW b, NEW h, NEW g, HistoryStep(b, h, g), \A r : ~Preflight(b, r)
  PROVE  SameLatest(h, g)
BY DEF HistoryStep, SameLatest

\* A consent takes the place of another one: nothing is current until the
\* selection is bound again.
LEMMA PutConsent ==
  ASSUME NEW s, Base(s), s.a.consent, NEW spec \in Authorities, NEW c,
         c = SetConsent(s.b, spec),
         s.b.authority = Nil \/ spec.gen # s.b.authority.gen
  PROVE  LET t == [s EXCEPT !.b = c]
         IN /\ Base(t) /\ Differ(s, t, {"b"}) /\ SameButConsent(s.b, c)
            /\ c.consent.current = spec /\ (c.consent.active <=> s.b.consent.active)
            /\ \A r : ~Preflight(c, r)
<1> DEFINE q == [s.b.consent EXCEPT !.current = spec]
           t == [s EXCEPT !.b = c]
<1>0. /\ s \in States /\ s.b \in Brokers /\ BrokerOK(s.b) /\ WorkerOK(s.w)
      /\ SlotsOK(s.w, s.b, s.a) /\ PlaceOK(s.b, s.a) /\ s.b.consent \in Consents
  BY PartTypes, BrokerType DEF Base, Loose
<1>1. q \in Consents /\ q.current = spec BY <1>0 DEF Consents
<1>2. q.active <=> s.b.consent.active BY <1>0 DEF Consents
<1>3. c = [s.b EXCEPT !.consent = q] BY <1>0 DEF Brokers, SetConsent
<1> HIDE DEF q
<1>4. c \in Brokers /\ c.consent = q /\ SameButConsent(s.b, c)
  BY <1>0, <1>1, <1>3 DEF Brokers, SameButConsent
<1>5. spec # Nil BY NilIsNone
<1>6. c.consent.current # c.authority \/ c.authority = Nil
  BY <1>1, <1>4 DEF SameButConsent
<1>7. BrokerOK(c) /\ Keeps(s.b, c) /\ Tokens(c) = Tokens(s.b) /\ \A r : ~Preflight(c, r)
  BY <1>0, <1>1, <1>4, <1>5, <1>6, ConsentChanged
<1>8. t.b = c /\ Differ(s, t, {"b"}) BY <1>0, <1>4, PutB
<1> HIDE DEF t
<1>9. PlaceOK(c, s.a) BY <1>0, <1>4 DEF PlaceOK, SameButConsent
<1>10. SlotsOK(s.w, c, s.a) BY <1>0, <1>7 DEF SlotsOK
<1>11. t \in States /\ t.a = s.a /\ t.x = s.x /\ t.k = s.k /\ t.w = s.w BY <1>8 DEF Differ
<1>12. Base(t) BY <1>0, <1>7, <1>8, <1>9, <1>10, <1>11, Rearranged
<1> QED BY <1>1, <1>2, <1>4, <1>7, <1>8, <1>12 DEF t

\* apply, of the consent in force
LEMMA AppliedSpec ==
  ASSUME NEW d \in Authorities, NEW enabled \in BOOLEAN
  PROVE  LET spec == [d EXCEPT !.gen = d.gen + 1, !.rev = d.rev + 1, !.logs = enabled]
         IN /\ spec \in Authorities /\ spec.session = d.session /\ spec.target = d.target
            /\ spec.gen # d.gen
<1> DEFINE gen == d.gen + 1
           rev == d.rev + 1
<1>1. gen \in Nat /\ rev \in Nat /\ gen # d.gen BY DEF Authorities
<1>2. CASE enabled = TRUE
  <2> DEFINE spec == [d EXCEPT !.gen = gen, !.rev = rev, !.logs = TRUE]
  <2>1. [d EXCEPT !.gen = d.gen + 1, !.rev = d.rev + 1, !.logs = enabled] = spec BY <1>2
  <2> HIDE DEF gen, rev
  <2>2. /\ spec \in Authorities /\ spec.session = d.session /\ spec.target = d.target
        /\ spec.gen = gen
    BY <1>1 DEF Authorities
  <2> QED BY <1>1, <2>1, <2>2
<1>3. CASE enabled = FALSE
  <2> DEFINE spec == [d EXCEPT !.gen = gen, !.rev = rev, !.logs = FALSE]
  <2>1. [d EXCEPT !.gen = d.gen + 1, !.rev = d.rev + 1, !.logs = enabled] = spec BY <1>3
  <2> HIDE DEF gen, rev
  <2>2. /\ spec \in Authorities /\ spec.session = d.session /\ spec.target = d.target
        /\ spec.gen = gen
    BY <1>1 DEF Authorities
  <2> QED BY <1>1, <2>1, <2>2
<1> QED BY <1>2, <1>3

\* The log policy changes
LEMMA ChangeConsentStays ==
  ASSUME NEW s, Good(s), s.a.active # Nil, NEW enabled \in BOOLEAN, NEW stored \in BOOLEAN,
         NEW bound \in BOOLEAN
  PROVE  LET t == ChangeConsent(s, enabled, stored, bound)
         IN Stays(s, t) /\ t.a.prep = s.a.prep
<1> DEFINE d == s.b.consent.current
           spec == [d EXCEPT !.gen = d.gen + 1, !.rev = d.rev + 1, !.logs = enabled]
           c == ApplyConsent(s.b, enabled)
           r == [s EXCEPT !.b = c]
           u == IF enabled THEN Ok(r) ELSE CancelCurrent(r, stored)
           t == ChangeConsent(s, enabled, stored, bound)
<1>0. /\ Base(s) /\ s \in States /\ s.b \in Brokers /\ BrokerOK(s.b) /\ PlaceOK(s.b, s.a)
      /\ s.b.consent \in Consents /\ s.b.authority \in Authorities \cup {Nil}
      /\ s.a.consent /\ Agrees(s.b, s.k, s.a) /\ s.b.source \in Sources \cup {Nil}
  BY PartTypes, BrokerType DEF Good, Base, Loose, Matches
<1>1. /\ d \in Authorities /\ d = s.b.authority /\ s.b.source # Nil /\ s.b.consent.active
      /\ d.session = s.a.session /\ d.target = s.a.active /\ s.b.source = s.a.source
  BY <1>0 DEF Agrees, BrokerOK
<1>2. /\ spec \in Authorities /\ spec.session = d.session /\ spec.target = d.target
      /\ spec.gen # d.gen
  BY <1>1, AppliedSpec
<1>3. CASE ~CanApplyConsent(s.b, s.a.session, s.a.active, enabled)
  <2>1. t = FailClosed(s) BY <1>3 DEF ChangeConsent
  <2> QED BY <1>0, <2>1, FailClosedHandles, HandlesStays DEF Handles
<1>4. CASE CanApplyConsent(s.b, s.a.session, s.a.active, enabled)
  <2>1. t = BindChanged(u, bound) BY <1>4 DEF ChangeConsent
  <2>2. c = SetConsent(s.b, spec) BY DEF ApplyConsent, SetConsent
  <2> HIDE DEF c, spec, t, d
  <2>3. /\ Base(r) /\ Differ(s, r, {"b"}) /\ SameButConsent(s.b, c) /\ r.b = c
        /\ c.consent.current = spec /\ (c.consent.active <=> s.b.consent.active)
        /\ \A q : ~Preflight(c, q)
    <3>1. r.b = c BY <1>0 DEF States
    <3>2. s.b.authority = Nil \/ spec.gen # s.b.authority.gen BY <1>1, <1>2
    <3>3. /\ Base([s EXCEPT !.b = c]) /\ Differ(s, [s EXCEPT !.b = c], {"b"})
          /\ SameButConsent(s.b, c)
          /\ c.consent.current = spec /\ (c.consent.active <=> s.b.consent.active)
          /\ \A q : ~Preflight(c, q)
      BY <1>0, <1>2, <2>2, <3>2, PutConsent
    <3> QED BY <3>1, <3>3
  <2> HIDE DEF r
  <2>4. Handles(r, u) BY <2>3, OkHandles, CancelCurrentHandles
  <2> HIDE DEF u
  <2>5. Base(u) /\ SameLatest(s.h, u.h) /\ u.a.prep = s.a.prep
    <3>1. SameLatest(r.h, u.h) BY <2>3, <2>4, NothingRecorded DEF Handles
    <3> QED BY <2>3, <2>4, <3>1 DEF Handles, Differ
  <2>6. CASE ~u.ok
    <3>1. t = FailClosed(u) BY <2>1, <2>6 DEF BindChanged
    <3>2. Good(t) /\ Handles(u, t) /\ t.h = u.h BY <2>5, <3>1, FailClosedHandles
    <3>3. Stays(s, t) /\ t.a.prep = s.a.prep BY <2>5, <3>2 DEF Stays, Handles
    <3> QED BY <3>3 DEF t
  <2>7. CASE u.ok
    <3>1. SameAuthority(c, u.b) /\ SameShown(s.a, u.a)
      BY <2>3, <2>4, <2>7 DEF Handles, Differ
    <3>2. u.b.consent.current = spec /\ u.b.consent.active /\ u.a.source = s.b.source
          /\ u.a.consent
      BY <1>0, <1>1, <2>3, <3>1 DEF SameAuthority, SameShown
    <3>3. u.a.source \in Sources /\ u.a.source.epoch = u.b.epoch
      BY <1>0, <1>1, <2>3, <3>1, <3>2 DEF PlaceOK, SameAuthority, SameButConsent
    <3>4. t = BindConsent(u, spec, u.a.source, bound) BY <2>1, <2>7, <3>2 DEF BindChanged
    <3>5. Bound(u, t, spec, u.a.source) BY <1>2, <2>5, <3>2, <3>3, <3>4, ConsentBinds
    <3>6. SameLatest(s.h, t.h) /\ t.a.prep = s.a.prep
      BY <2>5, <3>5 DEF Bound, SameLatest
    <3>7. t.ok => Good(t)
      <4> SUFFICES ASSUME t.ok PROVE Good(t) OBVIOUS
      <4>1. /\ Base(t) /\ t.a.active = s.a.active /\ t.a.session = s.a.session
            /\ t.a.source = u.a.source /\ t.a.consent /\ t.a.current = Nil
            /\ t.a.gen = spec.gen /\ t.a.rev = spec.rev
            /\ spec.logs => t.a.logs = "enabled"
            /\ ~spec.logs => t.a.logs # "enabled"
            /\ t.b.authority = spec /\ t.b.source = u.a.source
            /\ t.b.consent = u.b.consent /\ t.k.tool = spec
        BY <3>1, <3>5 DEF Bound, SameShown
      <4>2. Agrees(t.b, t.k, t.a)
        <5>1. spec # Nil BY <1>2, NilIsNone
        <5> QED BY <1>1, <1>2, <3>2, <4>1, <5>1 DEF Agrees
      <4> QED BY <4>1, <4>2 DEF Good, Matches
    <3>8. Stays(s, t) BY <3>5, <3>6, <3>7 DEF Stays, Bound
    <3> QED BY <3>6, <3>8 DEF t
  <2> QED BY <2>6, <2>7
<1> QED BY <1>3, <1>4

\* A handler that only succeeds, from a good state
LEMMA OkStays ==
  ASSUME NEW s, Good(s)
  PROVE  Stays(s, Ok(s)) /\ Ok(s).a.prep = s.a.prep
<1>1. Differ(s, Ok(s), {}) BY PutOk DEF Good, Base, Loose
<1>2. Handles(s, Ok(s)) BY OkHandles DEF Good
<1> QED BY <1>1, <1>2, HandlesStays DEF Differ

\* fail_closed, from a good state
LEMMA FailClosedStays ==
  ASSUME NEW s, Good(s)
  PROVE  Stays(s, FailClosed(s)) /\ FailClosed(s).a.prep = s.a.prep
BY FailClosedHandles, HandlesStays DEF Good, Handles

\* revoke_selected_logs
LEMMA RevokeLogsStays ==
  ASSUME NEW s, Good(s), NEW stored \in BOOLEAN, NEW bound \in BOOLEAN
  PROVE  LET t == RevokeSelectedLogs(s, stored, bound)
         IN Stays(s, t) /\ t.a.prep = s.a.prep
<1>1. CASE s.a.logs # "enabled" BY <1>1, OkStays DEF RevokeSelectedLogs
<1>2. CASE s.a.logs = "enabled"
  <2>1. s.a.active # Nil BY <1>2 DEF Good, Matches
  <2> QED BY <1>2, <2>1, ChangeConsentStays DEF RevokeSelectedLogs
<1> QED BY <1>1, <1>2

\* A selection that was made: the consent is for it, and nothing is bound.
Made(s, made, target) ==
  \/ made.spec = Nil /\ Stays(s, made.s) /\ made.s.a.prep = s.a.prep
  \/ /\ made.spec \in Authorities /\ ~made.spec.logs
     /\ made.spec.session = s.a.session /\ made.spec.target = target
     /\ Base(made.s) /\ SameLatest(s.h, made.s.h)
     /\ made.s.a.prep = s.a.prep /\ made.s.a.session = s.a.session
     /\ made.s.a.epoch = s.a.epoch /\ made.s.a.consent
     /\ made.s.b.consent.active /\ made.s.b.consent.current = made.spec
     /\ made.s.b.epoch = s.b.epoch

\* The consent is the controller's from now on.
LEMMA ConsentTaken ==
  ASSUME NEW s, Base(s)
  PROVE  LET r == [s EXCEPT !.a.consent = TRUE]
         IN /\ Base(r) /\ Differ(s, r, {"a"}) /\ r.a.consent /\ r.a.prep = s.a.prep
            /\ r.a.session = s.a.session /\ r.a.epoch = s.a.epoch
            /\ r = [s EXCEPT !.a = r.a]
<1> DEFINE a == [s.a EXCEPT !.consent = TRUE]
           r == [s EXCEPT !.a.consent = TRUE]
<1>0. s \in States /\ s.a \in Admins /\ PlaceOK(s.b, s.a) BY PartTypes DEF Base, Loose
<1>1. r = [s EXCEPT !.a = a] BY <1>0 DEF States
<1>2. /\ a \in Admins /\ a.prep = s.a.prep /\ a.session = s.a.session
      /\ a.epoch = s.a.epoch /\ a.source = s.a.source
  BY <1>0 DEF Admins
<1>3. a.consent BY <1>0 DEF Admins
<1> HIDE DEF a
<1>4. r.a = a /\ Differ(s, r, {"a"}) BY <1>0, <1>1, <1>2, PutA
<1> HIDE DEF r
<1>5. Base(r) BY <1>0, <1>2, <1>3, <1>4, AdminChanged DEF PlaceOK
<1> QED BY <1>1, <1>2, <1>3, <1>4, <1>5 DEF r

\* make_selection_authority, with the selection it takes.
LEMMA MadeWith ==
  ASSUME NEW s, Good(s), NEW spec \in Authorities, NEW target, NEW made,
         s.b.authority = Nil \/ spec.gen # s.b.authority.gen,
         s.b.consent.active, ~spec.logs, spec.session = s.a.session, spec.target = target,
         made = [s |-> [s EXCEPT !.b = SetConsent(@, spec), !.a.consent = TRUE],
                 spec |-> spec]
  PROVE  Made(s, made, target)
<1> DEFINE r == [s EXCEPT !.a.consent = TRUE]
           c == SetConsent(r.b, spec)
           t == [r EXCEPT !.b = c]
<1>0. Base(s) /\ s \in States /\ s.b \in Brokers BY PartTypes DEF Good, Base, Loose
<1>1. /\ Base(r) /\ Differ(s, r, {"a"}) /\ r.a.consent /\ r.a.prep = s.a.prep
      /\ r.a.session = s.a.session /\ r.a.epoch = s.a.epoch /\ r = [s EXCEPT !.a = r.a]
  BY <1>0, ConsentTaken
<1>2. r.b = s.b /\ r.h = s.h /\ r \in States BY <1>1 DEF Differ
<1>3. made.s = t /\ made.spec = spec
  <2>1. made.s = [s EXCEPT !.b = SetConsent(s.b, spec), !.a.consent = TRUE] OBVIOUS
  <2>2. [s EXCEPT !.b = SetConsent(s.b, spec), !.a.consent = TRUE] = t
    <3> DEFINE d == SetConsent(s.b, spec)
    <3>1. c = d BY <1>2
    <3> HIDE DEF d, c
    <3> QED BY <3>1, <1>0 DEF States, d
  <2> QED BY <2>1, <2>2
<1> HIDE DEF r
<1>4. /\ Base(t) /\ Differ(r, t, {"b"}) /\ SameButConsent(r.b, c)
      /\ c.consent.current = spec /\ (c.consent.active <=> r.b.consent.active)
  BY <1>1, <1>2, PutConsent
<1>5. t.b = c BY <1>2 DEF States
<1> HIDE DEF t, c
<1>6. t.a = r.a /\ t.h = s.h BY <1>2, <1>4 DEF Differ
<1>7. t.b.consent.active /\ t.b.consent.current = spec /\ t.b.epoch = s.b.epoch
  BY <1>2, <1>4, <1>5 DEF SameButConsent
<1> QED BY <1>1, <1>3, <1>4, <1>6, <1>7 DEF Made, SameLatest

\* make_selection_authority
LEMMA SelectionMade ==
  ASSUME NEW s, Good(s), s.a.session # Nil, NEW target \in Targets
  PROVE  Made(s, MakeSelection(s, target), target)
<1> DEFINE made == MakeSelection(s, target)
           held == s.b.consent.current
           first == [session |-> s.a.session, target |-> target,
                     gen |-> s.a.gen + 1, rev |-> 1, logs |-> FALSE]
           next == [first EXCEPT !.gen = held.gen + 1, !.rev = held.rev + 1]
<1>0. /\ Base(s) /\ s \in States /\ s.a \in Admins /\ s.b \in Brokers /\ BrokerOK(s.b)
      /\ Matches(s.b, s.k, s.a) /\ held \in Authorities \cup {Nil}
  BY PartTypes, BrokerType DEF Good, Base, Loose
<1>1. s.a.session \in Sessions /\ s.a.gen \in Nat BY <1>0 DEF Admins
<1>2. /\ first \in Authorities /\ ~first.logs /\ first.session = s.a.session
      /\ first.target = target
  <2> DEFINE gen == s.a.gen + 1
  <2>1. gen \in Nat BY <1>1
  <2>2. first = [session |-> s.a.session, target |-> target,
                 gen |-> gen, rev |-> 1, logs |-> FALSE]
    OBVIOUS
  <2> HIDE DEF gen, first
  <2> QED BY <1>1, <2>1, <2>2 DEF Authorities
<1>3. CASE ~s.a.consent /\ CanStartConsent(s.b)
  <2>1. made = [s |-> [s EXCEPT !.b = SetConsent(@, first), !.a.consent = TRUE],
                spec |-> first]
    BY <1>3 DEF MakeSelection
  <2>2. s.b.authority = Nil /\ s.b.consent.active BY <1>0, <1>3 DEF CanStartConsent, BrokerOK
  <2> HIDE DEF first, made
  <2>3. Made(s, made, target) BY <1>2, <2>1, <2>2, MadeWith
  <2> QED BY <2>3 DEF made
<1>4. CASE s.a.consent /\ ConsentInForce(s.b) /\ CanReplaceConsent(s.b, next)
  <2>1. made = [s |-> [s EXCEPT !.b = SetConsent(@, next), !.a.consent = TRUE],
                spec |-> next]
    BY <1>4 DEF MakeSelection
  <2>2. held \in Authorities /\ s.b.consent.active BY <1>0, <1>4 DEF ConsentInForce
  <2>3. held = s.b.authority BY <1>0, <1>4 DEF Matches, Agrees
  <2>4. /\ next \in Authorities /\ ~next.logs /\ next.session = s.a.session
        /\ next.target = target /\ next.gen # held.gen
    <3> DEFINE gen == held.gen + 1
               rev == held.rev + 1
    <3>1. gen \in Nat /\ rev \in Nat /\ gen # held.gen BY <2>2 DEF Authorities
    <3>2. next = [first EXCEPT !.gen = gen, !.rev = rev] OBVIOUS
    <3> HIDE DEF gen, rev, first, next
    <3>3. next \in Authorities /\ next.gen = gen /\ next.session = first.session
          /\ next.target = first.target
      BY <1>2, <3>1, <3>2 DEF Authorities
    <3>4. ~next.logs BY <1>2, <3>2 DEF Authorities
    <3> QED BY <1>2, <3>1, <3>3, <3>4
  <2> HIDE DEF next, made
  <2>5. Made(s, made, target) BY <2>1, <2>2, <2>3, <2>4, MadeWith
  <2> QED BY <2>5 DEF made
<1>5. CASE \E u \in {Refuse(s), FailClosed(s)} : made = [s |-> u, spec |-> Nil]
  <2>1. PICK u \in {Refuse(s), FailClosed(s)} : made = [s |-> u, spec |-> Nil] BY <1>5
  <2>2. Differ(s, Refuse(s), {}) /\ Stays(s, Refuse(s)) BY <1>0, RefuseStays, RefuseHandles
  <2>3. Stays(s, u) /\ u.a.prep = s.a.prep BY <2>1, <2>2, FailClosedStays DEF Differ
  <2> HIDE DEF made
  <2>4. made.s = u /\ made.spec = Nil BY <2>1
  <2>5. Made(s, made, target) BY <2>3, <2>4 DEF Made
  <2> QED BY <2>5 DEF made
<1>6. \/ ~s.a.consent /\ CanStartConsent(s.b)
      \/ s.a.consent /\ ConsentInForce(s.b) /\ CanReplaceConsent(s.b, next)
      \/ \E u \in {Refuse(s), FailClosed(s)} : made = [s |-> u, spec |-> Nil]
  BY DEF MakeSelection
<1> QED BY <1>3, <1>4, <1>5, <1>6

\* bind_prepared, once the selection is made
LEMMA BindMadeStays ==
  ASSUME NEW s, Good(s), NEW made, NEW source \in Sources, source.epoch = s.b.epoch,
         Made(s, made, source.target), NEW stored \in BOOLEAN
  PROVE  LET t == BindMade(made, source, stored)
         IN Stays(s, t) /\ t.a.prep = s.a.prep
<1>1. CASE made.spec = Nil
  <2>1. Stays(s, made.s) /\ made.s.a.prep = s.a.prep BY <1>1, NilIsNone DEF Made
  <2> QED BY <1>1, <2>1 DEF BindMade
<1>2. CASE made.spec # Nil
  <2> DEFINE u == BindConsent(made.s, made.spec, source, stored)
             t == BindMade(made, source, stored)
             spec == made.spec
  <2>1. /\ spec \in Authorities /\ ~spec.logs
        /\ spec.session = s.a.session /\ spec.target = source.target
        /\ Base(made.s) /\ SameLatest(s.h, made.s.h)
        /\ made.s.a.prep = s.a.prep /\ made.s.a.session = s.a.session
        /\ made.s.a.epoch = s.a.epoch /\ made.s.a.consent
        /\ made.s.b.consent.active /\ made.s.b.consent.current = spec
        /\ made.s.b.epoch = s.b.epoch
    BY <1>2 DEF Made
  <2>2. Bound(made.s, u, spec, source) BY <2>1, ConsentBinds
  <2>3. t = Shown(u, source) BY <1>2 DEF BindMade
  <2> HIDE DEF u, t
  <2>4. Base(u) /\ SameLatest(s.h, u.h) /\ u.a.prep = s.a.prep
    BY <2>1, <2>2 DEF Bound, SameLatest
  <2>5. CASE ~u.ok
    <3>1. t = u /\ Good(u) BY <2>2, <2>3, <2>5 DEF Shown, Bound
    <3> QED BY <2>4, <3>1 DEF Stays, t
  <2>6. CASE u.ok
    <3> DEFINE a == [u.a EXCEPT !.active = source.target, !.source = source,
                                !.evidence = FALSE]
    <3>1. u \in States /\ u.a \in Admins /\ PlaceOK(u.b, u.a)
      BY <2>4, PartTypes DEF Base, Loose
    <3>2. t = [u EXCEPT !.a = a] BY <2>3, <2>6, <3>1 DEF Shown, States
    <3>3. source.target \in Targets BY DEF Sources
    <3>4. /\ a \in Admins /\ a.active = source.target /\ a.source = source
          /\ a.session = u.a.session /\ a.epoch = u.a.epoch /\ a.prep = u.a.prep
          /\ a.gen = u.a.gen /\ a.rev = u.a.rev /\ a.logs = u.a.logs
          /\ a.current = u.a.current
      BY <3>1, <3>3 DEF Admins
    <3>5. a.consent <=> u.a.consent BY <3>1 DEF Admins
    <3> HIDE DEF a
    <3>6. t.a = a /\ Differ(u, t, {"a"}) BY <3>1, <3>2, <3>4, PutA
    <3>7. /\ u.a.session = s.a.session /\ u.a.epoch = s.a.epoch /\ u.a.consent
          /\ u.a.current = Nil /\ u.a.gen = spec.gen /\ u.a.rev = spec.rev
          /\ ~spec.logs => u.a.logs # "enabled"
          /\ u.b.authority = spec /\ u.b.source = source
          /\ u.b.consent = made.s.b.consent /\ u.k.tool = spec
      BY <2>1, <2>2, <2>6 DEF Bound
    <3>8. u.a.epoch = u.b.epoch /\ u.b.source.epoch = u.b.epoch
      BY <3>1, <3>7, NilIsNone DEF PlaceOK
    <3>9. Base(t) BY <2>4, <3>4, <3>5, <3>6, <3>7, <3>8, AdminChanged
    <3>10. t.b = u.b /\ t.k = u.k /\ t.h = u.h BY <3>6 DEF Differ
    <3>11. a.active # Nil /\ spec # Nil BY <3>3, <3>4, <2>1, NilIsNone
    <3>12. Agrees(t.b, t.k, a)
      BY <2>1, <3>4, <3>7, <3>10, <3>11 DEF Agrees
    <3>13. Matches(t.b, t.k, t.a) BY <3>4, <3>5, <3>6, <3>7, <3>11, <3>12 DEF Matches
    <3>14. Stays(s, t) BY <2>4, <3>9, <3>10, <3>13 DEF Stays, Good
    <3> QED BY <2>4, <3>4, <3>6, <3>14 DEF t
  <2> QED BY <2>5, <2>6
<1> QED BY <1>1, <1>2

\* A call that is not eligible
LEMMA IneligibleStays ==
  ASSUME NEW s, Good(s)
  PROVE  LET t == Ineligible(s)
         IN Stays(s, t) /\ t.a.prep = s.a.prep
<1> DEFINE why == s.k.problem
<1>0. Base(s) /\ s \in States /\ why \in Failures BY PartTypes, KernelType DEF Good, Base, Loose
<1>1. ASSUME NEW y \in Failures
      PROVE  Stays(s, Fail(s, y)) /\ Fail(s, y).a.prep = s.a.prep
  <2>1. Differ(s, Fail(s, y), {}) BY <1>0, PutFail
  <2>2. Handles(s, Fail(s, y)) BY <1>0, FailHandles
  <2> QED BY <2>1, <2>2, HandlesStays DEF Differ
<1>2. ASSUME NEW y \in Failures
      PROVE  LET t == FailClosed(Fail(s, y)) IN Stays(s, t) /\ t.a.prep = s.a.prep
  <2> DEFINE u == Fail(s, y)
  <2>1. Stays(s, u) /\ u.a.prep = s.a.prep BY <1>1
  <2> HIDE DEF u
  <2>2. Stays(u, FailClosed(u)) /\ FailClosed(u).a.prep = u.a.prep
    BY <2>1, FailClosedStays DEF Stays
  <2>3. Stays(s, FailClosed(u)) BY <2>1, <2>2, StaysChain
  <2> QED BY <2>1, <2>2, <2>3 DEF u
<1>3. Ineligible(s) = FailClosed(Fail(s, why)) \/ Ineligible(s) = Fail(s, "other")
  BY DEF Ineligible
<1>4. "other" \in Failures BY DEF Failures
<1> QED BY <1>0, <1>1, <1>2, <1>3, <1>4

\* bind_prepared
LEMMA BindPreparedStays ==
  ASSUME NEW s, Good(s), s.a.prep # Nil, ~s.a.prep.discarded, s.a.prep.claimed # Nil,
         NEW stored \in BOOLEAN
  PROVE  LET t == BindPrepared(s, stored)
         IN Stays(s, t) /\ t.a.prep = s.a.prep
<1> DEFINE source == s.a.prep.claimed
<1>0. s \in States /\ s.a \in Admins /\ PlaceOK(s.b, s.a) BY PartTypes DEF Good, Base, Loose
<1>1. source \in Sources /\ source.target \in Targets
  BY <1>0 DEF Admins, PreparationWork, Sources
<1>2. source.epoch = s.b.epoch BY <1>0 DEF PlaceOK
<1>3. CASE ~Eligible(s, FALSE) BY <1>3, IneligibleStays DEF BindPrepared
<1>4. CASE Eligible(s, FALSE)
  <2> DEFINE made == MakeSelection(s, source.target)
  <2>1. s.a.session # Nil BY <1>4 DEF Eligible
  <2>2. Made(s, made, source.target) BY <1>1, <2>1, SelectionMade
  <2>3. BindPrepared(s, stored) = BindMade(made, source, stored) BY <1>4 DEF BindPrepared
  <2> HIDE DEF made, source
  <2>4. LET t == BindMade(made, source, stored) IN Stays(s, t) /\ t.a.prep = s.a.prep
    BY <1>1, <1>2, <2>2, BindMadeStays
  <2> QED BY <2>3, <2>4
<1> QED BY <1>3, <1>4

\* A preparation that is over is forgotten.
LEMMA ForgetStays ==
  ASSUME NEW s, Good(s), s.a.prep # Nil, s.a.prep.id \notin LiveIds(s.w)
  PROVE  Stays(s, [s EXCEPT !.a.prep = Nil])
<1> DEFINE t == [s EXCEPT !.a.prep = Nil]
<1>0. Base(s) /\ s \in States /\ WorkerOK(s.w) BY DEF Good, Base, Loose
<1>1. Works(s.w, s.w, {}, {s.a.prep.id}) BY <1>0, NextRequestIsNew DEF Works
<1>2. t = [s EXCEPT !.w = s.w, !.a = [s.a EXCEPT !.prep = Nil]] BY <1>0 DEF States
<1> HIDE DEF t
<1>3. Tends(s, t) BY <1>0, <1>1, <1>2, PrepChanged
<1>4. Stays(s, t) BY <1>3, TendsStays
<1> QED BY <1>4 DEF t

\* A preparation that is not outstanding has no live job.
LEMMA NotOutstanding ==
  ASSUME NEW s, ~Outstanding(s)
  PROVE  s.a.prep.id \notin LiveIds(s.w)
BY DEF Outstanding, Known, LiveIds, Retired, Live

\* pump_preparation
LEMMA PumpPreparationStays ==
  ASSUME NEW s, Good(s), NEW late, NEW stored \in BOOLEAN
  PROVE  Stays(s, PumpPreparation(s, late, stored))
<1> DEFINE p == s.a.prep
           t == PumpPreparation(s, late, stored)
<1>1. CASE p = Nil BY <1>1, SameStays DEF PumpPreparation
<1>2. CASE p # Nil /\ p.discarded
  BY <1>2, SameStays, ForgetStays, NotOutstanding DEF PumpPreparation
<1>3. CASE p # Nil /\ ~p.discarded /\ t = CancelPreparation(s)
  BY <1>3, CancelPreparationStays
<1>4. CASE p # Nil /\ ~p.discarded /\ t = Refuse(CancelPreparation(s))
  <2> DEFINE u == CancelPreparation(s)
  <2>1. Stays(s, u) BY CancelPreparationStays
  <2> HIDE DEF u
  <2>2. Stays(u, Refuse(u)) BY <2>1, RefuseStays DEF Stays
  <2>3. Stays(s, Refuse(u)) BY <2>1, <2>2, StaysChain
  <2> QED BY <1>4, <2>3 DEF u
<1>5. CASE p # Nil /\ ~p.discarded /\ p.claimed = Nil /\ PreparationReady(s)
           /\ t = ClaimPrepared(s, late = "polled")
  BY <1>5, ClaimStays
<1>6. CASE t = s BY <1>6, SameStays
<1>7. CASE p # Nil /\ ~p.discarded /\ p.claimed # Nil
           /\ t = [BindPrepared(s, stored) EXCEPT !.a.prep = Nil]
  <2> DEFINE u == BindPrepared(s, stored)
  <2>1. Stays(s, u) /\ u.a.prep = p BY <1>7, BindPreparedStays
  <2> HIDE DEF u
  <2>2. Good(u) /\ u.a.prep # Nil /\ u.a.prep.id \notin LiveIds(u.w)
    BY <1>7, <2>1 DEF Stays, Good, Base, Loose, SlotsOK
  <2>3. Stays(u, [u EXCEPT !.a.prep = Nil]) BY <2>2, ForgetStays
  <2>4. Stays(s, [u EXCEPT !.a.prep = Nil]) BY <2>1, <2>3, StaysChain
  <2> QED BY <1>7, <2>4 DEF u
<1>8. (p # Nil /\ ~p.discarded) =>
        \/ t = CancelPreparation(s)
        \/ t = Refuse(CancelPreparation(s))
        \/ p.claimed = Nil /\ PreparationReady(s) /\ t = ClaimPrepared(s, late = "polled")
        \/ t = s
        \/ p.claimed # Nil /\ t = [BindPrepared(s, stored) EXCEPT !.a.prep = Nil]
  BY DEF PumpPreparation
<1> QED BY <1>1, <1>2, <1>3, <1>4, <1>5, <1>6, <1>7, <1>8
-----------------------------------------------------------------------------
(* The actions.                                                             *)

\* A handler that ends in a good state, and records no success that was not
\* allowed when it began.
Completes(s, t) == Good(t) /\ HistoryStep(s.b, s.h, t.h)

\* A handler that records no success.
LEMMA StaysCompletes ==
  ASSUME NEW s, NEW t, Stays(s, t)
  PROVE  Completes(s, t)
BY DEF Stays, SameLatest, Completes, HistoryStep

\* A handler that leaves the authority alone, or gives it up.
LEMMA HandlesCompletes ==
  ASSUME NEW s, NEW t, Good(s), Handles(s, t)
  PROVE  Completes(s, t)
BY DEF Good, Handles, Completes

\* A step of the session
LEMMA SettlesCompletes ==
  ASSUME NEW s, NEW t, Good(s), Settles(s, t)
  PROVE  Completes(s, t)
<1>1. Base(t) /\ Advances(s, t) BY SettlesBase
<1>2. Matches(t.b, t.k, t.a) BY <1>1, AdvancesMatch DEF Good, Base
<1> QED BY <1>1, <1>2 DEF Good, Completes, Advances

\* What follows records nothing more.
LEMMA CompletesThenStays ==
  ASSUME NEW s, NEW t, NEW u, Completes(s, t), Stays(t, u)
  PROVE  Completes(s, u)
BY DEF Completes, Stays, SameLatest, HistoryStep

\* A handler begins with the outcome of no call.
LEMMA OutcomeForgotten ==
  ASSUME NEW t, Good(t)
  PROVE  Good([w |-> t.w, b |-> t.b, x |-> t.x, k |-> t.k, h |-> t.h, a |-> t.a,
               ok |-> TRUE, why |-> Nil, lost |-> FALSE])
<1> DEFINE u == [w |-> t.w, b |-> t.b, x |-> t.x, k |-> t.k, h |-> t.h, a |-> t.a,
                 ok |-> TRUE, why |-> Nil, lost |-> FALSE]
<1>1. t \in States BY DEF Good, Base, Loose
<1>2. u \in States BY <1>1 DEF States, Failures
<1>3. /\ u.w = t.w /\ u.b = t.b /\ u.x = t.x /\ u.k = t.k /\ u.h = t.h /\ u.a = t.a
  OBVIOUS
<1> HIDE DEF u
<1>4. Good(u) BY <1>2, <1>3 DEF Good, Base, Loose
<1> QED BY <1>4 DEF u

\* The state a handler leaves.
LEMMA Becoming ==
  ASSUME NEW t, Completes(Here, t), Becomes(t)
  PROVE  AdminInv' /\ HistoryStep(broker, history, history')
<1>1. Here' = [w |-> t.w, b |-> t.b, x |-> t.x, k |-> t.k, h |-> t.h, a |-> t.a,
               ok |-> TRUE, why |-> Nil, lost |-> FALSE]
  BY DEF Here, Becomes
<1>2. Good(Here') BY <1>1, OutcomeForgotten DEF Completes
<1>3. AdminInv' BY <1>2 DEF AdminInv
<1>4. HistoryStep(broker, history, history') BY DEF Completes, Here, Becomes
<1> QED BY <1>3, <1>4

\* What a step promises.
StepOK == AdminInv' /\ HistoryStep(broker, history, history')

\* The parts of the current state
LEMMA HereIs ==
  /\ Here.w = worker /\ Here.b = broker /\ Here.x = exec /\ Here.k = session
  /\ Here.h = history /\ Here.a = admin /\ Here.ok
BY DEF Here

\* select, once no preparation is outstanding
LEMMA SelectClearedStays ==
  ASSUME NEW s, Good(s), NEW target \in Targets, NEW launch, NEW stored \in BOOLEAN,
         NEW bound \in BOOLEAN
  PROVE  Stays(s, SelectCleared(s, target, launch, stored, bound))
<1> DEFINE u == RevokeSelectedLogs(s, stored, bound)
<1>1. CASE s.a.prep # Nil
  BY <1>1, RefuseStays DEF SelectCleared
<1>2. CASE s.a.prep = Nil
  <2>1. SelectCleared(s, target, launch, stored, bound) = SelectPrepared(u, target, launch)
    BY <1>2 DEF SelectCleared
  <2>2. Stays(s, u) /\ u.a.prep = Nil BY <1>2, RevokeLogsStays
  <2> HIDE DEF u
  <2>3. Good(u) BY <2>2 DEF Stays
  <2>4. Stays(u, SelectPrepared(u, target, launch))
    <3>1. CASE ~u.ok BY <2>3, <3>1, SameStays DEF SelectPrepared
    <3>2. CASE u.ok /\ ~Eligible(u, FALSE)
      BY <2>3, <3>2, IneligibleStays DEF SelectPrepared
    <3>3. CASE u.ok /\ Eligible(u, FALSE)
      <4>1. u.a.session # Nil BY <3>3 DEF Eligible
      <4> QED BY <2>2, <2>3, <3>3, <4>1, SubmitPreparationStays DEF SelectPrepared
    <3> QED BY <3>1, <3>2, <3>3
  <2> QED BY <2>1, <2>2, <2>4, StaysChain
<1> QED BY <1>1, <1>2

\* AdminController::select
LEMMA SelectStep ==
  ASSUME AdminInv, NEW target \in Targets, NEW launch, NEW stored \in BOOLEAN,
         NEW bound \in BOOLEAN, SelectTarget(target, launch, stored, bound)
  PROVE  StepOK
<1> DEFINE s == CancelPreparation(Here)
           t == IF ~Eligible(Here, TRUE) THEN Ineligible(Here)
                ELSE SelectCleared(s, target, launch, stored, bound)
<1>1. Good(Here) BY DEF AdminInv
<1>2. Stays(Here, t)
  <2>1. CASE ~Eligible(Here, TRUE) BY <1>1, <2>1, IneligibleStays
  <2>2. CASE Eligible(Here, TRUE)
    <3>1. Stays(Here, s) BY <1>1, CancelPreparationStays
    <3> HIDE DEF s
    <3>2. Stays(s, SelectCleared(s, target, launch, stored, bound))
      BY <3>1, SelectClearedStays DEF Stays
    <3> QED BY <2>2, <3>1, <3>2, StaysChain
  <2> QED BY <2>1, <2>2
<1>3. Becomes(t) BY DEF SelectTarget
<1> HIDE DEF t
<1> QED BY <1>2, <1>3, StaysCompletes, Becoming DEF StepOK

\* The evidence for a log source is shown to the user only.
LEMMA EvidenceStays ==
  ASSUME NEW s, Good(s)
  PROVE  Stays(s, WithEvidence(s))
<1>1. CASE ~s.ok BY <1>1, SameStays DEF WithEvidence
<1>2. CASE s.ok
  <2> DEFINE c == [s.a EXCEPT !.evidence = TRUE]
             t == [s EXCEPT !.a = c]
  <2>0. s \in States /\ s.a \in Admins BY PartTypes DEF Good, Base, Loose
  <2>1. WithEvidence(s) = t BY <1>2, <2>0 DEF WithEvidence, States
  <2>2. c \in Admins BY <2>0 DEF Admins
  <2>3. SameShown(s.a, c) BY <2>0 DEF Admins, SameShown
  <2> HIDE DEF c
  <2>4. t.a = c /\ Differ(s, t, {"a"}) BY <2>0, <2>2, PutA
  <2> HIDE DEF t
  <2>5. Handles(s, t) BY <2>3, <2>4, ShownHandles DEF Good
  <2>6. t.h = s.h BY <2>4 DEF Differ
  <2> QED BY <2>1, <2>5, <2>6, HandlesStays
<1> QED BY <1>1, <1>2

\* AdminController::change_logs
LEMMA ChangeLogsStep ==
  ASSUME AdminInv, NEW enabled \in BOOLEAN, NEW stored \in BOOLEAN,
         NEW bound \in BOOLEAN, ChangeLogs(enabled, stored, bound)
  PROVE  StepOK
<1> DEFINE u == ChangeConsent(Here, enabled, stored, bound)
           t == WithEvidence(u)
<1>1. Good(Here) /\ Here.a.active # Nil BY HereIs DEF AdminInv, ChangeLogs
<1>2. Stays(Here, u) BY <1>1, ChangeConsentStays
<1>3. Becomes(t) BY DEF ChangeLogs
<1> HIDE DEF u
<1>4. Stays(u, t) BY <1>2, EvidenceStays DEF Stays
<1> HIDE DEF t
<1> QED BY <1>2, <1>3, <1>4, StaysChain, StaysCompletes, Becoming DEF StepOK

\* AdminCancel and AdminCloseView
LEMMA CancelAdminStep ==
  ASSUME AdminInv, NEW stored \in BOOLEAN, CancelAdmin(stored)
  PROVE  StepOK
<1> DEFINE s == CancelPreparation(Here)
           t == CancelCurrent(s, stored)
<1>1. Good(Here) BY DEF AdminInv
<1>2. Tends(Here, s) BY <1>1, CancelPreparationTends DEF Good
<1>3. Becomes(t) BY DEF CancelAdmin
<1> HIDE DEF s
<1>4. Good(s) /\ s.b = Here.b /\ s.h = Here.h
  BY <1>1, <1>2 DEF Good, Tends, Differ
<1>5. Completes(s, t) BY <1>4, CancelCurrentHandles, HandlesCompletes DEF Good
<1> HIDE DEF t
<1>6. Completes(Here, t) BY <1>4, <1>5 DEF Completes
<1> QED BY <1>3, <1>6, Becoming DEF StepOK

\* cancel_active
LEMMA InterruptStep ==
  ASSUME AdminInv, NEW stored \in BOOLEAN, Interrupt(stored)
  PROVE  StepOK
<1> DEFINE t == IF session.run.manual
                THEN CancelObservation(Here, session.manual.run, stored)
                ELSE CancelRun(Here, stored)
<1>1. Good(Here) /\ Here.k.run # Nil BY HereIs DEF AdminInv, Interrupt
<1>2. Settles(Here, t)
  BY <1>1, CancelObservationSettles, CancelSettles DEF Good
<1>3. Becomes(t) BY DEF Interrupt
<1> HIDE DEF t
<1> QED BY <1>1, <1>2, <1>3, SettlesCompletes, Becoming DEF StepOK

\* decide_observation_approval and decide_approval
LEMMA DecideStep ==
  ASSUME AdminInv, NEW approved \in BOOLEAN, NEW stored \in BOOLEAN,
         Decide(approved, stored)
  PROVE  StepOK
<1> DEFINE u == IF approved THEN Launch(Here, stored)
                ELSE Commit(Here, RecordToolError(Here), stored)
           t == Decided(u, session.run.manual)
<1>1. Good(Here) /\ Base(Here) /\ Loose(Here) BY DEF AdminInv, Good, Base
<1>2. Proposed(Here.k)
  BY <1>1, HereIs DEF Decide, Proposed, Base, SettledOK
<1>3. Settles(Here, u)
  <2>1. CASE approved BY <1>1, <1>2, <2>1, LaunchSettles
  <2>2. CASE ~approved
    <3> DEFINE q == RecordToolError(Here)
    <3>1. Advances(Here, q) /\ HandledOK(q.k, q.x) BY <1>1, <1>2, ErrorAdvances DEF Proposed
    <3> HIDE DEF q
    <3>2. Settles(Here, Commit(Here, q, stored)) BY <1>1, <3>1, CommitSettles
    <3> QED BY <2>2, <3>2 DEF q
  <2> QED BY <2>1, <2>2
<1>4. Becomes(t) BY DEF Decide
<1> HIDE DEF u
<1>5. Base(u) BY <1>3, SettlesBase
<1>6. Settles(u, t)
  <2>1. CASE session.run.manual
    <3> DEFINE q == ReportKernelFailure(u)
    <3>1. Settles(u, q) BY <1>5, ReportKernelSettles
    <3> HIDE DEF q
    <3>2. Settles(q, Synchronize(q)) BY <3>1, SettlesBase, SynchronizeSettles
    <3>3. Settles(u, Synchronize(q)) BY <3>1, <3>2, SettlesChain
    <3> QED BY <2>1, <3>3 DEF Decided, q
  <2>2. CASE ~session.run.manual BY <1>5, <2>2, SameSettles DEF Decided
  <2> QED BY <2>1, <2>2
<1> HIDE DEF t
<1>7. Settles(Here, t) BY <1>3, <1>6, SettlesChain
<1> QED BY <1>1, <1>4, <1>7, SettlesCompletes, Becoming DEF StepOK

\* AdminController::pump
LEMMA PumpStep ==
  ASSUME AdminInv, NEW launch, NEW late, NEW stored \in BOOLEAN, NEW bound \in BOOLEAN,
         Pump(launch, late, stored, bound)
  PROVE  StepOK
<1> DEFINE p == PumpSession(Here, launch, stored)
           r == Report(p)
           o == Ok(r)
           y == SynchronizeAdmin(o)
           t == PumpedAndSynced(y, p.ok, late, bound)
<1>1. Good(Here) /\ Base(Here) BY DEF AdminInv, Good
<1>2. Settles(Here, p) BY <1>1, PumpSessionSettles
<1>3. Becomes(t) BY DEF Pump, Pumped
<1> HIDE DEF p
<1>4. Completes(Here, p) BY <1>1, <1>2, SettlesCompletes
<1>5. Good(p) BY <1>4 DEF Completes
<1>6. Stays(p, r) BY <1>5, ReportHandles, HandlesStays DEF Good
<1> HIDE DEF r
<1>7. Stays(r, o) BY <1>6, OkStays DEF Stays
<1> HIDE DEF o
<1>8. Stays(o, y)
  <2>1. Good(o) BY <1>7 DEF Stays
  <2> QED BY <2>1, SynchronizeAdminHandles, HandlesStays DEF Good
<1> HIDE DEF y
<1>9. Stays(y, t)
  <2>1. Good(y) BY <1>8 DEF Stays
  <2>2. CASE p.ok /\ y.ok BY <2>1, <2>2, PumpPreparationStays DEF PumpedAndSynced
  <2>3. CASE ~(p.ok /\ y.ok) BY <2>1, <2>3, CancelPreparationStays DEF PumpedAndSynced
  <2> QED BY <2>2, <2>3
<1> HIDE DEF t
<1>10. Stays(p, t) BY <1>6, <1>7, <1>8, <1>9, StaysChain
<1>11. Completes(Here, t) BY <1>4, <1>10, CompletesThenStays
<1> QED BY <1>3, <1>11, Becoming DEF StepOK

\* ChatSession::drain
LEMMA DrainChatStep ==
  ASSUME AdminInv, NEW launch, NEW stored \in BOOLEAN, DrainChat(launch, stored)
  PROVE  StepOK
<1> DEFINE p == PumpSession(Here, launch, stored)
           t == DrainPumped(p, stored)
<1>1. Good(Here) /\ Base(Here) BY DEF AdminInv, Good
<1>2. Settles(Here, p) BY <1>1, PumpSessionSettles
<1>3. Becomes(t) BY DEF DrainChat
<1> HIDE DEF p
<1>4. Base(p) BY <1>2, SettlesBase
<1>5. Settles(p, t) BY <1>4, SameSettles, DrainSettles DEF DrainPumped
<1> HIDE DEF t
<1>6. Settles(Here, t) BY <1>2, <1>5, SettlesChain
<1> QED BY <1>1, <1>3, <1>6, SettlesCompletes, Becoming DEF StepOK

\* A model run proposes an observation.
LEMMA ProposeStep ==
  ASSUME AdminInv, NEW op \in Operations, NEW policy, NEW stored \in BOOLEAN,
         NEW launched \in BOOLEAN, ProposeObservation(op, policy, stored, launched)
  PROVE  StepOK
<1> DEFINE request == Request(session.tool, op)
           run == Run(FALSE, request)
           t == Propose(Here, run, policy, stored, launched)
<1>1. Good(Here) /\ Base(Here) BY DEF AdminInv, Good
<1>2. session \in Kernels BY <1>1, HereIs, PartTypes DEF Base, Loose
<1>3. session.tool \in Authorities BY <1>2, KernelType DEF ProposeObservation
<1>4. request \in Requests BY <1>3, RequestType
<1>5. Becomes(t) BY DEF ProposeObservation
<1> HIDE DEF request
<1>6. FreshRun(run) /\ ~run.manual BY <1>4, RunIsFresh
<1> HIDE DEF run
<1>7. Here.k.run # Nil /\ ~Here.k.run.manual /\ Here.k.run.phase = "thinking"
  BY HereIs DEF ProposeObservation, Thinking
<1>8. Settles(Here, t) BY <1>1, <1>6, <1>7, ProposeSettles
<1> HIDE DEF t
<1> QED BY <1>1, <1>5, <1>8, SettlesCompletes, Becoming DEF StepOK

\* Only the run of the session changes, between observations.
LEMMA RunChangesStep ==
  ASSUME AdminInv, exec = Nil, NEW run \in Runs \cup {Nil},
         run # Nil => ~run.manual /\ run.phase = "thinking" /\ ~run.terminal,
         session' = [session EXCEPT !.run = run],
         UNCHANGED <<worker, broker, exec, history, admin>>
  PROVE  StepOK
<1> DEFINE y == [session EXCEPT !.run = run]
           t == [Here EXCEPT !.k = y]
<1>1. Good(Here) /\ Base(Here) /\ Loose(Here) /\ Here \in States
  BY DEF AdminInv, Good, Base, Loose
<1>2. session \in Kernels BY <1>1, HereIs, PartTypes
<1>3. /\ y \in Kernels /\ y.run = run /\ y.runs = session.runs /\ y.tool = session.tool
      /\ y.manual = session.manual /\ y.success = session.success
  BY <1>2 DEF Kernels
<1>7. session' = y OBVIOUS
<1> HIDE DEF y
<1>4. t.k = y /\ Differ(Here, t, {"k"}) BY <1>1, <1>3, PutK
<1>8. Becomes(t) BY <1>4, <1>7, HereIs DEF Becomes, Differ
<1> HIDE DEF t
<1>5. RunOK(y, exec) /\ MailboxOK(broker, exec, y)
  <2>1. RunOK(session, exec) /\ MailboxOK(broker, exec, session)
    BY <1>1, HereIs DEF Loose
  <2>2. RunOK(y, exec) BY <1>3, <2>1 DEF RunOK
  <2>3. MailboxOK(broker, exec, y) BY <1>3, <2>1 DEF MailboxOK
  <2> QED BY <2>2, <2>3
<1>6. Advances(Here, t)
  <2>1. ProjectionStep(broker, session, y) BY <1>3 DEF ProjectionStep
  <2> QED BY <1>1, <1>4, <1>5, <2>1, HereIs, AdvanceKernel
<1>9. SettledOK(t.k, t.x)
  BY <1>3, <1>4, HereIs DEF SettledOK, HandledOK, Differ
<1>10. Settles(Here, t) BY <1>6, <1>9 DEF Settles
<1> QED BY <1>1, <1>8, <1>10, SettlesCompletes, Becoming DEF StepOK

\* A run that is thinking has no executor.
LEMMA NoExecutor ==
  ASSUME AdminInv, session.run = Nil \/ session.run.phase = "thinking"
  PROVE  exec = Nil
<1>1. RunOK(session, exec) BY HereIs DEF AdminInv, Good, Base, Loose
<1> QED BY <1>1 DEF RunOK

\* A model run begins.
LEMMA StartModelStep ==
  ASSUME AdminInv, StartModelRun
  PROVE  StepOK
<1> DEFINE run == [Run(FALSE, Nil) EXCEPT !.phase = "thinking"]
<1>1. run \in Runs /\ ~run.manual /\ run.phase = "thinking" /\ ~run.terminal
  BY DEF Run, Runs
<1>2. exec = Nil BY NoExecutor DEF StartModelRun
<1>3. /\ session' = [session EXCEPT !.run = run]
      /\ UNCHANGED <<worker, broker, exec, history, admin>>
  BY DEF StartModelRun
<1> HIDE DEF run
<1> QED BY <1>1, <1>2, <1>3, RunChangesStep

\* And ends.
LEMMA EndModelStep ==
  ASSUME AdminInv, EndModelRun
  PROVE  StepOK
<1>1. exec = Nil BY NoExecutor DEF EndModelRun, Thinking
<1> QED BY <1>1, RunChangesStep DEF EndModelRun

\* read: the controller waits for the run that was started.
LEMMA FollowCompletes ==
  ASSUME NEW s, NEW u, Good(s), s.a.active # Nil, Starts(s, u), u.ok
  PROVE  Completes(s, Follow(u))
<1> DEFINE n == u.k.manual.run
           c == [u.a EXCEPT !.current = n, !.status = "running"]
           t == [u EXCEPT !.a = c]
<1>0. /\ Base(u) /\ Loose(u) /\ u \in States /\ u.a \in Admins /\ u.k \in Kernels
      /\ u.a = s.a /\ SameAuthority(s.b, u.b) /\ u.k.tool = s.k.tool
      /\ u.k.manual # Nil /\ PlaceOK(u.b, u.a)
  BY PartTypes DEF Starts, Base, Loose
<1>1. u.k.manual \in Manuals BY <1>0, KernelType
<1>2. n \in Nat BY <1>1 DEF Manuals
<1>3. Follow(u) = t BY <1>0 DEF Follow, States
<1>9. n = u.k.manual.run OBVIOUS
<1> HIDE DEF n
<1>4. c \in Admins BY <1>0, <1>2 DEF Admins
<1>5. /\ c.prep = s.a.prep /\ c.session = s.a.session /\ c.epoch = s.a.epoch
      /\ c.source = s.a.source /\ c.active = s.a.active /\ c.gen = s.a.gen
      /\ c.rev = s.a.rev /\ c.logs = s.a.logs /\ c.current = n
  BY <1>0, <1>2 DEF Admins
<1>6. c.consent <=> s.a.consent BY <1>0 DEF Admins
<1> HIDE DEF c
<1>7. t.a = c /\ Differ(u, t, {"a"}) BY <1>0, <1>4, PutA
<1> HIDE DEF t
<1>8. t.b = u.b /\ t.k = u.k /\ t.h = u.h BY <1>7 DEF Differ
<1>10. Base(t)
  <2>1. c.source # Nil => c.source.epoch = c.epoch BY <1>0, <1>5 DEF PlaceOK
  <2> QED BY <1>0, <1>5, <1>6, <1>7, <2>1, AdminChanged
<1>11. s.a.consent /\ Agrees(s.b, s.k, s.a) BY DEF Good, Matches
<1>12. Agrees(u.b, u.k, c) BY <1>0, <1>5, <1>11 DEF Agrees, SameAuthority
<1>13. ASSUME u.k.success # Nil, u.k.success.run = n
       PROVE  /\ u.k.success.request.session = c.session
              /\ u.k.success.request.target = c.active
              /\ u.k.success.request.gen = c.gen
              /\ u.k.success.request.rev = c.rev
  <2>1. ~(u.k.success.run < n) BY <1>2, <1>13
  <2>2. Preflight(s.b, u.k.success.request) BY <1>9, <1>13, <2>1 DEF Starts
  <2>3. Validates(s.b.authority, u.k.success.request) BY <2>2 DEF Preflight, Current
  <2> QED BY <1>5, <1>11, <2>3 DEF Agrees, Validates
<1>14. Matches(u.b, u.k, c)
  BY <1>0, <1>5, <1>6, <1>9, <1>11, <1>12, <1>13 DEF Matches
<1>15. HistoryStep(s.b, s.h, t.h) BY <1>8 DEF Starts
<1>16. Completes(s, t) BY <1>7, <1>8, <1>10, <1>14, <1>15 DEF Completes, Good
<1> QED BY <1>3, <1>16

\* AdminController::read
LEMMA ReadStep ==
  ASSUME AdminInv, NEW op \in Operations, NEW policy, NEW stored \in BOOLEAN,
         NEW launched \in BOOLEAN, Read(op, policy, stored, launched)
  PROVE  StepOK
<1> DEFINE u == SubmitObservation(Here, admin.active, admin.gen, op, policy, stored,
                                  launched)
           f == Follow(u)
           t == SynchronizeAdminIfOk(f)
<1>1. Good(Here) /\ Base(Here) /\ Here.a.active # Nil
  BY HereIs DEF AdminInv, Good, Read
<1>2. StartsOrFails(Here, u) BY <1>1, SubmitStarts
<1>3. Becomes(t) BY DEF Read
<1> HIDE DEF u
<1>4. CASE u.ok \/ Settles(Here, u)
  <2>1. Completes(Here, f)
    <3>1. CASE u.ok BY <1>1, <1>2, <3>1, FollowCompletes DEF StartsOrFails
    <3>2. CASE ~u.ok BY <1>1, <1>4, <3>2, SettlesCompletes DEF Follow
    <3> QED BY <3>1, <3>2
  <2> HIDE DEF f
  <2>2. Good(f) BY <2>1 DEF Completes
  <2>3. Stays(f, t) BY <2>2, SynchronizeIfOkHandles, HandlesStays DEF Good
  <2> HIDE DEF t
  <2>4. Completes(Here, t) BY <2>1, <2>3, CompletesThenStays
  <2> QED BY <1>3, <2>4, Becoming DEF StepOK
<1>5. CASE ~u.ok /\ Starts(Here, u) /\ u.why = "storage"
  <2>1. t = FailClosed(u)
    BY <1>5 DEF Follow, SynchronizeAdminIfOk, Report, FatalFailures
  <2> HIDE DEF t
  <2>2. Good(t) /\ t.h = u.h BY <1>5, <2>1, FailClosedHandles DEF Starts
  <2>3. Completes(Here, t) BY <1>5, <2>2 DEF Completes, Starts
  <2> QED BY <1>3, <2>3, Becoming DEF StepOK
<1> QED BY <1>2, <1>4, <1>5 DEF StartsOrFails
-----------------------------------------------------------------------------
(* The other threads. *)

\* A thread of a job moves.
LEMMA WorkerMoves ==
  ASSUME NEW s, Good(s), NEW v, Works(s.w, v, {}, {})
  PROVE  Completes(s, [s EXCEPT !.w = v])
<1> DEFINE t == [s EXCEPT !.w = v]
<1>1. s \in States /\ WorkerOK(s.w) /\ SlotsOK(s.w, s.b, s.a) /\ PlaceOK(s.b, s.a)
  BY DEF Good, Base, Loose
<1>2. WorkerOK(v) /\ v \in Workers BY DEF Works, WorkerOK
<1>3. t.w = v /\ Differ(s, t, {"w"}) BY <1>1, <1>2, PutW
<1> HIDE DEF t
<1>4. t \in States /\ t.b = s.b /\ t.x = s.x /\ t.k = s.k /\ t.h = s.h /\ t.a = s.a
  BY <1>3 DEF Differ
<1>5. SlotsOK(v, s.b, s.a)
  <2>1. LiveIds(v) \subseteq LiveIds(s.w) BY DEF Works
  <2>2. s.a.prep # Nil => s.a.prep.id < NextRequest(v)
    <3>1. s.a \in Admins BY <1>1, PartTypes
    <3>2. s.a.prep # Nil => s.a.prep.id \in Nat BY <3>1 DEF Admins, PreparationWork
    <3>3. NextRequest(v) \in Nat /\ NextRequest(s.w) \in Nat
      BY <1>1, <1>2, NextRequestIsNew
    <3> QED BY <1>1, <3>2, <3>3 DEF Works, SlotsOK
  <2> QED BY <1>1, <2>1, <2>2 DEF SlotsOK
<1>6. Good(t) BY <1>2, <1>3, <1>4, <1>5 DEF Good, Base, Loose
<1>7. Completes(s, t) BY <1>4, <1>6 DEF Completes, HistoryStep
<1> QED BY <1>7 DEF t

\* A step of the worker alone
LEMMA WorkerStepOK ==
  ASSUME AdminInv, Works(worker, worker', {}, {}),
         UNCHANGED <<broker, exec, session, history, admin>>
  PROVE  StepOK
<1> PICK v : v = worker' OBVIOUS
<1> DEFINE t == [Here EXCEPT !.w = v]
<1>1. Good(Here) /\ Here.w = worker BY HereIs DEF AdminInv
<1>2. Completes(Here, t) BY <1>1, WorkerMoves
<1>3. Becomes(t) BY DEF Becomes, Here
<1> HIDE DEF t
<1> QED BY <1>2, <1>3, Becoming DEF StepOK

\* The executor or the clock moves, and marks or adds an entry.
LEMMA ExecutorMoves ==
  ASSUME NEW s, Good(s), NEW y \in Execs \cup {Nil}, NEW c, BrokerOK(c),
         SameAuthority(s.b, c), Tokens(c) = Tokens(s.b),
         y # Nil => /\ s.x # Nil /\ y.ticket = s.x.ticket /\ y.request = s.x.request
                    /\ y.seen => s.x.seen,
         MailboxOK(c, y, s.k), SeenOK(c, y)
  PROVE  Completes(s, [s EXCEPT !.b = c, !.x = y])
<1> DEFINE t == [s EXCEPT !.b = c, !.x = y]
<1>1. s \in States /\ Loose(s) /\ SettledOK(s.k, s.x) BY DEF Good, Base, Loose
<1>2. c \in Brokers BY DEF BrokerOK
<1>3. /\ t \in States /\ t.w = s.w /\ t.b = c /\ t.x = y /\ t.k = s.k /\ t.h = s.h
      /\ t.a = s.a
  BY <1>1, <1>2 DEF States
<1> HIDE DEF t
<1>4. RunOK(s.k, y) BY <1>1 DEF Loose, RunOK
<1>5. SlotsOK(s.w, c, s.a) BY <1>1, SlotsKept DEF Loose
<1>6. PlaceOK(c, s.a) BY <1>1, PlaceKept DEF Loose
<1>7. SettledOK(s.k, y) BY <1>1 DEF SettledOK, HandledOK
<1>8. Matches(c, s.k, s.a)
  <2>1. Agrees(s.b, s.k, s.a) => Agrees(c, s.k, s.a) BY DEF Agrees, SameAuthority
  <2> QED BY <2>1 DEF Good, Matches
<1>9. Good(t) BY <1>1, <1>3, <1>4, <1>5, <1>6, <1>7, <1>8 DEF Good, Base, Loose
<1>10. Completes(s, t) BY <1>3, <1>9 DEF Completes, HistoryStep
<1> QED BY <1>10 DEF t

\* A step of the executor or of the clock
LEMMA ExecutorStepOK ==
  ASSUME AdminInv, NEW y \in Execs \cup {Nil}, NEW c, BrokerOK(c),
         SameAuthority(broker, c), Tokens(c) = Tokens(broker),
         y # Nil => /\ exec # Nil /\ y.ticket = exec.ticket /\ y.request = exec.request
                    /\ y.seen => exec.seen,
         MailboxOK(c, y, session), SeenOK(c, y),
         exec' = y, broker' = c, UNCHANGED <<worker, session, history, admin>>
  PROVE  StepOK
<1> DEFINE t == [Here EXCEPT !.b = c, !.x = y]
<1>1. Good(Here) BY DEF AdminInv
<1>2. Completes(Here, t) BY <1>1, HereIs, ExecutorMoves
<1>3. Becomes(t) BY DEF Becomes, Here
<1> HIDE DEF t
<1> QED BY <1>2, <1>3, Becoming DEF StepOK

\* The two threads of a job
LEMMA JobStep ==
  ASSUME AdminInv, NEW i, WorkerStep(i) \/ SourcePort(i)
  PROVE  StepOK
<1>1. WorkerOK(worker) BY HereIs DEF AdminInv, Good, Base, Loose
<1>2. CASE WorkerStep(i)
  <2>1. Works(worker, worker', {}, {}) BY <1>1, <1>2, WorksThread DEF WorkerStep
  <2> QED BY <1>2, <2>1, WorkerStepOK DEF WorkerStep
<1>3. CASE SourcePort(i)
  <2>1. i \in DOMAIN worker.jobs BY <1>3 DEF SourcePort, Calling, Known
  <2>2. PICK answer \in Answers \cup Preparations : Return(i, answer, {})
    BY <1>3 DEF SourcePort
  <2>3. Works(worker, worker', {}, {}) BY <1>1, <2>1, <2>2, WorksReturn
  <2> QED BY <1>3, <2>3, WorkerStepOK DEF SourcePort
<1> QED BY <1>2, <1>3

\* What holds of the executor and of its mailbox.
LEMMA ExecutorFacts ==
  ASSUME AdminInv, exec # Nil
  PROVE  /\ exec \in Execs /\ BrokerOK(broker) /\ broker \in Brokers
         /\ MailboxOK(broker, exec, session) /\ SeenOK(broker, exec)
         /\ EntryOf(broker, exec, session)
         /\ session.run.phase = "running" /\ exec.ticket = session.runs
         /\ session.runs \in Nat /\ exec.request \in Requests
<1>1. /\ Loose(Here) /\ Here \in States BY DEF AdminInv, Good, Base, Loose
<1>2. exec \in Execs /\ session \in Kernels BY <1>1, HereIs, PartTypes
<1>3. RunOK(session, exec) BY <1>1, HereIs DEF Loose
<1>4. MailboxOK(broker, exec, session) /\ SeenOK(broker, exec) /\ BrokerOK(broker)
  BY <1>1, HereIs DEF Loose
<1>5. exec.request \in Requests BY <1>2 DEF Execs
<1>6. session.runs \in Nat BY <1>2, KernelType
<1> QED BY <1>2, <1>3, <1>4, <1>5, <1>6 DEF RunOK, MailboxOK, BrokerOK

\* The executor after its thread has moved on.
LEMMA MovedFields ==
  ASSUME NEW x \in Execs, NEW pc \in {"waiting", "posted", "ended"}
  PROVE  LET y == [x EXCEPT !.pc = pc]
         IN /\ y \in Execs /\ y.pc = pc /\ y.ticket = x.ticket /\ y.request = x.request
            /\ y.stop = x.stop /\ y.receipt = x.receipt /\ y.seen = x.seen
BY DEF Execs

\* The mailbox of an executor whose entry, if it has one, fits it.
LEMMA MovedMailbox ==
  ASSUME NEW b, NEW c, NEW x, NEW y, NEW k, MailboxOK(b, x, k), x # Nil,
         y.ticket = x.ticket, EntryOf(c, y, k), x.ticket <= k.runs,
         k.run.phase = "running",
         \A n \in DOMAIN c.entries :
           n # x.ticket => n \in DOMAIN b.entries /\ (Rejected(b, n) => Rejected(c, n)),
         y # Nil
  PROVE  MailboxOK(c, y, k)
BY DEF MailboxOK

\* observe, of a request that is refused.
LEMMA ObserveRefused ==
  ASSUME AdminInv, exec # Nil, exec.pc = "starting",
         exec' = [exec EXCEPT !.pc = "posted"], broker' = broker,
         UNCHANGED <<worker, session, history, admin>>
  PROVE  StepOK
<1> DEFINE y == [exec EXCEPT !.pc = "posted"]
<1>1. /\ exec \in Execs /\ BrokerOK(broker) /\ broker \in Brokers
      /\ MailboxOK(broker, exec, session) /\ SeenOK(broker, exec)
      /\ EntryOf(broker, exec, session)
      /\ session.run.phase = "running" /\ exec.ticket = session.runs
      /\ session.runs \in Nat
  BY ExecutorFacts
<1>2. /\ y \in Execs /\ y.pc = "posted" /\ y.ticket = exec.ticket
      /\ y.request = exec.request /\ y.stop = exec.stop /\ y.receipt = exec.receipt
      /\ y.seen = exec.seen
  BY <1>1, MovedFields
<1>3. exec' = y OBVIOUS
<1> HIDE DEF y
<1>4. EntryOf(broker, y, session) BY <1>1, <1>2 DEF EntryOf
<1>5. MailboxOK(broker, y, session)
  BY <1>1, <1>2, <1>4, NilIsNone, MovedMailbox
<1>6. SeenOK(broker, y) BY <1>1, <1>2 DEF EntryOf, SeenOK
<1>7. SameAuthority(broker, broker) BY DEF SameAuthority
<1> QED BY <1>1, <1>2, <1>3, <1>5, <1>6, <1>7, ExecutorStepOK

\* A mailbox with one more entry.
WithEntry(b, n, r) ==
  [b EXCEPT !.entries =
     [u \in DOMAIN b.entries \cup {n} |-> IF u = n THEN Entry(r) ELSE b.entries[u]]]

\* It promises what the mailbox did.
LEMMA EntryAdded ==
  ASSUME NEW b, BrokerOK(b), NEW n \in Nat, n \notin DOMAIN b.entries,
         NEW r \in Requests, r.session = b.session, NEW c, c = WithEntry(b, n, r)
  PROVE  /\ BrokerOK(c) /\ SameAuthority(b, c) /\ Tokens(c) = Tokens(b)
         /\ DOMAIN c.entries = DOMAIN b.entries \cup {n}
         /\ c.entries[n] = Entry(r)
         /\ \A u \in DOMAIN b.entries : Rejected(b, u) => Rejected(c, u)
<1> DEFINE D == DOMAIN b.entries \cup {n}
           f == [u \in D |-> IF u = n THEN Entry(r) ELSE b.entries[u]]
<1>0. b \in Brokers BY DEF BrokerOK
<1>10. c = [b EXCEPT !.entries = f] BY DEF WithEntry
<1>1. Entry(r) \in Entries BY DEF Entry, Entries
<1>2. /\ Entry(r).request = r /\ Entry(r).token = Nil /\ ~Entry(r).result
  BY DEF Entry
<1>3. /\ DOMAIN f = D /\ D \subseteq Nat /\ f \in [D -> Entries] /\ f[n] = Entry(r)
      /\ \A u \in DOMAIN b.entries : f[u] = b.entries[u]
  BY <1>0, <1>1, BrokerType
<1> HIDE DEF f
<1>4. f \in EntryTables BY <1>3, EntryTable
<1>5. c \in Brokers /\ c.entries = f /\ SameAuthority(b, c)
  BY <1>0, <1>4, <1>10, PutEntries
<1>6. BrokerOK(c)
  BY <1>0, <1>2, <1>3, <1>5 DEF BrokerOK, SameAuthority
<1>7. Tokens(c) = Tokens(b) BY <1>2, <1>3, <1>5 DEF Tokens
<1>8. ASSUME NEW u \in DOMAIN b.entries, Rejected(b, u)
      PROVE  Rejected(c, u)
  <2>1. Current(c, b.entries[u].request) => Current(b, b.entries[u].request)
    BY <1>5, CurrentKept
  <2> QED BY <1>3, <1>5, <1>8, <2>1 DEF Rejected
<1> QED BY <1>3, <1>5, <1>6, <1>7, <1>8

\* observe, of a request that enters the mailbox.
LEMMA ObserveAdmitted ==
  ASSUME AdminInv, exec # Nil, exec.pc = "starting", ~exec.stop,
         exec.request.session = broker.session,
         exec' = [exec EXCEPT !.pc = "waiting"],
         broker' = [broker EXCEPT !.entries =
                  [t \in DOMAIN @ \cup {exec.ticket} |->
                     IF t = exec.ticket THEN Entry(exec.request) ELSE @[t]]],
         UNCHANGED <<worker, session, history, admin>>
  PROVE  StepOK
<1> DEFINE n == exec.ticket
           y == [exec EXCEPT !.pc = "waiting"]
           c == WithEntry(broker, n, exec.request)
<1>1. /\ exec \in Execs /\ BrokerOK(broker) /\ broker \in Brokers
      /\ MailboxOK(broker, exec, session) /\ SeenOK(broker, exec)
      /\ EntryOf(broker, exec, session)
      /\ session.run.phase = "running" /\ exec.ticket = session.runs
      /\ session.runs \in Nat /\ exec.request \in Requests
  BY ExecutorFacts
<1>2. /\ y \in Execs /\ y.pc = "waiting" /\ y.ticket = exec.ticket
      /\ y.request = exec.request /\ y.stop = exec.stop /\ y.receipt = exec.receipt
      /\ y.seen = exec.seen
  BY <1>1, MovedFields
<1>3. exec' = y /\ broker' = c BY DEF WithEntry
<1>9. c = WithEntry(broker, n, exec.request) /\ n \in Nat BY <1>1
<1> HIDE DEF y, c
<1>4. /\ n \notin DOMAIN broker.entries /\ ~exec.receipt /\ ~exec.seen
      /\ session.run.terminal => exec.stop
  BY <1>1 DEF EntryOf
<1>5. /\ BrokerOK(c) /\ SameAuthority(broker, c) /\ Tokens(c) = Tokens(broker)
      /\ DOMAIN c.entries = DOMAIN broker.entries \cup {n}
      /\ c.entries[n] = Entry(exec.request)
      /\ \A u \in DOMAIN broker.entries : Rejected(broker, u) => Rejected(c, u)
  BY <1>1, <1>4, <1>9, EntryAdded
<1>6. EntryOf(c, y, session) BY <1>2, <1>4, <1>5 DEF EntryOf, Entry
<1>7. MailboxOK(c, y, session)
  BY <1>1, <1>2, <1>5, <1>6, NilIsNone, MovedMailbox
<1>8. SeenOK(c, y) BY <1>2, <1>4 DEF SeenOK
<1> QED BY <1>1, <1>2, <1>3, <1>5, <1>7, <1>8, ExecutorStepOK

\* One entry is marked.
LEMMA OneMarked ==
  ASSUME NEW b, BrokerOK(b), NEW n \in DOMAIN b.entries, NEW e \in Entries,
         Marked(b.entries[n], e), NEW c, c = PutAt(b, n, e)
  PROVE  /\ BrokerOK(c) /\ SameAuthority(b, c) /\ Tokens(c) = Tokens(b)
         /\ DOMAIN c.entries = DOMAIN b.entries /\ c.entries[n] = e
         /\ \A u \in DOMAIN b.entries : u # n => c.entries[u] = b.entries[u]
         /\ \A u \in DOMAIN b.entries : Rejected(b, u) => Rejected(c, u)
<1> DEFINE f == [b.entries EXCEPT ![n] = e]
<1>0. b \in Brokers BY DEF BrokerOK
<1>1. /\ DOMAIN f = DOMAIN b.entries /\ f \in [DOMAIN b.entries -> Entries] /\ f[n] = e
      /\ \A u \in DOMAIN b.entries : u # n => f[u] = b.entries[u]
  BY <1>0, BrokerType
<1>2. c = [b EXCEPT !.entries = f] BY DEF PutAt
<1> HIDE DEF f
<1>3. \A u \in DOMAIN b.entries : Marked(b.entries[u], f[u]) BY <1>1 DEF Marked
<1>4. /\ c.entries = f /\ SameAuthority(b, c) /\ BrokerOK(c) /\ Tokens(c) = Tokens(b)
      /\ \A u \in DOMAIN b.entries : Rejected(b, u) => Rejected(c, u)
  BY <1>1, <1>2, <1>3, MarkedEntries
<1> QED BY <1>1, <1>4

\* observe, once the wait is over: the executor has its receipt or its entry
\* has an error.
LEMMA WakeStep ==
  ASSUME AdminInv, Wake, UNCHANGED <<session, history, admin>>
  PROVE  StepOK
<1> DEFINE n == exec.ticket
           known == n \in DOMAIN broker.entries
           over == exec.stop \/ (known /\ broker.entries[n].expired)
           y == [exec EXCEPT !.pc = "posted", !.receipt = known /\ ~over]
           e == [broker.entries[n] EXCEPT !.error = TRUE]
           c == IF known /\ over THEN PutAt(broker, n, e) ELSE broker
<1>0. exec # Nil /\ exec.pc = "waiting" /\ (known => over \/ broker.entries[n].result)
  BY DEF Wake
<1>1. /\ exec \in Execs /\ BrokerOK(broker) /\ broker \in Brokers
      /\ MailboxOK(broker, exec, session) /\ SeenOK(broker, exec)
      /\ EntryOf(broker, exec, session)
      /\ session.run.phase = "running" /\ exec.ticket = session.runs
      /\ session.runs \in Nat
  BY <1>0, ExecutorFacts
<1>2. exec' = y BY DEF Wake
<1>3. broker' = c
  <2>1. CASE known /\ over
    <3>1. broker' = [broker EXCEPT !.entries[n].error = TRUE] BY <2>1 DEF Wake
    <3>2. [broker EXCEPT !.entries[n].error = TRUE] = PutAt(broker, n, e)
      BY <1>1, <2>1 DEF PutAt, Brokers
    <3> QED BY <2>1, <3>1, <3>2
  <2>2. CASE ~(known /\ over) BY <2>2 DEF Wake
  <2> QED BY <2>1, <2>2
<1>4. /\ y \in Execs /\ y.pc = "posted" /\ y.ticket = n /\ y.request = exec.request
      /\ y.stop = exec.stop /\ y.seen = exec.seen
      /\ y.receipt => known /\ ~over
      /\ ~y.receipt => ~known \/ over
  <2>1. (known /\ ~over) \in BOOLEAN OBVIOUS
  <2>2. CASE known /\ ~over
    <3>1. y = [exec EXCEPT !.pc = "posted", !.receipt = TRUE] BY <2>2
    <3> QED BY <1>1, <2>2, <3>1 DEF Execs
  <2>3. CASE ~(known /\ ~over)
    <3>1. y = [exec EXCEPT !.pc = "posted", !.receipt = FALSE] BY <2>3
    <3> QED BY <1>1, <2>3, <3>1 DEF Execs
  <2> QED BY <2>2, <2>3
<1> HIDE DEF y
<1>5. /\ BrokerOK(c) /\ SameAuthority(broker, c) /\ Tokens(c) = Tokens(broker)
      /\ DOMAIN c.entries = DOMAIN broker.entries
      /\ \A u \in DOMAIN broker.entries : Rejected(broker, u) => Rejected(c, u)
      /\ known => /\ c.entries[n].request = broker.entries[n].request
                  /\ broker.entries[n].stop => c.entries[n].stop
                  /\ broker.entries[n].result => c.entries[n].result
                  /\ over => c.entries[n].error
  <2>1. CASE known /\ over
    <3>1. broker.entries[n] \in Entries BY <1>1, <2>1, BrokerType
    <3>2. e \in Entries /\ Marked(broker.entries[n], e) /\ e.error
      BY <3>1 DEF Entries, Marked
    <3> DEFINE d == PutAt(broker, n, e)
    <3>3. c = d BY <2>1
    <3> HIDE DEF e
    <3>4. n \in DOMAIN broker.entries BY <2>1
    <3>5. d = PutAt(broker, n, e) OBVIOUS
    <3> HIDE DEF d, c, known, n
    <3>6. /\ BrokerOK(d) /\ SameAuthority(broker, d) /\ Tokens(d) = Tokens(broker)
          /\ DOMAIN d.entries = DOMAIN broker.entries /\ d.entries[n] = e
          /\ \A u \in DOMAIN broker.entries : Rejected(broker, u) => Rejected(d, u)
      BY <1>1, <3>2, <3>4, <3>5, OneMarked
    <3> QED BY <3>2, <3>3, <3>6 DEF Marked
  <2>2. CASE ~(known /\ over)
    <3>1. c = broker BY <2>2
    <3>2. SameAuthority(broker, broker) BY DEF SameAuthority
    <3> HIDE DEF c
    <3> QED BY <1>1, <2>2, <3>1, <3>2
  <2> QED BY <2>1, <2>2
<1> HIDE DEF c
<1>6. EntryOf(c, y, session)
  <2>1. y.pc # "starting" BY <1>4
  <2>2. ASSUME n \in DOMAIN c.entries
        PROVE  /\ c.entries[n].request = y.request
               /\ y.stop => c.entries[n].stop
               /\ y.receipt => c.entries[n].result
               /\ ~y.receipt => c.entries[n].error
               /\ session.run.terminal => y.stop
    <3>1. known BY <1>5, <2>2
    <3>2. /\ broker.entries[n].request = exec.request
          /\ exec.stop => broker.entries[n].stop
          /\ session.run.terminal => exec.stop
      BY <1>1, <3>1 DEF EntryOf
    <3> HIDE DEF known, over, n
    <3> QED BY <1>0, <1>4, <1>5, <3>1, <3>2
  <2> HIDE DEF n
  <2> QED BY <1>4, <2>1, <2>2 DEF EntryOf
<1>7. MailboxOK(c, y, session)
  <2>1. y # Nil BY <1>4, NilIsNone
  <2> QED BY <1>0, <1>1, <1>4, <1>5, <1>6, <2>1, MovedMailbox
<1>8. SeenOK(c, y) BY <1>0, <1>1, <1>4, <1>5 DEF SeenOK
<1>9. UNCHANGED worker BY DEF Wake
<1> QED BY <1>0, <1>2, <1>3, <1>4, <1>5, <1>7, <1>8, <1>9, ExecutorStepOK

\* The stream of the executor is over.
LEMMA EndExecStep ==
  ASSUME AdminInv, EndExec, UNCHANGED <<session, history, admin>>
  PROVE  StepOK
<1> DEFINE y == [exec EXCEPT !.pc = "ended"]
<1>0. exec # Nil /\ exec.pc = "posted" /\ exec' = y /\ UNCHANGED <<worker, broker>>
  BY DEF EndExec
<1>1. /\ exec \in Execs /\ BrokerOK(broker) /\ broker \in Brokers
      /\ MailboxOK(broker, exec, session) /\ SeenOK(broker, exec)
      /\ EntryOf(broker, exec, session)
      /\ session.run.phase = "running" /\ exec.ticket = session.runs
      /\ session.runs \in Nat
  BY <1>0, ExecutorFacts
<1>2. /\ y \in Execs /\ y.pc = "ended" /\ y.ticket = exec.ticket
      /\ y.request = exec.request /\ y.stop = exec.stop /\ y.receipt = exec.receipt
      /\ y.seen = exec.seen
  BY <1>1, MovedFields
<1> HIDE DEF y
<1>4. EntryOf(broker, y, session) BY <1>0, <1>1, <1>2 DEF EntryOf
<1>5. MailboxOK(broker, y, session)
  BY <1>0, <1>1, <1>2, <1>4, NilIsNone, MovedMailbox
<1>6. SeenOK(broker, y) BY <1>1, <1>2, <1>0 DEF SeenOK
<1>7. SameAuthority(broker, broker) BY DEF SameAuthority
<1> QED BY <1>0, <1>1, <1>2, <1>5, <1>6, <1>7, ExecutorStepOK

\* The executor's thread
LEMMA ExecutorStep ==
  ASSUME AdminInv, Executor
  PROVE  StepOK
<1>0. UNCHANGED <<session, history, admin>> BY DEF Executor
<1>1. ASSUME NEW late \in BOOLEAN, Observe(late)
      PROVE  StepOK
  <2>1. CASE exec' = [exec EXCEPT !.pc = "posted"] /\ broker' = broker
    BY <1>0, <1>1, <2>1, ObserveRefused DEF Observe
  <2>2. CASE ~(exec' = [exec EXCEPT !.pc = "posted"] /\ broker' = broker)
    BY <1>0, <1>1, <2>2, ObserveAdmitted DEF Observe
  <2> QED BY <2>1, <2>2
<1> QED BY <1>0, <1>1, WakeStep, EndExecStep DEF Executor

\* The deadline of an entry
LEMMA ClockStep ==
  ASSUME AdminInv, Clock
  PROVE  StepOK
<1>1. PICK n \in DOMAIN broker.entries : Expire(n) BY DEF Clock
<1> DEFINE e == [broker.entries[n] EXCEPT !.expired = TRUE]
           c == PutAt(broker, n, e)
<1>2. /\ Loose(Here) /\ Here \in States BY DEF AdminInv, Good, Base, Loose
<1>3. /\ BrokerOK(broker) /\ broker \in Brokers /\ exec \in Execs \cup {Nil}
      /\ MailboxOK(broker, exec, session) /\ SeenOK(broker, exec)
  BY <1>2, HereIs, PartTypes DEF Loose
<1>4. broker' = c /\ exec' = exec /\ UNCHANGED <<worker, session, history, admin>>
  BY <1>1, <1>3 DEF Expire, Clock, PutAt, Brokers
<1>5. broker.entries[n] \in Entries BY <1>3, BrokerType
<1>6. e \in Entries /\ Marked(broker.entries[n], e) /\ e.error = broker.entries[n].error
  BY <1>5 DEF Entries, Marked
<1>7. c = PutAt(broker, n, e) OBVIOUS
<1> HIDE DEF e, c
<1>8. /\ BrokerOK(c) /\ SameAuthority(broker, c) /\ Tokens(c) = Tokens(broker)
      /\ DOMAIN c.entries = DOMAIN broker.entries /\ c.entries[n] = e
      /\ \A u \in DOMAIN broker.entries : u # n => c.entries[u] = broker.entries[u]
      /\ \A u \in DOMAIN broker.entries : Rejected(broker, u) => Rejected(c, u)
  BY <1>3, <1>6, <1>7, OneMarked
<1>9. exec # Nil => EntryOf(c, exec, session)
  <2>1. exec # Nil => EntryOf(broker, exec, session) BY <1>3 DEF MailboxOK
  <2> QED BY <1>6, <1>8, <2>1 DEF EntryOf, Marked
<1>10. MailboxOK(c, exec, session) BY <1>3, <1>8, <1>9 DEF MailboxOK
<1>11. SeenOK(c, exec) BY <1>3, <1>8 DEF SeenOK
<1> QED BY <1>3, <1>4, <1>8, <1>10, <1>11, ExecutorStepOK
-----------------------------------------------------------------------------
(* The session is switched. *)

\* What detach leaves of AdminState
LEMMA DetachedAdmin ==
  ASSUME NEW a \in Admins
  PROVE  LET c == [a EXCEPT !.session = Nil, !.gen = 0]
         IN /\ c \in Admins /\ c.epoch = a.epoch /\ c.prep = a.prep
            /\ c.source = a.source /\ c.active = a.active /\ c.logs = a.logs
            /\ c.current = a.current /\ (c.consent => a.consent)
BY DEF Admins

\* What attach makes of it
LEMMA AttachedAdmin ==
  ASSUME NEW a \in Admins, NEW id \in Sessions, NEW gen \in Nat,
         NEW health \in Requests \cup {Nil}
  PROVE  LET c == [a EXCEPT !.session = id, !.epoch = @ + 1, !.bound = TRUE,
                            !.gen = gen, !.health = health, !.fatal = FALSE]
         IN /\ c \in Admins /\ c.session = id /\ c.epoch = a.epoch + 1 /\ c.prep = a.prep
            /\ c.source = a.source /\ c.active = a.active /\ c.logs = a.logs
            /\ c.current = a.current /\ (c.consent => a.consent)
<1> DEFINE n == a.epoch + 1
           c == [a EXCEPT !.session = id, !.epoch = n, !.bound = TRUE,
                          !.gen = gen, !.health = health, !.fatal = FALSE]
<1>1. n \in Nat BY DEF Admins
<1>2. n = a.epoch + 1 OBVIOUS
<1>3. c = [a EXCEPT !.session = id, !.epoch = @ + 1, !.bound = TRUE,
                    !.gen = gen, !.health = health, !.fatal = FALSE]
  OBVIOUS
<1> HIDE DEF n
<1>4. /\ c \in Admins /\ c.session = id /\ c.epoch = n /\ c.prep = a.prep
      /\ c.source = a.source /\ c.active = a.active /\ c.logs = a.logs
      /\ c.current = a.current /\ (c.consent => a.consent)
  BY <1>1 DEF Admins
<1> HIDE DEF c
<1> QED BY <1>2, <1>3, <1>4

\* A new activation: the mailbox is empty, nothing is selected, a consent may
\* be given.
ActivatedBroker(b, id) ==
  [session |-> id, epoch |-> b.epoch + 1, closed |-> FALSE,
   entries |-> [t \in {} |-> Nil], authority |-> Nil, source |-> Nil,
   consent |-> [active |-> TRUE, current |-> Nil]]

\* Its fields
LEMMA ActivatedFields ==
  ASSUME NEW b, BrokerOK(b), NEW id \in Sessions
  PROVE  LET c == ActivatedBroker(b, id)
         IN /\ BrokerOK(c) /\ Tokens(c) = {} /\ DOMAIN c.entries = {}
            /\ c.session = id /\ c.epoch = b.epoch + 1 /\ c.source = Nil
            /\ c.consent.current = Nil
<1> DEFINE n == b.epoch + 1
           f == [t \in {} |-> Nil]
           c == [session |-> id, epoch |-> n, closed |-> FALSE,
                 entries |-> f, authority |-> Nil, source |-> Nil,
                 consent |-> [active |-> TRUE, current |-> Nil]]
<1>0. b \in Brokers BY DEF BrokerOK
<1>1. n \in Nat BY <1>0, BrokerType
<1>2. f \in EntryTables /\ DOMAIN f = {} BY NoEntries
<1>3. n = b.epoch + 1 /\ c = ActivatedBroker(b, id) BY DEF ActivatedBroker
<1>7. f = [t \in {} |-> Nil] OBVIOUS
<1> HIDE DEF n, f
<1>4. c \in Brokers BY <1>1, <1>2 DEF Brokers, Consents
<1>5. /\ c.entries = f /\ c.authority = Nil /\ c.source = Nil /\ c.session = id
      /\ c.epoch = n /\ c.consent.current = Nil
  OBVIOUS
<1> HIDE DEF c
<1>6. BrokerOK(c) /\ Tokens(c) = {} BY <1>4, <1>5, <1>7, EmptiedBroker
<1> QED BY <1>2, <1>3, <1>5, <1>6

\* OpsObservationBroker::activate
LEMMA Activates ==
  ASSUME NEW s, s \in States, BrokerOK(s.b), NEW id
  PROVE  ActivateBroker(s, id) =
           [s EXCEPT !.w = CancelAll(s.w, Tokens(s.b)), !.b = ActivatedBroker(s.b, id)]
<1> DEFINE r == RevokeConsent(s.b)
           u == [s EXCEPT !.b = r]
<1>1. /\ SameButConsent(s.b, r) /\ Tokens(r) = Tokens(s.b) BY RevokedConsent
<1>2. r.epoch = s.b.epoch /\ r \in Brokers BY <1>1 DEF SameButConsent
<1>9. ActivateBroker(s, id) =
        [DiscardAll(u, TRUE) EXCEPT !.b = ActivatedBroker(DiscardAll(u, TRUE).b, id)]
  BY DEF ActivateBroker, ActivatedBroker
<1> HIDE DEF r
<1>3. u \in States /\ u.w = s.w /\ u.b = r BY <1>2 DEF States
<1>4. DiscardAll(u, TRUE).b.epoch = s.b.epoch
  BY <1>2, <1>3 DEF DiscardAll, States, Brokers
<1>5. ActivatedBroker(DiscardAll(u, TRUE).b, id) = ActivatedBroker(s.b, id)
  BY <1>4 DEF ActivatedBroker
<1>6. DiscardAll(u, TRUE) =
        [[s EXCEPT !.b = DiscardAll(u, TRUE).b] EXCEPT !.w = CancelAll(s.w, Tokens(s.b))]
  BY <1>1, <1>3 DEF DiscardAll, States
<1> QED BY <1>5, <1>6, <1>9 DEF States

\* A controller with nothing left but a preparation it no longer wants.
Left(s, t) ==
  /\ t \in States /\ WorkerOK(t.w) /\ BrokerOK(t.b) /\ SlotsOK(t.w, t.b, t.a)
  /\ t.x = Nil
  /\ t.a.epoch = t.b.epoch
  /\ ~t.a.consent /\ t.a.source = Nil /\ t.a.active = Nil
  /\ t.a.logs = "unavailable" /\ t.a.current = Nil
  /\ t.a.prep # Nil =>
       /\ t.a.prep.discarded
       /\ t.a.prep.claimed # Nil => t.a.prep.claimed.epoch = t.a.prep.epoch
  /\ HistoryStep(s.b, s.h, t.h)

\* AdminController::detach, and the cancel_preparation of attach
LEMMA DetachLeaves ==
  ASSUME NEW s, Good(s), s.k.run = Nil, NEW stored \in BOOLEAN
  PROVE  Left(s, CancelPreparation(Detach(s, stored)))
<1> DEFINE p == CancelPreparation(s)
           c == CancelCurrent(p, stored)
           r == RevokeAuthority(c)
           y == [r.a EXCEPT !.session = Nil, !.gen = 0]
           d == [r EXCEPT !.a = y]
           t == CancelPreparation(d)
<1>1. Tends(s, p) BY CancelPreparationTends DEF Good
<1> HIDE DEF p
<1>2. Base(p) /\ p.k = s.k /\ p.b = s.b /\ p.h = s.h BY <1>1 DEF Tends, Differ
<1>3. Handles(p, c) BY <1>2, CancelCurrentHandles
<1>20. Detach(s, stored) = [RevokeAuthority(c) EXCEPT !.a.session = Nil, !.a.gen = 0]
  BY DEF Detach, p
<1> HIDE DEF c
<1>4. Base(c) /\ c.k.run = Nil /\ HistoryStep(s.b, s.h, c.h) BY <1>2, <1>3 DEF Handles
<1>5. /\ Good(r) /\ Differ(c, r, {"b", "a"}) /\ r.a = WithoutAuthority(c.a)
  BY <1>4, Revokes
<1>21. Detach(s, stored) = [r EXCEPT !.a.session = Nil, !.a.gen = 0] BY <1>20
<1> HIDE DEF r
<1>6. r \in States /\ r.k.run = Nil /\ r.h = c.h BY <1>4, <1>5 DEF Differ
<1>7. r.x = Nil
  <2>1. RunOK(r.k, r.x) BY <1>5 DEF Good, Base, Loose
  <2> QED BY <1>6, <2>1 DEF RunOK
<1>8. r.a \in Admins /\ c.a \in Admins BY <1>4, <1>6, PartTypes DEF Base, Loose
<1>9. ~r.a.consent /\ r.a.source = Nil /\ r.a.active = Nil
      /\ r.a.logs = "unavailable" /\ r.a.current = Nil
  BY <1>5, <1>8, WithoutAuthorityFields
<1>10. /\ y \in Admins /\ y.epoch = r.a.epoch /\ y.prep = r.a.prep
       /\ y.source = r.a.source /\ y.active = r.a.active /\ y.logs = r.a.logs
       /\ y.current = r.a.current /\ (y.consent => r.a.consent)
  BY <1>8, DetachedAdmin
<1>11. Detach(s, stored) = d BY <1>6, <1>21 DEF States
<1> HIDE DEF y
<1>12. d.a = y /\ Differ(r, d, {"a"}) BY <1>6, <1>10, PutA
<1> HIDE DEF d
<1>13. /\ d \in States /\ d.w = r.w /\ d.b = r.b /\ d.x = r.x /\ d.h = r.h
  BY <1>12 DEF Differ
<1>14. WorkerOK(r.w) /\ BrokerOK(r.b) /\ SlotsOK(r.w, r.b, r.a) /\ PlaceOK(r.b, r.a)
  BY <1>5 DEF Good, Base, Loose
<1>15. SlotsOK(d.w, d.b, d.a)
  BY <1>10, <1>12, <1>13, <1>14 DEF SlotsOK, PrepIds
<1>16. /\ Differ(d, t, {"w", "a"}) /\ Works(d.w, t.w, {}, {})
       /\ SlotsOK(t.w, d.b, t.a) /\ SameButPrep(d.a, t.a)
       /\ \/ t.a.prep = Nil
          \/ /\ d.a.prep # Nil /\ t.a.prep.discarded
             /\ t.a.prep.claimed = d.a.prep.claimed
             /\ t.a.prep.epoch = d.a.prep.epoch
  BY <1>13, <1>14, <1>15, PreparationCancelled
<1> HIDE DEF t
<1>17. /\ t \in States /\ t.b = r.b /\ t.x = Nil /\ t.h = c.h /\ WorkerOK(t.w)
  BY <1>6, <1>7, <1>13, <1>16 DEF Differ, Works
<1>18. /\ t.a.epoch = t.b.epoch
       /\ ~t.a.consent /\ t.a.source = Nil /\ t.a.active = Nil
       /\ t.a.logs = "unavailable" /\ t.a.current = Nil
  BY <1>9, <1>10, <1>12, <1>14, <1>16, <1>17 DEF SameButPrep, PlaceOK
<1>19. t.a.prep # Nil =>
         /\ t.a.prep.discarded
         /\ t.a.prep.claimed # Nil => t.a.prep.claimed.epoch = t.a.prep.epoch
  BY <1>10, <1>12, <1>14, <1>16 DEF PlaceOK
<1>22. Left(s, t) BY <1>4, <1>13, <1>14, <1>16, <1>17, <1>18, <1>19 DEF Left
<1> QED BY <1>11, <1>22 DEF t

\* switch_session
LEMMA SwitchStep ==
  ASSUME AdminInv, NEW id \in Sessions, NEW stored \in BOOLEAN, SwitchSession(id, stored)
  PROVE  StepOK
<1> DEFINE l == CancelPreparation(Detach(Here, stored))
           v == CancelAll(l.w, Tokens(l.b))
           c == ActivatedBroker(l.b, id)
           y == [l.a EXCEPT !.session = id, !.epoch = @ + 1, !.bound = TRUE,
                            !.gen = history[id].gen, !.health = history[id].health,
                            !.fatal = FALSE]
           k == NewSession(id)
           t == [l EXCEPT !.w = v, !.b = c, !.k = k, !.a = y]
<1>1. Good(Here) /\ Here.k.run = Nil BY HereIs DEF AdminInv, SwitchSession
<1>2. Left(Here, l) BY <1>1, DetachLeaves
<1>3. Becomes([ActivateBroker(l, id) EXCEPT
          !.k = NewSession(id),
          !.a.session = id, !.a.epoch = @ + 1, !.a.bound = TRUE,
          !.a.gen = history[id].gen, !.a.health = history[id].health,
          !.a.fatal = FALSE])
  BY DEF SwitchSession
<1> HIDE DEF l
<1>4. /\ l \in States /\ l.a \in Admins /\ WorkerOK(l.w) /\ BrokerOK(l.b)
      /\ SlotsOK(l.w, l.b, l.a)
  BY <1>2, PartTypes DEF Left
<1>5. ActivateBroker(l, id) = [l EXCEPT !.w = v, !.b = c] BY <1>4, Activates
<1>6. Becomes(t)
  <2> DEFINE m == [l EXCEPT !.w = v, !.b = c]
  <2> HIDE DEF v, c
  <2>1. m.a = l.a BY <1>4 DEF States
  <2>2. [m EXCEPT
          !.k = NewSession(id),
          !.a.session = id, !.a.epoch = @ + 1, !.a.bound = TRUE,
          !.a.gen = history[id].gen, !.a.health = history[id].health,
          !.a.fatal = FALSE] = [m EXCEPT !.k = k, !.a = y]
    <3>1. DOMAIN m = {"w", "b", "x", "k", "h", "a", "ok", "why", "lost"}
      BY <1>4 DEF States
    <3> HIDE DEF m
    <3> QED BY <2>1, <3>1
  <2>3. [m EXCEPT !.k = k, !.a = y] = t BY <1>4 DEF States
  <2> QED BY <1>3, <1>5, <2>2, <2>3
<1>7. history[id].gen \in Nat /\ history[id].health \in Requests \cup {Nil}
  <2>1. history \in Histories BY <1>1, HereIs, PartTypes DEF Good, Base, Loose
  <2> QED BY <2>1 DEF Histories, Records
<1>8. /\ y \in Admins /\ y.session = id /\ y.epoch = l.a.epoch + 1 /\ y.prep = l.a.prep
      /\ y.source = l.a.source /\ y.active = l.a.active /\ y.logs = l.a.logs
      /\ y.current = l.a.current /\ (y.consent => l.a.consent)
  BY <1>4, <1>7, AttachedAdmin
<1>9. /\ BrokerOK(c) /\ c \in Brokers /\ Tokens(c) = {} /\ DOMAIN c.entries = {}
      /\ c.session = id /\ c.epoch = l.b.epoch + 1 /\ c.source = Nil
      /\ c.consent.current = Nil
  BY <1>4, ActivatedFields DEF BrokerOK
<1>10. WorkerOK(v) /\ v \in Workers /\ SlotsOK(v, c, l.a)
  <2> HIDE DEF c
  <2>1. WorkerOK(v) /\ SlotsOK(v, c, l.a) BY <1>4, <1>9, SlotsEmptied
  <2> QED BY <2>1 DEF WorkerOK
<1>11. k \in Kernels /\ k.run = Nil /\ k.manual = Nil /\ k.success = Nil
  BY DEF NewSession, Kernels, Failures
<1> HIDE DEF v, c, y, k
<1>12. /\ t \in States /\ t.w = v /\ t.b = c /\ t.x = l.x /\ t.k = k /\ t.h = l.h
       /\ t.a = y
  BY <1>4, <1>8, <1>9, <1>10, <1>11 DEF States
<1> HIDE DEF t
<1>13. l.x = Nil BY <1>2 DEF Left
<1>14. RunOK(k, Nil) /\ SettledOK(k, Nil) BY <1>11 DEF RunOK, SettledOK, HandledOK
<1>15. MailboxOK(c, Nil, k) /\ SeenOK(c, Nil) BY <1>9, <1>11 DEF MailboxOK, SeenOK
<1>16. SlotsOK(v, c, y) BY <1>8, <1>10 DEF SlotsOK, PrepIds
<1>17. PlaceOK(c, y) BY <1>2, <1>8, <1>9 DEF Left, PlaceOK
<1>18. Matches(c, k, y) BY <1>2, <1>8, NothingMatches DEF Left
<1>19. Good(t)
  BY <1>9, <1>10, <1>12, <1>13, <1>14, <1>15, <1>16, <1>17, <1>18 DEF Good, Base, Loose
<1>20. Completes(Here, t) BY <1>2, <1>12, <1>19 DEF Completes, Left
<1> QED BY <1>6, <1>20, Becoming DEF StepOK
-----------------------------------------------------------------------------
(* The theorems. *)

\* What is true when the program starts.
LEMMA AdminInit ==
  ASSUME Init
  PROVE  AdminInv
<1>1. worker \in Workers /\ DOMAIN worker.jobs = {} /\ worker.lastRequest = 0
  <2> DEFINE f == worker.jobs
  <2>1. DOMAIN f = {} /\ worker = [jobs |-> f, lastRequest |-> 0, lastAllocated |-> 0]
    BY DEF Init, InitWorker
  <2>2. f \in JobTables
    <3>1. f = [i \in {} |-> Nil] BY DEF Init, InitWorker
    <3>2. f \in [{} -> Jobs] BY <3>1
    <3> QED BY <3>2 DEF JobTables
  <2> HIDE DEF f
  <2> QED BY <2>1, <2>2 DEF Workers
<1>2. /\ broker \in Brokers /\ DOMAIN broker.entries = {} /\ broker.authority = Nil
      /\ broker.source = Nil /\ broker.epoch = 0 /\ broker.session = Nil
      /\ broker.consent.current = Nil
  <2> DEFINE f == [t \in {} |-> Nil]
  <2>1. f \in EntryTables /\ DOMAIN f = {} BY NoEntries
  <2>2. broker = [session |-> Nil, epoch |-> 0, closed |-> TRUE, entries |-> f,
                  authority |-> Nil, source |-> Nil,
                  consent |-> [active |-> FALSE, current |-> Nil]]
    BY DEF Init, InitBroker
  <2> HIDE DEF f
  <2>3. [active |-> FALSE, current |-> Nil] \in Consents BY DEF Consents
  <2> QED BY <2>1, <2>2, <2>3 DEF Brokers
<1>3. exec = Nil BY DEF Init, InitBroker
<1>4. session \in Kernels /\ session.run = Nil /\ session.manual = Nil /\ session.success = Nil
  BY DEF Init, NewSession, Kernels, Failures
<1>5. history \in Histories
  <2>1. [gen |-> 0, health |-> Nil, latest |-> Nil] \in Records BY DEF Records
  <2> QED BY <2>1 DEF Init, Histories
<1>6. /\ admin \in Admins /\ admin.prep = Nil /\ admin.epoch = 0 /\ admin.session = Nil
      /\ admin.source = Nil /\ ~admin.consent /\ admin.active = Nil
      /\ admin.current = Nil /\ admin.logs = "unavailable"
  BY DEF Init, Admins
<1>7. Here \in States BY <1>1, <1>2, <1>3, <1>4, <1>5, <1>6 DEF Here, States, Failures
<1>8. WorkerOK(worker) /\ BrokerOK(broker) BY <1>1, <1>2 DEF WorkerOK, BrokerOK
<1>9. RunOK(session, exec) /\ SettledOK(session, exec)
  BY <1>3, <1>4 DEF RunOK, SettledOK, HandledOK
<1>10. MailboxOK(broker, exec, session) /\ SeenOK(broker, exec)
  BY <1>2, <1>3, <1>4 DEF MailboxOK, SeenOK
<1>11. SlotsOK(worker, broker, admin) BY <1>1, <1>6 DEF SlotsOK, LiveIds
<1>12. PlaceOK(broker, admin) BY <1>2, <1>6 DEF PlaceOK
<1>13. Matches(broker, session, admin) BY <1>6, NothingMatches
<1> QED BY <1>7, <1>8, <1>9, <1>10, <1>11, <1>12, <1>13, HereIs
        DEF AdminInv, Good, Base, Loose

\* Every step keeps the invariant, and records a success only if the authority
\* in force allowed it.
LEMMA AdminStep ==
  ASSUME AdminInv, [Next]_vars
  PROVE  StepOK
<1>0. Stores \subseteq BOOLEAN BY AdminAssumption
<1>1. CASE User
  BY <1>0, <1>1, SwitchStep, SelectStep, ReadStep, ChangeLogsStep, CancelAdminStep,
     InterruptStep, DecideStep DEF User
<1>2. CASE Model BY <1>0, <1>2, StartModelStep, ProposeStep, EndModelStep DEF Model
<1>3. CASE Loop BY <1>0, <1>3, PumpStep, DrainChatStep DEF Loop
<1>4. CASE Threads BY <1>4, ExecutorStep, JobStep DEF Threads
<1>5. CASE Clock BY <1>5, ClockStep
<1>6. CASE UNCHANGED vars
  <2>1. Here' = Here BY <1>6 DEF vars, Here
  <2>2. AdminInv' BY <2>1 DEF AdminInv
  <2>3. HistoryStep(broker, history, history') BY <1>6 DEF vars, HistoryStep
  <2> QED BY <2>2, <2>3 DEF StepOK
<1> QED BY <1>1, <1>2, <1>3, <1>4, <1>5, <1>6 DEF Next

\* The inductive invariant of the controller, the session, the broker and the
\* worker together.
THEOREM AdminInvariant == Spec => []AdminInv
<1>1. Init => AdminInv BY AdminInit
<1>2. AdminInv /\ [Next]_vars => AdminInv' BY AdminStep DEF StepOK
<1> QED BY <1>1, <1>2, PTL DEF Spec

\* Whatever is called in which order, and whatever fails on the way, a live
\* slot of the worker is awaited and an entry of the mailbox is waited for or
\* on its way out (discard, cancel_preparation, service).
THEOREM NothingIsStrandedHolds == Spec => []NothingIsStranded
<1>1. ASSUME AdminInv
      PROVE  NothingIsStranded
  <2>1. SlotsOK(worker, broker, admin) /\ MailboxOK(broker, exec, session)
    BY <1>1, HereIs DEF AdminInv, Good, Base, Loose
  <2> QED BY <2>1 DEF SlotsOK, MailboxOK, LiveIds, PrepIds, NothingIsStranded
<1> QED BY <1>1, AdminInvariant, PTL

\* What the controller shows is what the broker, the consent and the tool of
\* the session enforce, between any two of its calls (bind_consent_authority,
\* revoke_current_authority).
THEOREM ControllerMatchesBrokerHolds == Spec => []ControllerMatchesBroker
<1>1. ASSUME AdminInv, admin.active # Nil
      PROVE  /\ broker.authority =
                  [session |-> admin.session, target |-> admin.active,
                   gen |-> admin.gen, rev |-> admin.rev,
                   logs |-> (admin.logs = "enabled")]
             /\ ConsentMatches(broker, broker.authority)
             /\ session.tool = broker.authority
             /\ broker.source = admin.source
  <2> DEFINE u == broker.authority
  <2>1. Agrees(broker, session, admin)
    BY <1>1, HereIs DEF AdminInv, Good, Matches
  <2>2. broker \in Brokers BY <1>1, HereIs, PartTypes DEF AdminInv, Good, Base, Loose
  <2>3. u \in Authorities BY <2>1, <2>2, BrokerType DEF Agrees
  <2>4. u = [session |-> u.session, target |-> u.target, gen |-> u.gen, rev |-> u.rev,
             logs |-> u.logs] /\ u.logs \in BOOLEAN
    BY <2>3 DEF Authorities
  <2>5. u.logs = (admin.logs = "enabled")
    <3>1. CASE u.logs BY <2>1, <2>4, <3>1 DEF Agrees
    <3>2. CASE ~u.logs BY <2>1, <2>4, <3>2 DEF Agrees
    <3> QED BY <3>1, <3>2
  <2>6. /\ u.session = admin.session /\ u.target = admin.active /\ u.gen = admin.gen
        /\ u.rev = admin.rev
    BY <2>1 DEF Agrees
  <2>7. /\ ConsentMatches(broker, u) /\ session.tool = u /\ broker.source = admin.source
    BY <2>1 DEF Agrees, ConsentMatches
  <2> HIDE DEF u
  <2>8. u = [session |-> admin.session, target |-> admin.active, gen |-> admin.gen,
             rev |-> admin.rev, logs |-> (admin.logs = "enabled")]
    BY <2>4, <2>5, <2>6, Zenon
  <2> QED BY <2>7, <2>8 DEF u
<1>2. AdminInv => ControllerMatchesBroker BY <1>1 DEF ControllerMatchesBroker
<1> QED BY <1>2, AdminInvariant, PTL

\* No source outlives the activation it was prepared in, however the
\* preparation and the switch of the session overlap (attach, detach).
THEOREM SourceIsOfThisSessionHolds == Spec => []SourceIsOfThisSession
<1>1. ASSUME AdminInv
      PROVE  SourceIsOfThisSession
  <2>1. PlaceOK(broker, admin) BY <1>1, HereIs DEF AdminInv, Good, Base, Loose
  <2> QED BY <2>1 DEF PlaceOK, SourceIsOfThisSession
<1> QED BY <1>1, AdminInvariant, PTL

\* cache never finds a success of the run it waits for that was observed under
\* another selection.
THEOREM HistoryIsCoherentHolds == Spec => []HistoryIsCoherent
<1>1. ASSUME AdminInv
      PROVE  HistoryIsCoherent
  <2>1. RunOK(session, exec) /\ Matches(broker, session, admin)
    BY <1>1, HereIs DEF AdminInv, Good, Base, Loose
  <2> QED BY <2>1, HereIs DEF RunOK, Matches, CacheMismatch, HistoryIsCoherent
<1> QED BY <1>1, AdminInvariant, PTL

\* Log text is recorded only under the consent in force for its selection:
\* publish_observation looks at the consent in the very step that records.
THEOREM LogsNeedConsentHolds == Spec => LogsNeedConsent
<1> DEFINE Consented ==
      \A id \in Sessions :
        LET new == history'[id].latest
        IN (new # history[id].latest /\ new.request.op = "logs") =>
             /\ ConsentInForce(broker)
             /\ broker.consent.current.logs
             /\ broker.consent.current.session = id
             /\ broker.consent.current.gen = new.request.gen
<1>1. ASSUME AdminInv, [Next]_vars
      PROVE  Consented
  <2>1. HistoryStep(broker, history, history') BY <1>1, AdminStep DEF StepOK
  <2> QED BY <2>1 DEF HistoryStep, Preflight, Current, ConsentMatches, Validates,
                      ConsentInForce
<1>2. AdminInv /\ [Next]_vars => [Consented]_vars BY <1>1
<1> HIDE DEF Consented
<1>3. Spec => [][Consented]_vars BY <1>2, AdminInvariant, PTL DEF Spec
<1> QED BY <1>3 DEF LogsNeedConsent, Consented
===============================================================================
