------------------------ MODULE LocalSourceBrowser ------------------------
(***************************************************************************)
(* The local-file browser (src/src/lib/local_source_browser.cpp) composed   *)
(* with the worker whose threads do its reading and the registry that owns  *)
(* the leases it reads under, and with the context controller that runs on  *)
(* the worker (src/src/lib/local_context_controller.cpp).                   *)
(*                                                                          *)
(* Four kinds of actor take steps: the owner thread (the browser's          *)
(* handlers), the two threads of every job, and the registry's reclaimer.   *)
(* A file is an opaque content of its folder: a selected source is a root   *)
(* with the digest it had when it was read.                                 *)
(***************************************************************************)
EXTENDS LocalSourceWorker, LocalSourceGrants

CONSTANTS Digests,    \* contents of the file of a folder
          Purposes,   \* what a read is for (ReadPurpose)
          MaxEpoch    \* session activations before the model stops

\* ReadWork and ContextWork
ReadWork ==
  [id : Nat, purpose : {"listing", "preview", "selection"}, root : Roots,
   generation : Nat, revision : Nat]
ContextWork == [id : Nat, recovery : BOOLEAN, revision : Nat]

ASSUME BrowserAssumption ==
  /\ MaxEpoch \in Nat \ {0}
  /\ Purposes \subseteq {"listing", "preview", "selection"}
  /\ Nil \notin Nat \cup ReadWork \cup ContextWork \cup {"ok", "failed"}

VARIABLE browser

vars == <<worker, grants, browser>>

Sources == [root : Roots, digest : Digests]

\* A selection, or an admission: no file twice.
Selections ==
  {sources \in SUBSET Sources :
     \A a, b \in sources : a.root = b.root => a = b}

\* LocalBrowserState and the works of Impl.  `folders' maps a listed root to
\* its lease generation; `listing' and `preview' remember where they came
\* from.
InitBrowser ==
  browser = [session |-> Nil, epoch |-> 0, revision |-> 0,
             folders |-> [r \in {} |-> 0],
             selection |-> {}, listing |-> Nil, preview |-> Nil,
             granting |-> Nil, reading |-> Nil, preparing |-> Nil,
             repository |-> Nil, closed |-> FALSE]

Init == InitWorker /\ InitGrants /\ InitBrowser

\* One handler of the owner: the state of all three parts, taken through the
\* calls the handler makes.
Here == [w |-> worker, r |-> grants, b |-> browser]

Becomes(s) == worker' = s.w /\ grants' = s.r /\ browser' = s.b

Owner == ~browser.closed

-----------------------------------------------------------------------------
(* The steps the handlers share. *)

\* Variant: the read is forgotten and its job left to itself.
CancelReadForgetting(s) == [s EXCEPT !.b.reading = Nil]

CancelRead(s) ==
  IF s.b.reading = Nil THEN s
  ELSE [s EXCEPT !.w = Cancel(@, s.b.reading.id), !.b.reading = Nil]

CancelContext(s) ==
  IF s.b.preparing = Nil THEN s
  ELSE [s EXCEPT !.w = Cancel(@, s.b.preparing.id), !.b.preparing = Nil]

\* Variant: a new selection leaves every preparation alone.
CancelSelectedContextNever(s) == s

\* A recovery prepares a fixed membership: a new selection leaves it alone.
CancelSelectedContext(s) ==
  IF s.b.preparing = Nil \/ s.b.preparing.recovery THEN s
  ELSE CancelContext(s)

CancelRepository(s) ==
  IF s.b.repository = Nil THEN s
  ELSE [s EXCEPT !.w = Cancel(@, s.b.repository), !.b.repository = Nil]

\* The reservation goes with the work that holds it, and retires its slot.
CancelBrowsing(s) ==
  CancelRead(
    IF s.b.granting = Nil THEN s
    ELSE [s EXCEPT !.w = Cancel(@, s.b.granting),
                   !.r = Retire(@, {s.b.granting}),
                   !.b.granting = Nil])

CancelEverything(s) == CancelRepository(CancelContext(CancelBrowsing(s)))

SelectionChanged(s, selection) ==
  IF selection = s.b.selection THEN s
  ELSE LET cancelled == CancelSelectedContext(CancelRead(s))
       IN [cancelled EXCEPT !.b.selection = selection, !.b.revision = @ + 1]

\* Submit under the identity just allocated; the browser keeps `work' in
\* `field' if it really started.
SubmitWork(s, job, launch, field, work) ==
  LET id == s.w.lastAllocated
      submitted == [s EXCEPT !.w = Submit(@, id, job, launch)]
  IN IF Admission(s.w, id) = "launched" /\ launch = "started"
     THEN [submitted EXCEPT !.b[field] = work]
     ELSE submitted

-----------------------------------------------------------------------------
(* Sessions. *)

\* activate_session, and the invalidation of the previous session's jobs that
\* the application performs right after it.
ActivateSession(session) ==
  /\ Owner
  /\ browser.epoch < MaxEpoch
  /\ LET epoch == browser.epoch + 1
         cancelled ==
           CancelEverything([Here EXCEPT !.r = ActivateScope(@, session, epoch)])
         fresh ==
           [cancelled EXCEPT
              !.b = [@ EXCEPT !.session = session, !.epoch = epoch,
                              !.revision = 0, !.folders = [r \in {} |-> 0],
                              !.selection = {}, !.listing = Nil,
                              !.preview = Nil]]
     IN Becomes(IF browser.session = Nil THEN fresh
                ELSE [fresh EXCEPT !.w = InvalidateSession(@, browser.session)])

\* The end of the application: the session's jobs are invalidated, the
\* browser deactivated, then the registry and the worker are destroyed while
\* detached threads still run.
Shutdown ==
  /\ Owner
  /\ LET s == Here
         ended ==
           IF s.b.session = Nil THEN s
           ELSE [s EXCEPT !.w = InvalidateSession(@, s.b.session),
                          !.r = InvalidateScope(@, s.b.session)]
         idle == CancelEverything(ended)
     IN Becomes([idle EXCEPT
          !.r = CloseGrants(@),
          !.w = CancelAll(@, DOMAIN @.jobs),
          !.b = [@ EXCEPT !.session = Nil, !.folders = [r \in {} |-> 0],
                          !.selection = {}, !.listing = Nil, !.preview = Nil,
                          !.closed = TRUE]])

-----------------------------------------------------------------------------
(* Folders. *)

\* add_folder: one at a time; the slot is reserved before the work is
\* submitted, and a reservation whose work did not start is given up.
AddFolder(launch) ==
  /\ Owner
  /\ browser.session # Nil
  /\ browser.granting = Nil
  /\ CanAllocate(worker)
  /\ LET allocated == [Here EXCEPT !.w = Allocate(@)]
         id == allocated.w.lastAllocated
         record == NewRecord(browser.session, browser.epoch)
         reserved == [allocated EXCEPT !.r = Reserve(@, id, record)]
         task == [kind |-> "grant", phase |-> "reserved"]
         submitted ==
           SubmitWork(reserved, NewJob(browser.session, task, {}), launch,
                      "granting", id)
     IN IF ~CanReserve(grants, id, record) THEN Becomes(allocated)
        ELSE IF submitted.b.granting = id THEN Becomes(submitted)
        ELSE Becomes([submitted EXCEPT !.r = Retire(@, {id})])

\* remove_folder: the grant is revoked first, so that nothing of what follows
\* can still be read under it.
RemoveFolder(root) ==
  /\ Owner
  /\ browser.session # Nil
  /\ root \in DOMAIN browser.folders
  /\ LET revoked == Revocable(grants, browser.session, root,
                              browser.folders[root])
         idle == CancelEverything([Here EXCEPT !.r = Retire(@, revoked)])
         of(shown) == shown # Nil /\ shown.root = root
         erased ==
           [idle EXCEPT
              !.b.folders = Restrict(@, DOMAIN @ \ {root}),
              !.b.listing = IF of(@) THEN Nil ELSE @,
              !.b.preview = IF of(@) THEN Nil ELSE @]
     IN /\ revoked # {}
        /\ Becomes(SelectionChanged(erased,
             {source \in browser.selection : source.root # root}))

-----------------------------------------------------------------------------
(* Reads. *)

\* begin_read, for navigate, preview and add_evidence.
BeginRead(root, purpose, launch) ==
  /\ Owner
  /\ browser.session # Nil
  /\ CanAllocate(worker)
  /\ \E g \in Resolved(grants, browser.session, root) :
       LET allocated == [Here EXCEPT !.w = Allocate(@)]
           id == allocated.w.lastAllocated
           task == [kind |-> "read", purpose |-> purpose]
           work == [id |-> id, purpose |-> purpose, root |-> root,
                    generation |-> g, revision |-> browser.revision]
           cleared ==
             IF purpose = "selection"
             THEN CancelSelectedContext(CancelRead(allocated))
             ELSE CancelRead(allocated)
       IN Becomes(SubmitWork(cleared, NewJob(browser.session, task, {g}),
                             launch, "reading", work))

RemoveEvidence(source) ==
  /\ Owner
  /\ source \in browser.selection
  /\ Becomes(SelectionChanged(Here, browser.selection \ {source}))

ClearEvidence ==
  /\ Owner
  /\ browser.selection # {} \/ browser.reading # Nil
  /\ Becomes(SelectionChanged(CancelRead(Here), {}))

CancelBrowsingNow ==
  /\ Owner
  /\ browser.granting # Nil \/ browser.reading # Nil
  /\ Becomes(CancelBrowsing(Here))

-----------------------------------------------------------------------------
(* poll: a folder grant, then a read. *)

\* poll_grant: what the worker delivers is accepted into the registry, which
\* may refuse it; then the reservation ends with the work.
PollGrant(s) ==
  LET id == s.b.granting
      polled == [s EXCEPT !.w = Poll(@, id, FALSE), !.b.granting = Nil]
      root == s.r.slots[id].root
      accepted == [polled EXCEPT !.r = Accept(@, id)]
  IN IF id = Nil THEN s
     ELSE IF PollStatus(s.w, id) # "delivered"
     THEN [s EXCEPT !.w = Reap(@)]
     ELSE IF s.w.jobs[id].result = "failed"
     THEN [polled EXCEPT !.r = Retire(@, {id})]
     ELSE IF ~CanAccept(s.r, id) THEN accepted
     ELSE CancelContext([accepted EXCEPT
            !.b.folders = [r \in DOMAIN @ \cup {root} |->
                             IF r = root THEN id ELSE @[r]]])

\* A result counts only while the very grant it was read under is in force
\* and the selection is the one it was asked for.
StillCurrent(s, work) ==
  /\ work.generation \in Resolved(s.r, s.b.session, work.root)
  /\ work.revision = s.b.revision

\* apply_selection: the file takes the place of an earlier content of itself.
WithSource(selection, source) ==
  {other \in selection : other.root # source.root} \cup {source}

PollRead(s, digest) ==
  LET work == s.b.reading
      polled == [s EXCEPT !.w = Poll(@, work.id, FALSE), !.b.reading = Nil]
      shown == [root |-> work.root, generation |-> work.generation]
      source == [root |-> work.root, digest |-> digest]
      selected ==
        SelectionChanged(polled, WithSource(s.b.selection, source))
  IN IF work = Nil THEN s
     ELSE IF PollStatus(s.w, work.id) # "delivered"
     THEN [s EXCEPT !.w = Reap(@)]
     ELSE IF s.w.jobs[work.id].result = "failed" \/ ~StillCurrent(s, work)
     THEN polled
     ELSE CASE work.purpose = "listing" -> [polled EXCEPT !.b.listing = shown]
            [] work.purpose = "preview" -> [polled EXCEPT !.b.preview = shown]
            [] OTHER -> [selected EXCEPT !.b.preview = shown]

PollBrowser ==
  /\ Owner
  /\ browser.granting # Nil \/ browser.reading # Nil
  /\ \E digest \in Digests : Becomes(PollRead(PollGrant(Here), digest))

-----------------------------------------------------------------------------
(* Context preparation, on the worker. *)

\* begin_context: one at a time.
BeginContext(sources, revision, recovery, launch) ==
  /\ Owner
  /\ browser.session # Nil
  /\ browser.preparing = Nil
  /\ CanAllocate(worker)
  /\ revision > 0
  /\ LET allocated == [Here EXCEPT !.w = Allocate(@)]
         id == allocated.w.lastAllocated
         task == [kind |-> "context", sources |-> sources, todo |-> sources,
                  got |-> {}, checked |-> {}]
         work == [id |-> id, recovery |-> recovery, revision |-> revision]
     IN Becomes(SubmitWork(allocated, NewJob(browser.session, task, {}),
                           launch, "preparing", work))

\* prepare_selection: not while a file is being read into the selection.
PrepareSelection(launch) ==
  /\ browser.reading # Nil => browser.reading.purpose # "selection"
  /\ BeginContext(browser.selection, browser.revision, FALSE, launch)

\* revalidate: what an earlier admission of this session recorded.
Revalidate(sources, launch) == BeginContext(sources, 1, TRUE, launch)

PollContext ==
  /\ Owner
  /\ browser.preparing # Nil
  /\ LET id == browser.preparing.id
         polled == [Here EXCEPT !.w = Poll(@, id, FALSE)]
     IN Becomes(IF PollStatus(worker, id) = "delivered"
                THEN [polled EXCEPT !.b.preparing = Nil] ELSE polled)

CancelContextNow ==
  /\ Owner
  /\ browser.preparing # Nil
  /\ Becomes(CancelContext(Here))

PrepareRepository(launch) ==
  /\ Owner
  /\ browser.session # Nil
  /\ browser.repository = Nil
  /\ CanAllocate(worker)
  /\ LET allocated == [Here EXCEPT !.w = Allocate(@)]
         id == allocated.w.lastAllocated
         job == NewJob(browser.session, [kind |-> "repository"], {})
     IN Becomes(SubmitWork(allocated, job, launch, "repository", id))

PollRepository ==
  /\ Owner
  /\ browser.repository # Nil
  /\ LET id == browser.repository
         polled == [Here EXCEPT !.w = Poll(@, id, FALSE)]
     IN Becomes(IF PollStatus(worker, id) = "delivered"
                THEN [polled EXCEPT !.b.repository = Nil] ELSE polled)

CancelRepositoryNow ==
  /\ Owner
  /\ browser.repository # Nil
  /\ Becomes(CancelRepository(Here))

-----------------------------------------------------------------------------
(* What the ports do when the worker calls them. *)

Borrowed(g) == \E i \in DOMAIN worker.jobs : g \in worker.jobs[i].borrows

\* A reader or the repository controller answers, in time or not.
PortReturns(i) ==
  /\ Calling(i, "read") \/ Calling(i, "repository")
  /\ \E answer \in {"ok", "failed"} : Return(i, answer, {})
  /\ UNCHANGED <<grants, browser>>

\* Producer::grant
GrantDispatch(i) ==
  /\ Calling(i, "grant")
  /\ worker.jobs[i].task.phase = "reserved"
  /\ IF CanDispatch(grants, i)
     THEN /\ grants' = Dispatch(grants, i)
          /\ worker' = [worker EXCEPT !.jobs[i].task.phase = "running"]
     ELSE Return(i, "failed", {}) /\ UNCHANGED grants
  /\ UNCHANGED browser

\* The factory opened the folder, which turns out to be `root'; stage_result
\* and finish settle the slot.
GrantReturns(i, root) ==
  /\ Calling(i, "grant")
  /\ worker.jobs[i].task.phase = "running"
  /\ LET staged == Staged(grants, i, root, worker.jobs[i].stop)
         refused == staged.slots[i].retired
     IN /\ grants' = FinishGrant(staged, i, refused)
        /\ IF refused THEN Return(i, "failed", {}) ELSE Return(i, "ok", {i})
  /\ UNCHANGED browser

\* The factory failed, or a stop request came before it was called.
GrantFails(i) ==
  /\ Calling(i, "grant")
  /\ worker.jobs[i].task.phase = "running"
  /\ grants' = FinishGrant(grants, i, TRUE)
  /\ Return(i, "failed", {})
  /\ UNCHANGED browser

RootsGot(job) == {grants.slots[g].root : g \in job.task.got}

\* prepare_sources, one root or source at a time.  A root is resolved when
\* its first source is reached.
ContextResolve(i, source) ==
  /\ Calling(i, "context")
  /\ LET job == worker.jobs[i]
         found == Resolved(grants, job.session, source.root)
     IN /\ source \in job.task.todo
        /\ source.root \notin RootsGot(job)
        /\ ~job.stop
        /\ IF found = {} THEN Return(i, "failed", {})
           ELSE worker' = [worker EXCEPT !.jobs[i].task.got = @ \cup found,
                                         !.jobs[i].borrows = @ \cup found]
  /\ UNCHANGED <<grants, browser>>

\* The source still has the content it was selected with.
ContextRead(i, source) ==
  /\ Calling(i, "context")
  /\ LET job == worker.jobs[i]
     IN /\ source \in job.task.todo
        /\ source.root \in RootsGot(job)
  /\ worker' = [worker EXCEPT !.jobs[i].task.todo = @ \ {source}]
  /\ UNCHANGED <<grants, browser>>

\* After the last read every root must still resolve to the same lease.
ContextCheck(i, g) ==
  /\ Calling(i, "context")
  /\ LET job == worker.jobs[i]
     IN /\ job.task.todo = {}
        /\ g \in job.task.got \ job.task.checked
        /\ ~job.stop
        /\ IF Resolved(grants, job.session, grants.slots[g].root) = {g}
           THEN worker' = [worker EXCEPT !.jobs[i].task.checked = @ \cup {g}]
           ELSE Return(i, "failed", {})
  /\ UNCHANGED <<grants, browser>>

\* Cancelled, out of time, or the source changed.
ContextFails(i) ==
  /\ Calling(i, "context")
  /\ Return(i, "failed", {})
  /\ UNCHANGED <<grants, browser>>

ContextReturns(i) ==
  /\ Calling(i, "context")
  /\ LET job == worker.jobs[i]
     IN /\ job.task.todo = {}
        /\ job.task.checked = job.task.got
        /\ ~job.stop
  /\ Return(i, "ok", {})
  /\ UNCHANGED <<grants, browser>>

-----------------------------------------------------------------------------
WorkerStep(i) ==
  (Relay(i) \/ WorkerThread(i)) /\ UNCHANGED <<grants, browser>>

GrantPort(i) ==
  \/ GrantDispatch(i)
  \/ \E root \in Roots : GrantReturns(i, root)
  \/ GrantFails(i)

ContextPort(i) ==
  \/ \E source \in Sources : ContextResolve(i, source) \/ ContextRead(i, source)
  \/ \E g \in Ids : ContextCheck(i, g)
  \/ ContextFails(i)
  \/ ContextReturns(i)

Reclaim(g) ==
  /\ BeginReclaim(g, Borrowed(g)) \/ EndReclaim(g)
  /\ UNCHANGED <<worker, browser>>

User ==
  \/ \E session \in Sessions : ActivateSession(session)
  \/ Shutdown
  \/ \E root \in Roots : RemoveFolder(root)
  \/ \E source \in Sources : RemoveEvidence(source)
  \/ ClearEvidence
  \/ CancelBrowsingNow
  \/ CancelContextNow
  \/ CancelRepositoryNow
  \/ \E launch \in Launches :
       \/ AddFolder(launch)
       \/ \E root \in Roots, purpose \in Purposes :
            BeginRead(root, purpose, launch)
       \/ PrepareSelection(launch)
       \/ \E sources \in Selections \ {{}} : Revalidate(sources, launch)
       \/ PrepareRepository(launch)

Threads ==
  \/ \E i \in Ids :
       WorkerStep(i) \/ PortReturns(i) \/ GrantPort(i) \/ ContextPort(i)
  \/ \E g \in Ids : Reclaim(g)

Next == User \/ PollBrowser \/ PollContext \/ PollRepository \/ Threads

\* The operating system runs the detached threads and the reclaimer, and a
\* port's call returns.  Nothing is assumed of the owner.
Fairness == WF_vars(Threads)

Spec == Init /\ [][Next]_vars /\ Fairness

-----------------------------------------------------------------------------
(* Properties. *)

Listed == DOMAIN browser.folders

\* The works the browser remembers.
PendingWork ==
  ({browser.granting, browser.repository} \ {Nil})
    \cup {work.id : work \in {browser.reading, browser.preparing} \ {Nil}}

ShownSet == {browser.listing, browser.preview} \ {Nil}

\* A lease lives as long as somebody may read through it: no job ever holds a
\* borrowed lease that the reclaimer has begun to destroy (Borrow, reclaim_one).
LeaseOutlivesReaders ==
  \A i \in DOMAIN worker.jobs : \A g \in worker.jobs[i].borrows :
    g \in DOMAIN grants.slots /\ grants.slots[g].physical

\* The worker and the browser agree on what is under way: work the browser
\* waits for can still be delivered, and no job that could be delivered has
\* been forgotten, which would hold its slot for ever (cancel_*, SubmitWork).
LiveWorkIsPending ==
  {i \in DOMAIN worker.jobs : Live(worker.jobs[i])} = PendingWork

\* The registry and the browser agree on what is granted: a grant that is not
\* retired is the pending one or that of a listed folder, a listed folder has
\* an active grant of its generation in the current session, and nothing is
\* shown or selected that was not read under such a folder.
GrantsMatchFolders ==
  /\ \A g \in DOMAIN grants.slots :
       ~grants.slots[g].retired =>
         \/ g = browser.granting
         \/ /\ grants.slots[g].active
            /\ grants.slots[g].root \in Listed
            /\ browser.folders[grants.slots[g].root] = g
  /\ \A root \in Listed :
       Resolved(grants, browser.session, root) = {browser.folders[root]}
  /\ \A shown \in ShownSet :
       shown.root \in Listed /\ browser.folders[shown.root] = shown.generation
  /\ \A source \in browser.selection : source.root \in Listed

\* A prepared context that the owner could still take was read under grants
\* that are all in force, and is about the current selection unless it is a
\* recovery (prepare_sources, selection_changed, remove_folder).
ContextIsCurrent ==
  browser.preparing # Nil =>
    LET job == worker.jobs[browser.preparing.id]
        delivered == PollStatus(worker, browser.preparing.id) = "delivered"
    IN /\ (delivered /\ job.result = "ok") =>
            \A g \in job.task.got :
              g \in DOMAIN grants.slots /\ grants.slots[g].active
       /\ ~browser.preparing.recovery =>
            /\ job.task.sources = browser.selection
            /\ browser.preparing.revision = browser.revision
            /\ browser.reading # Nil => browser.reading.purpose # "selection"

\* A lease that is revoked, superseded or abandoned is eventually destroyed
\* and its slot free again, though its readers may be slow (reclaim).
RevokedLeasesAreReclaimed ==
  \A g \in Ids :
    (g \in DOMAIN grants.slots /\ grants.slots[g].retired)
      ~> (g \notin DOMAIN grants.slots)

\* Cancelled work eventually gives up its slot (retired_locked).
CancelledWorkRetires ==
  \A i \in Ids :
    (i \in DOMAIN worker.jobs /\ worker.jobs[i].discarded)
      ~> (i \notin DOMAIN worker.jobs \/ Retired(worker.jobs[i]))
=============================================================================
