------------------------- MODULE LocalSourceWorker -------------------------
(***************************************************************************)
(* The worker that reads local files and Ops sources off the owner thread   *)
(* (src/src/lib/local_source_worker.cpp).  Every accepted request is a job  *)
(* with two detached threads of its own: the source thread (read_source)    *)
(* calls the port and publishes what it answers, the relay thread           *)
(* (deliver_cancellation) turns a discard into a stop request.  The owner   *)
(* submits, polls and cancels; a job keeps its slot until both threads are  *)
(* done, whatever the owner decided meanwhile.                              *)
(*                                                                          *)
(* The owner's operations are operators on the worker's state, because one  *)
(* handler of the owner performs several of them; what the threads do are   *)
(* actions.  What a port answers is an action of the module that knows the  *)
(* port (Return).                                                           *)
(***************************************************************************)
EXTENDS Naturals, FiniteSets, Functions

CONSTANTS MaxRequest,   \* request identities before the model stops
          Capacity,     \* slots of the worker (capacity)
          Sessions,     \* session identities
          Launches,     \* how launching a job's threads may end
          Nil

ASSUME WorkerAssumption ==
  /\ MaxRequest \in Nat \ {0}
  /\ Capacity \in Nat \ {0}
  /\ Launches \subseteq {"started", "no_relay", "no_source"}
  /\ Nil \notin Sessions

VARIABLE worker  \* [jobs, lastRequest, lastAllocated]

Ids == 1 .. MaxRequest

(***************************************************************************)
(* A job.  `pc' is the source thread: it waits to be started, is in the     *)
(* port's call, holds a resource it has published until it is claimed or    *)
(* refused, disposes of it, is done.  `borrows' are the leases the job's    *)
(* port or result keep alive, `task' is the request.                        *)
(***************************************************************************)
NewJob(session, task, borrows) ==
  [session |-> session, task |-> task, borrows |-> borrows,
   discarded |-> FALSE, consumed |-> FALSE, relayDone |-> FALSE,
   stop |-> FALSE, pc |-> "waiting", result |-> Nil]

\* ready: the answer is published.
Ready(job) == job.pc \in {"holding", "disposing", "done"}

ReaderDone(job) == job.pc = "done"

\* A folder grant and a prepared Ops source stay with the thread that made
\* them until somebody claims them (producer_holds_result).
ProducerHoldsResult(job) == job.task.kind \in {"grant", "preparation"}

Retired(job) ==
  (job.discarded \/ job.consumed) /\ ReaderDone(job) /\ job.relayDone

Live(job) == ~job.discarded /\ ~job.consumed

InitWorker ==
  worker = [jobs |-> [i \in {} |-> Nil], lastRequest |-> 0, lastAllocated |-> 0]

-----------------------------------------------------------------------------
(* The owner's operations. *)

Known(w, i) == i \in DOMAIN w.jobs

Reap(w) ==
  [w EXCEPT !.jobs =
     Restrict(@, {i \in DOMAIN @ : ~Retired(@[i])})]

Discard(w, i) == [w EXCEPT !.jobs[i].discarded = TRUE]

\* allocate_request_id: the next identity, whether the last one was allocated
\* here or brought along by a submission.
NextRequest(w) ==
  1 + (IF w.lastRequest >= w.lastAllocated THEN w.lastRequest
       ELSE w.lastAllocated)

CanAllocate(w) == NextRequest(w) <= MaxRequest

Allocate(w) == [w EXCEPT !.lastAllocated = NextRequest(w)]

\* What submit answers; "launched" is the only one that starts the threads.
Admission(w, i) ==
  IF i <= w.lastRequest THEN "stale"
  ELSE IF Cardinality(DOMAIN Reap(w).jobs) >= Capacity THEN "busy"
  ELSE "launched"

\* launch: both threads start, or the relay thread cannot be created, or the
\* source thread cannot.  A job that could not be launched is discarded and
\* keeps its slot until the relay thread that did start is done.
Submit(w, i, job, launch) ==
  CASE Admission(w, i) = "stale" -> w
    [] Admission(w, i) = "busy" -> Reap(w)
    [] OTHER ->
       LET launched ==
             IF launch = "started" THEN job
             ELSE [job EXCEPT !.discarded = TRUE, !.pc = "done",
                              !.borrows = {},
                              !.relayDone = (launch = "no_relay")]
       IN [Reap(w) EXCEPT
             !.jobs = [j \in DOMAIN @ \cup {i} |->
                         IF j = i THEN launched ELSE @[j]],
             !.lastRequest = i]

\* What poll answers: the job is unknown, discarded or consumed ("stale"),
\* its answer is not there yet ("pending"), or it is delivered.
PollStatus(w, i) ==
  IF ~Known(w, i) \/ ~Live(w.jobs[i]) THEN "stale"
  ELSE IF /\ Ready(w.jobs[i])
          /\ w.jobs[i].relayDone
          /\ ProducerHoldsResult(w.jobs[i]) \/ ReaderDone(w.jobs[i])
       THEN "delivered"
  ELSE "pending"

\* The answer moves out to the owner, with the borrows it carries, unless
\* `left' says that it stays behind for the source thread to dispose of.
Poll(w, i, left) ==
  IF PollStatus(w, i) # "delivered" THEN Reap(w)
  ELSE Reap([w EXCEPT
         !.jobs[i].consumed = TRUE,
         !.jobs[i].result = IF left THEN @ ELSE Nil,
         !.jobs[i].borrows = IF left THEN @ ELSE {}])

Cancel(w, i) == IF Known(w, i) THEN Reap(Discard(w, i)) ELSE w

CancelAll(w, is) ==
  IF is \cap DOMAIN w.jobs = {} THEN w
  ELSE Reap([w EXCEPT !.jobs =
         [i \in DOMAIN @ |->
            IF i \in is THEN [@[i] EXCEPT !.discarded = TRUE] ELSE @[i]]])

InvalidateSession(w, session) ==
  Reap([w EXCEPT !.jobs =
    [i \in DOMAIN @ |->
       IF @[i].session = session THEN [@[i] EXCEPT !.discarded = TRUE]
       ELSE @[i]]])

-----------------------------------------------------------------------------
(* The threads. *)

\* deliver_cancellation: woken by a discard or by the published answer, the
\* relay asks the port to stop in the first case, and is done.
Relay(i) ==
  /\ Known(worker, i)
  /\ ~worker.jobs[i].relayDone
  /\ worker.jobs[i].discarded \/ Ready(worker.jobs[i])
  /\ worker' = [worker EXCEPT
       !.jobs[i].stop = worker.jobs[i].discarded,
       !.jobs[i].relayDone = TRUE]

\* The rest of read_source once there is an answer: the port is released, the
\* answer stored for the owner unless the job was discarded meanwhile (then
\* the thread destroys it and whatever it borrows by itself), and a thread
\* whose answer is a resource stays with it.  `kept' are the leases the answer
\* borrows.
Published(w, i, answer, kept) ==
  LET job == w.jobs[i]
  IN [w EXCEPT
        !.jobs[i].pc = IF ProducerHoldsResult(job) THEN "holding" ELSE "done",
        !.jobs[i].result = IF job.discarded THEN Nil ELSE answer,
        !.jobs[i].borrows = IF job.discarded THEN {} ELSE kept]

\* invoke_job: a job discarded before it began never reaches its port.
Begin(i) ==
  /\ Known(worker, i)
  /\ worker.jobs[i].pc = "waiting"
  /\ worker' = IF worker.jobs[i].discarded
               THEN Published(worker, i, "failed", {})
               ELSE [worker EXCEPT !.jobs[i].pc = "calling"]

Calling(i, kind) ==
  /\ Known(worker, i)
  /\ worker.jobs[i].pc = "calling"
  /\ worker.jobs[i].task.kind = kind

\* The port returned.
Return(i, answer, kept) == worker' = Published(worker, i, answer, kept)

\* Variant: the source thread waits for its resource to be claimed only.
TakeBackConsumed(i) ==
  /\ Known(worker, i)
  /\ worker.jobs[i].pc = "holding"
  /\ worker.jobs[i].consumed
  /\ worker' = [worker EXCEPT !.jobs[i].pc = "disposing"]

\* A resource nobody may claim any more goes back to the source thread, which
\* destroys it before the slot can retire.
TakeBack(i) ==
  /\ Known(worker, i)
  /\ worker.jobs[i].pc = "holding"
  /\ ~Live(worker.jobs[i])
  /\ worker' = [worker EXCEPT !.jobs[i].pc = "disposing"]

Finish(i) ==
  /\ Known(worker, i)
  /\ worker.jobs[i].pc = "disposing"
  /\ worker' = [worker EXCEPT !.jobs[i].pc = "done",
                              !.jobs[i].result = Nil,
                              !.jobs[i].borrows = {}]

WorkerThread(i) == Begin(i) \/ TakeBack(i) \/ Finish(i)
=============================================================================
