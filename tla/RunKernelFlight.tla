--------------------------- MODULE RunKernelFlight ---------------------------
(***************************************************************************)
(* Proofs about the updates in flight: what the backend and tool workers   *)
(* have said and the owner has not yet processed belongs to the inference  *)
(* or the tool that is active, and joining the deadline worker completes.  *)
(* From this, and from what the log says of questions and of reserved      *)
(* spend, follows that the kernel implements ToolLifecycle.                *)
(***************************************************************************)
EXTENDS RunKernelProtocol

(***************************************************************************)
(* The updates in flight.                                                  *)
(***************************************************************************)
ToolUpdate(u) == u.k \in ToolEvents \cup {"tool_failure", "tool_ended"}
UpdatesBelong ==
  \A u \in InFlight :
    /\ BackendUpdate(u) => /\ kern.active.live /\ kern.active.inference
                           /\ u.inference = count.inferences /\ pc # "backend"
    /\ ToolUpdate(u) => /\ kern.active.live /\ kern.active.tool = u.call
                        /\ u.call \in Calls /\ pc # "spawn"
WorkersBelong ==
  /\ backend.at # "off" =>
       kern.active.live /\ kern.active.inference /\ pc # "backend"
  /\ worker.at # "off" \/ deadline # "off" =>
       /\ kern.active.live /\ kern.active.tool = worker.call
       /\ worker.call \in Calls /\ pc # "spawn"

(* The end of a stream is the last update of its worker. *)
EndIsLast(q, i) ==
  /\ q[i].k = "backend_ended" =>
       backend.at = "off" /\ \A j \in DOMAIN q : i < j => ~BackendUpdate(q[j])
  /\ q[i].k = "tool_ended" =>
       worker.at = "off" /\ \A j \in DOMAIN q : i < j => ~ToolUpdate(q[j])
EndsAreLast ==
  /\ \A i \in DOMAIN batch : EndIsLast(batch, i)
  /\ \A i \in DOMAIN queue : EndIsLast(queue, i)
  /\ \A u \in Range(batch), v \in Range(queue) :
       /\ u.k = "backend_ended" => ~BackendUpdate(v)
       /\ u.k = "tool_ended" => ~ToolUpdate(v)

(* Only the deadline worker can push while the end of the tool is processed. *)
JoinHasRoom ==
  (\E u \in Range(batch) : u.k = "tool_ended") /\ deadline # "off" => queue = <<>>
FlightInv == UpdatesBelong /\ WorkersBelong /\ EndsAreLast /\ JoinHasRoom

(***************************************************************************)
(* When nothing is in flight.                                              *)
(***************************************************************************)
Quiescent ==
  /\ \A u \in InFlight : ~BackendUpdate(u) /\ ~ToolUpdate(u)
  /\ backend.at = "off" /\ worker.at = "off" /\ deadline = "off"

(* Then there is nothing to belong anywhere. *)
LEMMA QuiescentFlight == Quiescent => FlightInv
<1> SUFFICES ASSUME Quiescent
             PROVE  FlightInv
  OBVIOUS
<1>1. /\ \A i \in DOMAIN batch : batch[i] \in InFlight
      /\ \A i \in DOMAIN queue : queue[i] \in InFlight
      /\ Range(batch) \subseteq InFlight /\ Range(queue) \subseteq InFlight
  BY DEF InFlight, Range
<1>2. \A u : u.k = "backend_ended" => BackendUpdate(u)
  BY DEF BackendUpdate
<1>3. \A u : u.k = "tool_ended" => ToolUpdate(u)
  BY DEF ToolUpdate
<1>4. UpdatesBelong /\ WorkersBelong
  BY DEF Quiescent, UpdatesBelong, WorkersBelong
<1>5. EndsAreLast
  BY <1>1, <1>2, <1>3 DEF Quiescent, EndsAreLast, EndIsLast
<1>6. JoinHasRoom
  BY DEF Quiescent, JoinHasRoom
<1> QED
  BY <1>4, <1>5, <1>6 DEF FlightInv

(* A kernel that has no inference and no tool, or that is about to create the
   worker of one, is quiescent. *)
LEMMA OwnerQuiescent ==
  ASSUME KernelInv, FlightInv,
         \/ ~kern.active.live
         \/ ~kern.active.inference /\ kern.active.tool = None
         \/ pc \in {"spawn", "backend"}
  PROVE  Quiescent
<1>1. /\ kern.active.inference => kern.active.tool = None
      /\ pc = "spawn" => kern.active.tool \in Calls
      /\ pc = "backend" => kern.active.inference
      /\ None \notin Calls
  BY KernelAssumption DEF KernelInv, ProtocolInv, Kept, ActiveKept, OwnerKept
<1>2. \A u \in InFlight : ~BackendUpdate(u)
  BY <1>1 DEF FlightInv, UpdatesBelong
<1>3. \A u \in InFlight : ~ToolUpdate(u)
  BY <1>1 DEF FlightInv, UpdatesBelong
<1>4. backend.at = "off" /\ worker.at = "off" /\ deadline = "off"
  BY <1>1 DEF FlightInv, WorkersBelong
<1> QED
  BY <1>2, <1>3, <1>4 DEF Quiescent

(***************************************************************************)
(* Steps that keep the inference and the tool.                             *)
(***************************************************************************)
SameActive(t, u) ==
  /\ u.active.live = t.active.live /\ u.active.inference = t.active.inference
  /\ u.active.tool = t.active.tool

(* Nothing else moves. *)
LEMMA StillFlight ==
  ASSUME FlightInv, SameActive(kern, kern'), pc' \notin {"spawn", "backend"},
         UNCHANGED <<queue, batch, backend, worker, deadline, count>>
  PROVE  FlightInv'
<1>1. InFlight' = InFlight
  BY DEF InFlight
<1>2. UpdatesBelong'
  BY <1>1 DEF FlightInv, UpdatesBelong, SameActive, BackendUpdate, ToolUpdate
<1>3. WorkersBelong'
  BY DEF FlightInv, WorkersBelong, SameActive
<1>4. EndsAreLast'
  BY DEF FlightInv, EndsAreLast, EndIsLast, BackendUpdate, ToolUpdate
<1>5. JoinHasRoom'
  BY DEF FlightInv, JoinHasRoom
<1> QED
  BY <1>2, <1>3, <1>4, <1>5 DEF FlightInv

(* An update of a worker that is not its last. *)
LEMMA ProcessedFlight ==
  ASSUME TypeOK, FlightInv, NEW K, Processing(K), SameActive(kern, kern'), pc' = pc,
         deadline' = deadline
  PROVE  FlightInv'
<1>1. /\ batch \in Seq(Updates) /\ batch # <<>> /\ batch' = Tail(batch) /\ queue' = queue
      /\ UNCHANGED <<backend, worker, count>> /\ pc = "ready"
  BY DEF Processing, TypeOK
<1>2. /\ Len(batch) \in Nat \ {0} /\ DOMAIN batch = 1..Len(batch)
      /\ DOMAIN batch' = 1..(Len(batch) - 1)
      /\ \A i \in 1..(Len(batch) - 1) : batch'[i] = batch[i + 1]
  BY <1>1
<1>3. Range(batch') \subseteq Range(batch) /\ InFlight' \subseteq InFlight
  BY <1>1, TailRange DEF InFlight
<1>4. UpdatesBelong'
  BY <1>1, <1>3 DEF FlightInv, UpdatesBelong, SameActive, BackendUpdate, ToolUpdate
<1>5. WorkersBelong'
  BY <1>1 DEF FlightInv, WorkersBelong, SameActive
<1>6. ASSUME NEW i \in DOMAIN batch'
      PROVE  EndIsLast(batch, i)'
  <2>1. i + 1 \in DOMAIN batch /\ batch'[i] = batch[i + 1] /\ EndIsLast(batch, i + 1)
    BY <1>2 DEF FlightInv, EndsAreLast
  <2>2. \A j \in DOMAIN batch' : /\ j + 1 \in DOMAIN batch /\ batch'[j] = batch[j + 1]
                                 /\ i < j => i + 1 < j + 1
    BY <1>2
  <2> QED
    BY <1>1, <2>1, <2>2 DEF EndIsLast, BackendUpdate, ToolUpdate
<1>7. \A i \in DOMAIN queue : EndIsLast(queue, i)'
  BY <1>1 DEF FlightInv, EndsAreLast, EndIsLast, BackendUpdate, ToolUpdate
<1>8. EndsAreLast'
  BY <1>1, <1>3, <1>6, <1>7 DEF FlightInv, EndsAreLast, BackendUpdate, ToolUpdate
<1>9. JoinHasRoom'
  BY <1>1, <1>3 DEF FlightInv, JoinHasRoom
<1> QED
  BY <1>4, <1>5, <1>8, <1>9 DEF FlightInv

(* A swap takes the queue as it is. *)
LEMMA SwapFlight ==
  ASSUME TypeOK, FlightInv, NEW m, DrainSwap(m)
  PROVE  FlightInv'
<1>1. /\ batch = <<>> /\ batch' = queue /\ queue' = <<>> /\ pc = "ready"
      /\ UNCHANGED <<kern, pc, backend, worker, deadline, count>>
  BY DEF DrainSwap, OwnerIdle
<1>2. InFlight' = InFlight /\ Range(queue') = {} /\ DOMAIN queue' = {}
  BY <1>1, EmptyRange DEF InFlight
<1>3. UpdatesBelong'
  BY <1>1, <1>2 DEF FlightInv, UpdatesBelong, BackendUpdate, ToolUpdate
<1>4. WorkersBelong'
  BY <1>1 DEF FlightInv, WorkersBelong
<1>5. EndsAreLast'
  BY <1>1, <1>2 DEF FlightInv, EndsAreLast, EndIsLast, BackendUpdate, ToolUpdate
<1>6. JoinHasRoom'
  BY <1>1 DEF JoinHasRoom
<1> QED
  BY <1>3, <1>4, <1>5, <1>6 DEF FlightInv

(***************************************************************************)
(* The workers.                                                            *)
(***************************************************************************)
(* A push by a worker that has not ended. *)
LEMMA PushEnds ==
  ASSUME TypeOK, EndsAreLast, NEW u \in Updates, Push(u), batch' = batch,
         BackendUpdate(u) => backend.at # "off", ToolUpdate(u) => worker.at # "off",
         u.k = "backend_ended" => backend'.at = "off",
         u.k = "tool_ended" => worker'.at = "off",
         backend.at = "off" => backend'.at = "off", worker.at = "off" => worker'.at = "off"
  PROVE  EndsAreLast'
<1>1. queue \in Seq(Updates) /\ queue' = Append(queue, u)
  BY DEF TypeOK, Push
<1> DEFINE n == Len(queue)
<1>2. /\ n \in Nat /\ DOMAIN queue = 1..n /\ DOMAIN queue' = 1..(n + 1)
      /\ queue'[n + 1] = u /\ \A i \in 1..n : queue'[i] = queue[i]
  BY <1>1
<1>3. Range(queue') = Range(queue) \cup {u}
  BY <1>1, AppendRange
<1> HIDE DEF n
<1>4. ASSUME NEW i \in DOMAIN batch
      PROVE  EndIsLast(batch, i)'
  BY DEF EndsAreLast, EndIsLast, BackendUpdate, ToolUpdate
<1>5. ASSUME NEW i \in 1..n
      PROVE  EndIsLast(queue, i)'
  <2>1. EndIsLast(queue, i) /\ queue'[i] = queue[i]
    BY <1>2 DEF EndsAreLast
  <2>2. \A j \in DOMAIN queue' : j \in DOMAIN queue \/ queue'[j] = u
    BY <1>2
  <2> QED
    BY <1>2, <2>1, <2>2 DEF EndIsLast, BackendUpdate, ToolUpdate
<1>6. ASSUME NEW i, i = n + 1
      PROVE  EndIsLast(queue, i)'
  <2>1. queue'[i] = u /\ \A j \in DOMAIN queue' : ~(i < j)
    BY <1>2, <1>6
  <2> QED
    BY <2>1 DEF EndIsLast
<1>7. \A i \in DOMAIN queue' : EndIsLast(queue, i)'
  <2>1. \A i \in DOMAIN queue' : i \in 1..n \/ i = n + 1
    BY <1>2
  <2> QED
    BY <1>5, <1>6, <2>1
<1>8. ASSUME NEW v \in Range(batch)
      PROVE  /\ v.k = "backend_ended" => backend.at = "off"
             /\ v.k = "tool_ended" => worker.at = "off"
  BY DEF EndsAreLast, EndIsLast, Range
<1>9. \A v \in Range(batch'), w \in Range(queue') :
        /\ v.k = "backend_ended" => ~BackendUpdate(w)
        /\ v.k = "tool_ended" => ~ToolUpdate(w)
  BY <1>3, <1>8 DEF EndsAreLast
<1> QED
  BY <1>4, <1>7, <1>9 DEF EndsAreLast, BackendUpdate, ToolUpdate

(* What a worker pushes belongs to what is active. *)
LEMMA PushFlightInv ==
  ASSUME TypeOK, FlightInv, NEW u \in Updates, Push(u), EndsAreLast',
         UNCHANGED <<kern, pc, batch, count>>,
         BackendUpdate(u) => backend.at # "off" /\ u.inference = count.inferences,
         ToolUpdate(u) => worker.at # "off" /\ u.call = worker.call,
         backend.at = "off" => backend'.at = "off",
         worker'.call = worker.call,
         worker'.at # "off" \/ deadline' # "off" => worker.at # "off" \/ deadline # "off",
         (\E v \in Range(batch) : v.k = "tool_ended") => deadline' = "off"
  PROVE  FlightInv'
<1>1. InFlight' = InFlight \cup {u}
  BY PushFlight
<1>2. UpdatesBelong'
  BY <1>1 DEF FlightInv, UpdatesBelong, WorkersBelong, BackendUpdate, ToolUpdate
<1>3. WorkersBelong'
  BY DEF FlightInv, WorkersBelong
<1>4. JoinHasRoom'
  BY DEF JoinHasRoom
<1> QED
  BY <1>2, <1>3, <1>4 DEF FlightInv

(* While the end of the tool is in the batch only the deadline worker may push. *)
LEMMA EndedTool ==
  ASSUME KernelInv, FlightInv, NEW v \in Range(batch), v.k = "tool_ended"
  PROVE  backend.at = "off" /\ worker.at = "off"
<1>1. v \in InFlight /\ ToolUpdate(v)
  BY DEF InFlight, ToolUpdate
<1>2. kern.active.tool \in Calls
  BY <1>1 DEF FlightInv, UpdatesBelong
<1>3. ~kern.active.inference
  BY <1>2, KernelAssumption DEF KernelInv, ProtocolInv, Kept, ActiveKept
<1>4. worker.at = "off"
  BY DEF FlightInv, EndsAreLast, EndIsLast, Range
<1> QED
  BY <1>3, <1>4 DEF FlightInv, WorkersBelong

(* The steps of the workers. *)
LEMMA WorkersFlight ==
  ASSUME KernelInv, FlightInv, BackendWorker \/ ToolWorker \/ DeadlineWorker
  PROVE  FlightInv'
<1>0. /\ TypeOK /\ EndsAreLast /\ worker.call \in Calls \cup {None}
      /\ \A c : \A k \in BackendEvents \cup BackendFailures \cup {"backend_ended"} :
           BackendUpdate(Update(k, c)) /\ ~ToolUpdate(Update(k, c))
      /\ \A c : \A k \in ToolEvents \cup {"tool_failure", "tool_ended"} :
           ToolUpdate(Update(k, c)) /\ ~BackendUpdate(Update(k, c))
      /\ \A c : ~ToolUpdate(Update("deadline", c)) /\ ~BackendUpdate(Update("deadline", c))
      /\ \A k, c : /\ Update(k, c).call = c /\ Update(k, c).inference = count.inferences
                   /\ Update(k, c).k = k
  <2>1. TypeOK /\ EndsAreLast
    BY DEF KernelInv, FlightInv
  <2>2. worker.call \in Calls \cup {None}
    BY <2>1 DEF TypeOK
  <2> QED
    BY <2>1, <2>2 DEF Update, BackendUpdate, ToolUpdate, BackendEvents, BackendFailures, ToolEvents
<1>1. ASSUME NEW k \in BackendEvents \cup BackendFailures \cup {"backend_ended"},
             NEW c \in Calls \cup {None}, Push(Update(k, c)), backend.at # "off",
             k = "backend_ended" => backend'.at = "off",
             UNCHANGED <<kern, pc, batch, worker, deadline, count>>
      PROVE  FlightInv'
  <2> DEFINE u == Update(k, c)
  <2>1. u \in Updates /\ BackendUpdate(u) /\ ~ToolUpdate(u) /\ u.inference = count.inferences
        /\ u.k = k
    BY <1>0, UpdateType
  <2> HIDE DEF u
  <2>2. ~\E v \in Range(batch) : v.k = "tool_ended"
    BY <1>1, EndedTool
  <2>3. k # "tool_ended"
    BY DEF BackendEvents, BackendFailures
  <2>4. Push(u) /\ batch' = batch /\ worker' = worker
    BY <1>1 DEF u
  <2>5. EndsAreLast'
    BY <1>0, <1>1, <2>1, <2>3, <2>4, PushEnds
  <2> QED
    BY <1>0, <1>1, <2>1, <2>2, <2>4, <2>5, PushFlightInv
<1>2. ASSUME NEW k \in ToolEvents \cup {"tool_failure", "tool_ended"},
             Push(Update(k, worker.call)), worker.at # "off",
             k = "tool_ended" => worker'.at = "off", worker'.call = worker.call,
             UNCHANGED <<kern, pc, batch, backend, deadline, count>>
      PROVE  FlightInv'
  <2> DEFINE u == Update(k, worker.call)
  <2>1. u \in Updates /\ ToolUpdate(u) /\ ~BackendUpdate(u) /\ u.call = worker.call
        /\ u.k = k
    BY <1>0, UpdateType
  <2> HIDE DEF u
  <2>2. ~\E v \in Range(batch) : v.k = "tool_ended"
    BY <1>2, EndedTool
  <2>3. k # "backend_ended"
    BY DEF ToolEvents
  <2>4. Push(u) /\ batch' = batch /\ backend' = backend
    BY <1>2 DEF u
  <2>5. EndsAreLast'
    BY <1>0, <1>2, <2>1, <2>3, <2>4, PushEnds
  <2> QED
    BY <1>0, <1>2, <2>1, <2>2, <2>4, <2>5, PushFlightInv
<1>3. CASE BackendWorker
  <2>1. "call" \in BackendEvents
    BY DEF BackendEvents
  <2>2. ASSUME NEW k \in BackendEvents, NEW c \in Calls \cup {None}, BackendDelivers(k, c)
        PROVE  FlightInv'
    <3>1. k # "backend_ended"
      BY DEF BackendEvents
    <3>2. backend.at # "off"
      BY <2>2 DEF BackendDelivers
    <3> QED
      BY <1>1, <2>2, <3>1, <3>2 DEF BackendDelivers
  <2>3. ASSUME NEW k \in BackendFailures, BackendFails(k)
        PROVE  FlightInv'
    <3>1. k # "backend_ended"
      BY DEF BackendFailures
    <3>2. backend.at # "off"
      BY <2>3 DEF BackendFails
    <3> QED
      BY <1>1, <2>3, <3>1, <3>2 DEF BackendFails
  <2>4. CASE BackendEnds
    <3>1. backend'.at = "off"
      BY <2>4 DEF BackendEnds, IdleBackend
    <3> QED
      BY <1>1, <2>4, <3>1 DEF BackendEnds
  <2> QED
    BY <1>3, <2>1, <2>2, <2>3, <2>4 DEF BackendWorker
<1>4. CASE ToolWorker
  <2>0. worker \in [at: {"off", "run", "ending"}, sent: Nat, call: Calls \cup {None}]
    BY <1>0 DEF TypeOK
  <2>1. ASSUME NEW k \in ToolEvents, ToolDelivers(k)
        PROVE  FlightInv'
    <3>1. k # "tool_ended"
      BY DEF ToolEvents
    <3>2. worker'.call = worker.call /\ worker.at # "off"
      BY <2>0, <2>1 DEF ToolDelivers
    <3> QED
      BY <1>2, <2>1, <3>1, <3>2 DEF ToolDelivers
  <2>2. CASE ToolFails
    <3>1. worker'.call = worker.call /\ worker.at # "off"
      BY <2>0, <2>2 DEF ToolFails
    <3> QED
      BY <1>2, <2>2, <3>1 DEF ToolFails
  <2>3. CASE ToolEnds
    <3>1. worker'.call = worker.call /\ worker.at # "off" /\ worker'.at = "off"
      BY <2>0, <2>3 DEF ToolEnds
    <3> QED
      BY <1>2, <2>3, <3>1 DEF ToolEnds
  <2> QED
    BY <1>4, <2>1, <2>2, <2>3 DEF ToolWorker
<1>5. CASE DeadlinePasses
  <2>1. InFlight' = InFlight /\ UNCHANGED <<kern, pc, queue, batch, backend, worker, count>>
        /\ deadline # "off"
    BY <1>5 DEF DeadlinePasses, InFlight
  <2>2. UpdatesBelong'
    BY <2>1 DEF FlightInv, UpdatesBelong, BackendUpdate, ToolUpdate
  <2>3. WorkersBelong' /\ JoinHasRoom'
    BY <2>1 DEF FlightInv, WorkersBelong, JoinHasRoom
  <2>4. EndsAreLast'
    BY <2>1 DEF FlightInv, EndsAreLast, EndIsLast, BackendUpdate, ToolUpdate
  <2> QED
    BY <2>2, <2>3, <2>4 DEF FlightInv
<1>6. CASE DeadlinePushes
  <2> DEFINE u == Update("deadline", worker.call)
  <2>1. /\ Push(u) /\ UNCHANGED <<kern, pc, batch, backend, worker, count>>
        /\ deadline' = "off" /\ u \in Updates
    BY <1>0, <1>6, UpdateType DEF DeadlinePushes
  <2>2. ~BackendUpdate(u) /\ ~ToolUpdate(u) /\ u.k = "deadline"
    BY <1>0
  <2> HIDE DEF u
  <2>3. EndsAreLast'
    BY <1>0, <2>1, <2>2, PushEnds
  <2> QED
    BY <1>0, <2>1, <2>2, <2>3, PushFlightInv
<1> QED
  BY <1>3, <1>4, <1>5, <1>6 DEF DeadlineWorker

(***************************************************************************)
(* The owner.                                                              *)
(***************************************************************************)
(* Failing the run and closing calls leave the inference and the tool. *)
LEMMA OperatorsSameActive ==
  ASSUME NEW t \in Transactions
  PROVE  /\ SameActive(t, FailLiveRun(t))
         /\ \A C : SameActive(t, RecordToolError(t, C))
         /\ \A c, d : SameActive(t, RecordToolResult(t, c, d))
         /\ \A c, d : SameActive(t, RecordToolError([t EXCEPT !.log[c].spend = d], {c}))
<1>1. SameActive(t, FailLiveRun(t))
  <2>1. FailLiveRun(t).active
          = [t.active EXCEPT !.backendDone = TRUE, !.ackExpected = TRUE, !.over = TRUE]
    BY DEF FailLiveRun, Transactions
  <2> QED
    BY <2>1 DEF SameActive, Transactions, ActiveRuns
<1>2. /\ \A C : RecordToolError(t, C).active = t.active
      /\ \A c, d : RecordToolResult(t, c, d).active = t.active
      /\ \A c, d : RecordToolError([t EXCEPT !.log[c].spend = d], {c}).active = t.active
  BY DEF RecordToolError, RecordToolResult, Transactions
<1> QED
  BY <1>1, <1>2 DEF SameActive

(* So does every update that is not the end of a stream. *)
LEMMA UpdatesSameActive ==
  ASSUME TypeOK,
         \/ ProcessBackendEvent \/ ProcessToolCallFinish \/ ProcessBackendStop
         \/ ProcessToolUpdate \/ ProcessToolResult \/ ProcessToolFailure \/ ProcessDeadline
  PROVE  SameActive(kern, kern')
<1>0. kern \in Transactions /\ SameActive(kern, kern)
  BY DEF TypeOK, SameActive
<1> DEFINE c == Update1.call
           e == RecordToolError(kern, {c})
<1>1. SameActive(kern, FailOrDrop(kern)) /\ SameActive(kern, FailOrDrop(e))
  <2>1. e \in Transactions /\ SameActive(kern, e)
    BY <1>0, ToolErrorType, OperatorsSameActive
  <2> HIDE DEF e
  <2>2. SameActive(e, FailLiveRun(e)) /\ SameActive(kern, FailLiveRun(kern))
    BY <1>0, <2>1, OperatorsSameActive
  <2> QED
    BY <1>0, <2>1, <2>2 DEF FailOrDrop, SameActive
<1>2. SameActive(kern, e)
  BY <1>0, OperatorsSameActive
<1> HIDE DEF e
<1>3. \A o : SameActive(kern, RunStops(o))
  <2>1. \A o : RunStops(o).active = [kern.active EXCEPT !.backendDone = TRUE, !.over = TRUE]
    BY <1>0 DEF RunStops, Transactions
  <2> QED
    BY <1>0, <2>1 DEF SameActive, Transactions, ActiveRuns
<1>4. CASE ProcessBackendEvent
  <2>1. \/ kern' \in {kern, FailOrDrop(kern), RunStops("completed")}
        \/ kern' = [kern EXCEPT !.active.response = TRUE]
        \/ kern' = [kern EXCEPT !.active.calls = Append(@, Update1.call)]
    BY <1>4 DEF ProcessBackendEvent
  <2>2. CASE kern' = [kern EXCEPT !.active.response = TRUE]
    BY <1>0, <2>2 DEF SameActive, Transactions, ActiveRuns
  <2>3. CASE kern' = [kern EXCEPT !.active.calls = Append(@, Update1.call)]
    BY <1>0, <2>3 DEF SameActive, Transactions, ActiveRuns
  <2> QED
    BY <1>0, <1>1, <1>3, <2>1, <2>2, <2>3
<1>5. CASE ProcessToolCallFinish
  <2> DEFINE u == Proposed(Range(kern.active.calls))
  <2>1. u \in Transactions /\ u.active = [kern.active EXCEPT !.backendDone = TRUE]
    BY <1>0, ProposedType DEF Proposed, Transactions
  <2>2. kern' \in {kern, FailOrDrop(kern)} \/ \E bad : kern' = RecordToolError(u, bad)
    BY <1>5 DEF ProcessToolCallFinish
  <2> HIDE DEF u
  <2>3. SameActive(kern, u)
    BY <1>0, <2>1 DEF SameActive, Transactions, ActiveRuns
  <2>4. \A bad : SameActive(u, RecordToolError(u, bad))
    BY <2>1, OperatorsSameActive
  <2> QED
    BY <1>0, <1>1, <2>2, <2>3, <2>4 DEF SameActive
<1>6. CASE ProcessBackendStop
  <2>1. \/ kern' \in {kern, FailOrDrop(kern), RunStops("cancelled")}
        \/ kern' = [kern EXCEPT !.active.ackExpected = FALSE]
    BY <1>6 DEF ProcessBackendStop, Acknowledged
  <2>2. CASE kern' = [kern EXCEPT !.active.ackExpected = FALSE]
    BY <1>0, <2>2 DEF SameActive, Transactions, ActiveRuns
  <2> QED
    BY <1>0, <1>1, <1>3, <2>1, <2>2
<1>7. CASE ProcessToolUpdate
  <2>1. \/ kern' \in {kern, e, FailOrDrop(kern), FailOrDrop(e)}
        \/ kern' = [kern EXCEPT !.proj = RunAwaitingInput(kern.proj), !.question = c,
                                !.state[c] = "awaiting_input"]
    BY <1>7 DEF ProcessToolUpdate, e
  <2>2. CASE kern' = [kern EXCEPT !.proj = RunAwaitingInput(kern.proj), !.question = c,
                                  !.state[c] = "awaiting_input"]
    BY <1>0, <2>2 DEF SameActive, Transactions
  <2> QED
    BY <1>0, <1>1, <1>2, <2>1, <2>2
<1>8. CASE ProcessToolResult
  BY <1>0, <1>1, <1>8, OperatorsSameActive DEF ProcessToolResult
<1>9. CASE ProcessToolFailure
  <2>1. \/ kern' \in {kern, FailOrDrop(e)}
        \/ \E d : kern' = RecordToolError([kern EXCEPT !.log[c].spend = d], {c})
    BY <1>9 DEF ProcessToolFailure, e
  <2> QED
    BY <1>0, <1>1, <2>1, OperatorsSameActive
<1>10. CASE ProcessDeadline
  BY <1>0, <1>2, <1>10 DEF ProcessDeadline, e
<1> QED
  BY <1>4, <1>5, <1>6, <1>7, <1>8, <1>9, <1>10

(* After the end of a stream nothing of the inference or the tool is in flight. *)
LEMMA EndedQuiescent ==
  ASSUME KernelInv, FlightInv, ProcessBackendEnded \/ ProcessToolEnded
  PROVE  Quiescent'
<1>0. TypeOK /\ None \notin Calls
  BY KernelAssumption DEF KernelInv
<1>1. /\ batch # <<>> /\ batch' = Tail(batch) /\ queue' = queue
      /\ backend' = backend /\ worker' = worker
      /\ Update1.k = IF ProcessBackendEnded THEN "backend_ended" ELSE "tool_ended"
  BY DEF ProcessBackendEnded, ProcessToolEnded, Processing
<1>2. /\ batch \in Seq(Updates) /\ Len(batch) \in Nat \ {0} /\ 1 \in DOMAIN batch
      /\ DOMAIN batch = 1..Len(batch) /\ Update1 = batch[1] /\ EndIsLast(batch, 1)
  <2>1. batch \in Seq(Updates) /\ Len(batch) \in Nat \ {0} /\ DOMAIN batch = 1..Len(batch)
        /\ Head(batch) = batch[1]
    BY <1>0, <1>1 DEF TypeOK
  <2>2. 1 \in DOMAIN batch
    BY <2>1
  <2> QED
    BY <2>1, <2>2 DEF Update1, FlightInv, EndsAreLast
<1>3. \A u \in Range(Tail(batch)) : \E j \in DOMAIN batch : 1 < j /\ u = batch[j]
  <2>1. \A i \in DOMAIN Tail(batch) : /\ i + 1 \in DOMAIN batch /\ 1 < i + 1
                                      /\ Tail(batch)[i] = batch[i + 1]
    BY <1>1, <1>2
  <2> QED
    BY <2>1 DEF Range
<1>4. Update1 \in Range(batch) /\ Update1 \in InFlight
  BY <1>2 DEF Range, InFlight
<1>5. Range(Tail(batch)) \subseteq InFlight /\ Range(queue) \subseteq InFlight
  BY <1>3 DEF Range, InFlight
<1>6. InFlight' = Range(Tail(batch)) \cup Range(queue)
  BY <1>1 DEF InFlight
<1>7. kern.active.inference => kern.active.tool = None
  BY DEF KernelInv, ProtocolInv, Kept, ActiveKept
<1>8. CASE ProcessBackendEnded
  <2>1. Update1.k = "backend_ended" /\ BackendUpdate(Update1)
    BY <1>1, <1>8 DEF BackendUpdate
  <2>2. kern.active.inference /\ kern.active.tool = None
    BY <1>4, <1>7, <2>1 DEF FlightInv, UpdatesBelong
  <2>3. backend.at = "off" /\ \A j \in DOMAIN batch : 1 < j => ~BackendUpdate(batch[j])
    BY <1>2, <2>1 DEF EndIsLast
  <2>4. \A u \in Range(Tail(batch)) \cup Range(queue) : ~BackendUpdate(u)
    BY <1>3, <1>4, <2>1, <2>3 DEF FlightInv, EndsAreLast
  <2>5. \A u \in InFlight : ~ToolUpdate(u)
    BY <1>0, <2>2 DEF FlightInv, UpdatesBelong
  <2>6. worker.at = "off" /\ deadline = "off"
    BY <1>0, <2>2 DEF FlightInv, WorkersBelong
  <2>7. deadline' = deadline
    BY <1>8 DEF ProcessBackendEnded
  <2> QED
    BY <1>1, <1>5, <1>6, <2>3, <2>4, <2>5, <2>6, <2>7 DEF Quiescent, BackendUpdate, ToolUpdate
<1>9. CASE ~ProcessBackendEnded
  <2>1. Update1.k = "tool_ended" /\ ToolUpdate(Update1) /\ ProcessToolEnded
    BY <1>1, <1>9 DEF ToolUpdate
  <2>2. kern.active.live /\ kern.active.tool = Update1.call /\ kern.active.tool \in Calls
    BY <1>4, <2>1 DEF FlightInv, UpdatesBelong
  <2>3. ~kern.active.inference
    BY <1>0, <1>7, <2>2
  <2>4. worker.at = "off" /\ \A j \in DOMAIN batch : 1 < j => ~ToolUpdate(batch[j])
    BY <1>2, <2>1 DEF EndIsLast
  <2>5. \A u \in Range(Tail(batch)) \cup Range(queue) : ~ToolUpdate(u)
    BY <1>3, <1>4, <2>1, <2>4 DEF FlightInv, EndsAreLast
  <2>6. \A u \in InFlight : ~BackendUpdate(u)
    BY <2>3 DEF FlightInv, UpdatesBelong
  <2>7. backend.at = "off"
    BY <2>3 DEF FlightInv, WorkersBelong
  <2>8. deadline' = "off"
    BY <2>1, <2>2 DEF ProcessToolEnded, ForActiveTool
  <2> QED
    BY <1>1, <1>5, <1>6, <2>4, <2>5, <2>6, <2>7, <2>8 DEF Quiescent, BackendUpdate, ToolUpdate
<1> QED
  BY <1>8, <1>9

(* A step from a quiescent state in which no worker appears. *)
LEMMA QuiescentStays ==
  ASSUME Quiescent, UNCHANGED <<queue, batch, backend, worker, deadline>>
  PROVE  Quiescent'
<1>1. InFlight' = InFlight
  BY DEF InFlight
<1> QED
  BY <1>1 DEF Quiescent, BackendUpdate, ToolUpdate

(* The owner's steps on its own account. *)
LEMMA DrainFlight ==
  ASSUME KernelInv, FlightInv, Drain
  PROVE  FlightInv'
<1>0. /\ TypeOK /\ kern \in Transactions /\ SameActive(kern, kern) /\ OwnerKept
      /\ pc = "ready" => pc \notin {"spawn", "backend"}
  BY DEF KernelInv, TypeOK, SameActive, ProtocolInv
<1>1. Quiescent' => FlightInv'
  BY QuiescentFlight, PTL
<1>2. CASE \E m \in DrainModes : DrainSwap(m)
  BY <1>0, <1>2, SwapFlight
<1>3. CASE DrainLaunch
  <2>1. kern' = [kern EXCEPT !.active.recovered = FALSE] /\ pc' = "launch"
        /\ UNCHANGED <<queue, batch, backend, worker, deadline, count>>
    BY <1>3 DEF DrainLaunch
  <2>2. SameActive(kern, kern')
    BY <1>0, <2>1 DEF SameActive, Transactions, ActiveRuns
  <2> QED
    BY <2>1, <2>2, StillFlight
<1>4. CASE ProcessUpdate
  <2>1. CASE ProcessBackendEnded \/ ProcessToolEnded
    BY <1>1, <2>1, EndedQuiescent
  <2>2. CASE \/ ProcessBackendEvent \/ ProcessToolCallFinish \/ ProcessBackendStop
             \/ ProcessToolUpdate \/ ProcessToolResult \/ ProcessToolFailure \/ ProcessDeadline
    <3>1. SameActive(kern, kern')
      BY <1>0, <2>2, UpdatesSameActive
    <3>2. (\E K : Processing(K)) /\ pc' = pc /\ deadline' = deadline
      BY <2>2 DEF ProcessBackendEvent, ProcessToolCallFinish, ProcessBackendStop,
           ProcessToolUpdate, ProcessToolResult, ProcessToolFailure, ProcessDeadline
    <3> QED
      BY <1>0, <3>1, <3>2, ProcessedFlight
  <2> QED
    BY <1>4, <2>1, <2>2 DEF ProcessUpdate
<1>5. CASE LaunchNextTool
  <2>1. UNCHANGED <<queue, batch, backend, worker, deadline, count>>
    BY <1>5 DEF LaunchNextTool
  <2>2. CASE kern' = kern /\ pc' = "ready"
    BY <1>0, <2>1, <2>2, StillFlight
  <2>3. CASE ReadyTool(kern) # None
    <3>1. ~kern.active.inference /\ kern.active.tool = None
      BY <1>0, <2>3, ReadyToolIsFirst, ReadyToolIsAllowed
    <3>2. Quiescent
      BY <3>1, OwnerQuiescent
    <3> QED
      BY <1>1, <2>1, <3>2, QuiescentStays
  <2> QED
    BY <1>5, <2>2, <2>3, KernelAssumption DEF LaunchNextTool
<1>6. CASE SpawnTool
  <2>1. /\ Quiescent /\ pc = "spawn" /\ pc' = "ready"
        /\ UNCHANGED <<kern, queue, batch, backend, count>>
        /\ worker' = [at |-> "run", sent |-> 0, call |-> kern.active.tool]
    BY <1>6, OwnerQuiescent DEF SpawnTool
  <2>2. InFlight' = InFlight /\ worker'.call = kern.active.tool /\ backend'.at = "off"
    BY <2>1 DEF InFlight, Quiescent
  <2>3. kern.active.live /\ kern.active.tool \in Calls
    BY <1>0, <2>1 DEF OwnerKept
  <2>4. /\ \A i \in DOMAIN batch : batch[i] \in InFlight
        /\ \A i \in DOMAIN queue : queue[i] \in InFlight
        /\ Range(batch) \subseteq InFlight /\ Range(queue) \subseteq InFlight
    BY DEF InFlight, Range
  <2>5. \A u \in InFlight : /\ ~BackendUpdate(u) /\ ~ToolUpdate(u)
                            /\ u.k # "backend_ended" /\ u.k # "tool_ended"
    BY <2>1 DEF Quiescent, BackendUpdate, ToolUpdate
  <2>6. UpdatesBelong'
    BY <2>2, <2>5 DEF UpdatesBelong, BackendUpdate, ToolUpdate
  <2>7. WorkersBelong'
    BY <2>1, <2>2, <2>3 DEF WorkersBelong
  <2>8. EndsAreLast'
    BY <2>1, <2>4, <2>5 DEF EndsAreLast, EndIsLast
  <2>9. JoinHasRoom'
    BY <2>1, <2>4, <2>5 DEF JoinHasRoom
  <2> QED
    BY <2>6, <2>7, <2>8, <2>9 DEF FlightInv
<1>7. CASE SpawnToolFails \/ SpawnBackendFails
  <2>1. Quiescent
    BY <1>7, OwnerQuiescent DEF SpawnToolFails, SpawnBackendFails
  <2>2. UNCHANGED <<queue, batch, backend, worker, deadline>>
    BY <1>7 DEF SpawnToolFails, SpawnBackendFails
  <2> QED
    BY <1>1, <2>1, <2>2, QuiescentStays
<1>8. CASE SpawnBackend
  <2>1. /\ Quiescent /\ pc = "backend" /\ pc' = "ready"
        /\ UNCHANGED <<kern, queue, batch, worker, deadline, count>>
    BY <1>8, OwnerQuiescent DEF SpawnBackend
  <2>2. InFlight' = InFlight /\ worker'.at = "off" /\ deadline' = "off"
    BY <2>1 DEF InFlight, Quiescent
  <2>3. kern.active.live /\ kern.active.inference
    BY <1>0, <2>1 DEF OwnerKept
  <2>4. /\ \A i \in DOMAIN batch : batch[i] \in InFlight
        /\ \A i \in DOMAIN queue : queue[i] \in InFlight
        /\ Range(batch) \subseteq InFlight /\ Range(queue) \subseteq InFlight
    BY DEF InFlight, Range
  <2>5. \A u \in InFlight : /\ ~BackendUpdate(u) /\ ~ToolUpdate(u)
                            /\ u.k # "backend_ended" /\ u.k # "tool_ended"
    BY <2>1 DEF Quiescent, BackendUpdate, ToolUpdate
  <2>6. UpdatesBelong'
    BY <2>2, <2>5 DEF UpdatesBelong, BackendUpdate, ToolUpdate
  <2>7. WorkersBelong'
    BY <2>1, <2>2, <2>3 DEF WorkersBelong
  <2>8. EndsAreLast'
    BY <2>1, <2>4, <2>5 DEF EndsAreLast, EndIsLast
  <2>9. JoinHasRoom'
    BY <2>1, <2>2, <2>4, <2>5 DEF JoinHasRoom
  <2> QED
    BY <2>6, <2>7, <2>8, <2>9 DEF FlightInv
<1> QED
  BY <1>2, <1>3, <1>4, <1>5, <1>6, <1>7, <1>8 DEF Drain

(* The calls of the surface. *)
LEMMA SurfaceFlight ==
  ASSUME KernelInv, FlightInv, Surface
  PROVE  FlightInv'
<1>0. TypeOK /\ kern \in Transactions /\ SameActive(kern, kern)
  BY DEF KernelInv, TypeOK, SameActive
<1>1. Quiescent' => FlightInv'
  BY QuiescentFlight, PTL
<1>2. CASE Start \/ ContinueRun
  <2>1. Quiescent
    BY <1>2, OwnerQuiescent DEF Start, ContinueRun, Continuable
  <2>2. UNCHANGED <<queue, batch, backend, worker, deadline>>
    BY <1>2 DEF Start, ContinueRun
  <2> QED
    BY <1>1, <2>1, <2>2, QuiescentStays
<1>3. CASE CancelRun
  <2> DEFINE requested == [kern EXCEPT !.active.cancelRequested = TRUE]
             open == {kern.order[i] : i \in Open(kern)}
             e == RecordToolError(requested, open)
             ended == [e EXCEPT !.proj = RunEnded(kern.proj, "cancelled"),
                                !.active = [requested.active EXCEPT !.over = TRUE]]
  <2>1. /\ kern' = IF kern.active.inference THEN requested
                   ELSE IF kern.active.tool = None THEN ResetActive(ended) ELSE ended
        /\ UNCHANGED <<pc, queue, batch, backend, worker, deadline, count>> /\ pc = "ready"
    BY <1>3 DEF CancelRun, OwnerIdle
  <2>2. CASE ~kern.active.inference /\ kern.active.tool = None
    BY <1>1, <2>1, <2>2, OwnerQuiescent, QuiescentStays
  <2>3. CASE kern.active.inference \/ kern.active.tool # None
    <3>1. /\ requested \in Transactions
          /\ requested.active = [kern.active EXCEPT !.cancelRequested = TRUE]
      BY <1>0 DEF Transactions, ActiveRuns
    <3>2. requested.active \in ActiveRuns /\ SameActive(kern, requested)
      BY <1>0, <3>1 DEF SameActive, Transactions, ActiveRuns
    <3> HIDE DEF requested, open
    <3>3. e \in Transactions
      BY <3>1, ToolErrorType
    <3> HIDE DEF e
    <3>4. ended.active = [requested.active EXCEPT !.over = TRUE]
      BY <3>3 DEF Transactions
    <3> HIDE DEF ended
    <3>5. SameActive(kern, ended)
      BY <3>2, <3>4 DEF SameActive, ActiveRuns
    <3>6. SameActive(kern, kern')
      BY <2>1, <2>3, <3>2, <3>5
    <3> QED
      BY <2>1, <3>6, StillFlight
  <2> QED
    BY <2>2, <2>3
<1>4. ASSUME NEW c \in Calls, ResolveQuestions(c)
      PROVE  FlightInv'
  <2>1. kern'.active = kern.active
    BY <1>0, <1>4 DEF ResolveQuestions, Transactions
  <2>2. UNCHANGED <<queue, batch, backend, worker, deadline, count>> /\ pc' = "launch"
    BY <1>4 DEF ResolveQuestions
  <2> QED
    BY <2>1, <2>2, StillFlight DEF SameActive
<1>5. ASSUME NEW c \in Calls, NEW b \in BOOLEAN, DecideApproval(c, b)
      PROVE  FlightInv'
  <2>1. kern'.active = kern.active
    BY <1>0, <1>5 DEF DecideApproval, RecordToolError, Transactions
  <2>2. UNCHANGED <<queue, batch, backend, worker, deadline, count>> /\ pc' = "launch"
    BY <1>5 DEF DecideApproval
  <2> QED
    BY <2>1, <2>2, StillFlight DEF SameActive
<1> QED
  BY <1>2, <1>3, <1>4, <1>5 DEF Surface

(* Every step. *)
LEMMA FlightStep == KernelInv /\ FlightInv /\ [Next]_vars => FlightInv'
<1> SUFFICES ASSUME KernelInv, FlightInv, [Next]_vars
             PROVE  FlightInv'
  OBVIOUS
<1>1. Quiescent' => FlightInv'
  BY QuiescentFlight, PTL
<1>2. CASE BackendWorker \/ ToolWorker \/ DeadlineWorker
  BY <1>2, WorkersFlight
<1>3. CASE Drain
  BY <1>3, DrainFlight
<1>4. CASE Surface
  BY <1>4, SurfaceFlight
<1>5. ASSUME NEW how, KernelStops(how)
      PROVE  FlightInv'
  <2>1. InFlight' = {}
    BY <1>5, EmptyRange DEF KernelStops, InFlight
  <2>2. Quiescent'
    BY <1>5, <2>1 DEF KernelStops, Quiescent, IdleBackend, IdleWorker
  <2> QED
    BY <1>1, <2>2
<1>6. CASE Reopen
  <2>1. ~kern.active.live
    BY <1>6 DEF Reopen, KernelInv, ProtocolInv, OwnerKept
  <2>2. Quiescent
    BY <2>1, OwnerQuiescent
  <2>3. UNCHANGED <<queue, batch, backend, worker, deadline>>
    BY <1>6 DEF Reopen
  <2> QED
    BY <1>1, <2>2, <2>3, QuiescentStays
<1>7. CASE UNCHANGED vars
  <2>1. InFlight' = InFlight /\ UNCHANGED <<kern, pc, queue, batch, backend, worker, deadline, count>>
    BY <1>7 DEF vars, InFlight
  <2>2. UpdatesBelong' /\ WorkersBelong' /\ JoinHasRoom'
    BY <2>1 DEF FlightInv, UpdatesBelong, WorkersBelong, JoinHasRoom, BackendUpdate, ToolUpdate
  <2>3. EndsAreLast'
    BY <2>1 DEF FlightInv, EndsAreLast, EndIsLast, BackendUpdate, ToolUpdate
  <2> QED
    BY <2>2, <2>3 DEF FlightInv
<1> QED
  BY <1>2, <1>3, <1>4, <1>5, <1>6, <1>7 DEF Next

(* FlightInv is an invariant of the kernel. *)
LEMMA FlightInvariant == Spec => [](KernelInv /\ FlightInv)
<1>1. Init => FlightInv
  <2>1. Init => Quiescent
    BY EmptyRange DEF Init, Quiescent, InFlight, IdleBackend, IdleWorker
  <2> QED
    BY <2>1, QuiescentFlight
<1> QED
  BY <1>1, FlightStep, KernelInvariant, PTL DEF Spec

(* Nothing a worker said in an earlier run, inference or tool call is applied to a
   later one: process_backend_end and process_tool_end are the last updates of
   their workers, and no other worker is created before they are processed. *)
THEOREM UpdatesStayWithTheirWork == Spec => []NoCrossTalk
<1>1. KernelInv /\ FlightInv => NoCrossTalk
  <2> SUFFICES ASSUME KernelInv, FlightInv
               PROVE  NoCrossTalk
    OBVIOUS
  <2>1. queue \in Seq(Updates) /\ batch \in Seq(Updates)
    BY DEF KernelInv, TypeOK
  <2>2. Range(queue) \subseteq Updates /\ Range(batch) \subseteq Updates
    BY <2>1 DEF Range
  <2>3. ASSUME NEW u \in Range(queue) \cup Range(batch)
        PROVE  IF BackendUpdate(u)
               THEN kern.active.live /\ kern.active.inference /\ u.inference = count.inferences
               ELSE u.k # "deadline" => kern.active.live /\ kern.active.tool = u.call
    <3>1. u \in InFlight /\ u \in Updates
      BY <2>2 DEF InFlight
    <3>2. BackendUpdate(u) \/ ToolUpdate(u) \/ u.k = "deadline"
      BY <3>1 DEF Updates, BackendUpdate, ToolUpdate
    <3> QED
      BY <3>1, <3>2 DEF FlightInv, UpdatesBelong
  <2> QED
    BY <2>3 DEF NoCrossTalk, FlightInv, WorkersBelong
<1> QED
  BY <1>1, FlightInvariant, PTL

(* process_tool_end can always join the deadline worker: when that worker is in its
   push, the queue has room, although only the joining thread could empty it. *)
THEOREM JoinNeverBlocks == Spec => []JoinCompletes
<1>1. KernelInv /\ FlightInv => JoinCompletes
  <2> SUFFICES ASSUME KernelInv, FlightInv, batch # <<>>, Update1.k = "tool_ended",
                      deadline = "firing"
               PROVE  Len(queue) < QueueCap
    BY DEF JoinCompletes
  <2>1. batch \in Seq(Updates)
    BY DEF KernelInv, TypeOK
  <2>2. Update1 \in Range(batch)
    BY <2>1, TailRange DEF Update1
  <2>3. queue = <<>>
    BY <2>2 DEF FlightInv, JoinHasRoom
  <2> QED
    BY <2>3, KernelAssumption
<1> QED
  BY <1>1, FlightInvariant, PTL

(***************************************************************************)
(* The lifecycle of a call.                                                *)
(***************************************************************************)
(* Phase, of a transaction. *)
Waits(t, c) == t.question = c /\ t.proj.status = "awaiting_input"
PhaseOf(t, c) ==
  LET f == t.log[c] IN
  IF f.done # "no" THEN "closed"
  ELSE IF f.started
       THEN IF Waits(t, c) THEN "waiting"
            ELSE IF t.state[c] = "running" THEN "running" ELSE "abandoned"
  ELSE IF f.policy = "allow" \/ f.approval = "approved" THEN "authorised"
  ELSE IF f.proposed THEN "proposed" ELSE "idle"

(* What the log says of the last question and of reserved spend: a question is one
   of a started ask_user; a run waits for input exactly while the question of
   its batch has no answer; and a reservation is of a paid call that was started and
   has no outcome. *)
QuestionHeld(t) ==
  /\ t.question \in Calls => t.question \in AskUser /\ t.log[t.question].started
  /\ t.proj.status = "awaiting_input" => t.question \in Range(t.order)
  /\ RequireRunning(t.proj) /\ t.question \in Range(t.order)
       /\ t.log[t.question].done = "no" => t.proj.status = "awaiting_input"
ReservedHeld(t) ==
  \A c \in Calls : t.log[c].spend = "reserved" =>
    /\ c \in Paid /\ t.log[c].started /\ t.log[c].done = "no"
    /\ RequireRunning(t.proj) => c \in Range(t.order)
LogHeld(t) == QuestionHeld(t) /\ ReservedHeld(t)

(* What a kernel that is up adds. *)
AskingAgrees(t) ==
  \A c \in Calls :
    /\ t.state[c] = "running" => t.question # c
    /\ t.state[c] = "awaiting_input" =>
         Waits(t, c) /\ t.active.tool \in {c, None}
Reserves(t) ==
  \A c \in Calls : t.log[c].spend = "reserved" =>
    t.active.live /\ ~t.active.over /\ t.active.tool = c
RunHeld(t) ==
  /\ t.active.live /\ ~t.active.over =>
       /\ AskingAgrees(t)
       /\ t.active.inference => t.proj.status = "running"
  /\ t.active.live /\ t.active.over => \A c \in Calls : t.state[c] # "running"
  /\ ~t.active.live => t.proj.status # "awaiting_input"
  /\ Reserves(t)
Held(t) == LogHeld(t) /\ RunHeld(t)

(* ask_user publishes its questions once. *)
Ask(u) == u.k \in ToolEvents /\ u.call \in AskUser
AsksOnce(q) == \A i, j \in DOMAIN q : Ask(q[i]) /\ Ask(q[j]) => i = j
AskedOnce ==
  /\ \A u \in InFlight : Ask(u) =>
       u.k = "input" /\ kern.state[u.call] # "awaiting_input" /\ worker.sent # 0
  /\ AsksOnce(batch) /\ AsksOnce(queue)
  /\ \A u \in Range(batch), v \in Range(queue) : ~(Ask(u) /\ Ask(v))
  /\ worker.at = "run" /\ worker.call \in AskUser /\ worker.sent = 0 =>
       kern.state[worker.call] # "awaiting_input"

LifeInv == /\ LogHeld(kern)
           /\ up = "up" => RunHeld(kern)
           /\ AskedOnce

(***************************************************************************)
(* The steps of ToolLifecycle, between transactions.                       *)
(***************************************************************************)
SamePhases(t, u) == \A c \in Calls : PhaseOf(u, c) = PhaseOf(t, c)
Moved(t, u, C, from, to) ==
  /\ \A c \in C : PhaseOf(t, c) \in from
  /\ \A c \in Calls : PhaseOf(u, c) = IF c \in C THEN to ELSE PhaseOf(t, c)
OpenPhases == {"proposed", "authorised", "running", "waiting", "abandoned"}
Proposes(t, u, C, invalid) ==
  /\ \A c \in C : PhaseOf(t, c) = "idle"
  /\ \A c \in Calls : PhaseOf(u, c) = IF c \in invalid THEN "closed"
                                      ELSE IF c \in C THEN "proposed" ELSE PhaseOf(t, c)
Decides(t, u, allowed, denied) ==
  /\ allowed \cap denied = {}
  /\ \A c \in allowed \cup denied : PhaseOf(t, c) = "proposed"
  /\ \A c \in Calls : PhaseOf(u, c) = IF c \in allowed THEN "authorised"
                                      ELSE IF c \in denied THEN "closed" ELSE PhaseOf(t, c)
Runs(t, u, c) ==
  /\ \A d \in Calls : PhaseOf(t, d) \notin {"running", "waiting"}
  /\ Moved(t, u, {c}, {"authorised"}, "running")
LifeStep(t, u) ==
  \/ SamePhases(t, u)
  \/ \E C \in SUBSET Calls :
       \/ \E X \in SUBSET C : Proposes(t, u, C, X)
       \/ Moved(t, u, C, OpenPhases, "closed")
       \/ Moved(t, u, C, {"authorised"}, "proposed")
  \/ \E A, D \in SUBSET Calls : Decides(t, u, A, D)
  \/ \E c \in Calls : \/ Runs(t, u, c)
                      \/ Moved(t, u, {c}, {"running"}, "waiting")
                      \/ Moved(t, u, {c}, {"running"}, "abandoned")

(* They are the steps of the instance. *)
LEMMA LifeStepIsStep ==
  ASSUME LifeStep(kern, kern')
  PROVE  [Lifecycle!Next]_[c \in Calls |-> Phase(c)]
<1> DEFINE p == [c \in Calls |-> PhaseOf(kern, c)]
           q == [c \in Calls |-> PhaseOf(kern', c)]
<1>1. [c \in Calls |-> Phase(c)] = p /\ [c \in Calls |-> Phase(c)]' = q
  BY DEF Phase, PhaseOf, Waits
<1>2. /\ \A c \in Calls : p[c] = PhaseOf(kern, c) /\ q[c] = PhaseOf(kern', c)
      /\ \A f : q = [c \in Calls |-> f[c]] <=> \A c \in Calls : q[c] = f[c]
      /\ p = [c \in Calls |-> p[c]]
  OBVIOUS
<1> HIDE DEF p, q
<1>3. CASE SamePhases(kern, kern')
  BY <1>1, <1>2, <1>3 DEF SamePhases
<1>4. ASSUME NEW C \in SUBSET Calls, NEW from, NEW to, Moved(kern, kern', C, from, to)
      PROVE  Lifecycle!Move(C, from, to)
  BY <1>1, <1>2, <1>4 DEF Moved, Lifecycle!Move
<1>5. ASSUME NEW C \in SUBSET Calls, NEW X \in SUBSET C, Proposes(kern, kern', C, X)
      PROVE  Lifecycle!Propose(C, X)
  <2>1. \A c \in Calls : q[c] = IF c \in X THEN "closed"
                                ELSE IF c \in C THEN "proposed" ELSE p[c]
    BY <1>2, <1>5 DEF Proposes
  <2>2. q = [c \in Calls |-> IF c \in X THEN "closed"
                             ELSE IF c \in C THEN "proposed" ELSE p[c]]
    BY <2>1 DEF q
  <2>3. \A c \in C : p[c] = "idle"
    BY <1>2, <1>5 DEF Proposes
  <2> QED
    BY <1>1, <2>2, <2>3 DEF Lifecycle!Propose
<1>6. ASSUME NEW A \in SUBSET Calls, NEW D \in SUBSET Calls, Decides(kern, kern', A, D)
      PROVE  Lifecycle!Decide(A, D)
  <2>1. \A c \in Calls : q[c] = IF c \in A THEN "authorised"
                                ELSE IF c \in D THEN "closed" ELSE p[c]
    BY <1>2, <1>6 DEF Decides
  <2>2. q = [c \in Calls |-> IF c \in A THEN "authorised"
                             ELSE IF c \in D THEN "closed" ELSE p[c]]
    BY <2>1 DEF q
  <2>3. A \cap D = {} /\ \A c \in A \cup D : p[c] = "proposed"
    BY <1>2, <1>6 DEF Decides
  <2> QED
    BY <1>1, <2>2, <2>3 DEF Lifecycle!Decide
<1>7. ASSUME NEW c \in Calls, Runs(kern, kern', c)
      PROVE  Lifecycle!Run(c)
  <2>1. Lifecycle!Move({c}, {"authorised"}, "running")
    BY <1>4, <1>7 DEF Runs
  <2>2. \A d \in Calls : p[d] \notin {"running", "waiting"}
    BY <1>2, <1>7 DEF Runs
  <2> QED
    BY <1>1, <2>1, <2>2 DEF Lifecycle!Run
<1>8. CASE \E C \in SUBSET Calls :
             \/ \E X \in SUBSET C : Proposes(kern, kern', C, X)
             \/ Moved(kern, kern', C, OpenPhases, "closed")
             \/ Moved(kern, kern', C, {"authorised"}, "proposed")
  BY <1>4, <1>5, <1>8 DEF Lifecycle!Next, Lifecycle!Close, Lifecycle!Renew, OpenPhases
<1>9. CASE \E A, D \in SUBSET Calls : Decides(kern, kern', A, D)
  BY <1>6, <1>9 DEF Lifecycle!Next
<1>10. CASE \E c \in Calls : \/ Runs(kern, kern', c)
                             \/ Moved(kern, kern', {c}, {"running"}, "waiting")
                             \/ Moved(kern, kern', {c}, {"running"}, "abandoned")
  BY <1>4, <1>7, <1>10 DEF Lifecycle!Next, Lifecycle!Ask, Lifecycle!Abandon
<1> QED
  BY <1>3, <1>8, <1>9, <1>10 DEF LifeStep

(***************************************************************************)
(* Calls of an open run.                                                   *)
(***************************************************************************)
HeldOpen(t) == Good(t) /\ OpenRun(t) /\ Held(t)

(* What is known of a call. *)
LEMMA OpenCall ==
  ASSUME NEW t \in Transactions, HeldOpen(t), NEW c \in Calls
  PROVE  /\ CallAgrees(t, c) /\ FactsAgree(t.log[c], t.state[c])
         /\ t.state[c] = "running" => t.question # c
         /\ t.state[c] = "awaiting_input" => Waits(t, c) /\ t.active.tool \in {c, None}
         /\ c \in Range(t.order) => t.log[c].proposed
         /\ t.log[c] \in CallFacts /\ t.state[c] \in InvocationStates
<1>1. CallAgrees(t, c) /\ FactsAgree(t.log[c], t.state[c])
  BY DEF HeldOpen, Good, LogAgrees, OpenRun, Kept, ActiveKept, RunIsOpen
<1>2. /\ t.state[c] = "running" => t.question # c
      /\ t.state[c] = "awaiting_input" => Waits(t, c) /\ t.active.tool \in {c, None}
  BY DEF HeldOpen, Held, RunHeld, AskingAgrees, OpenRun
<1>3. c \in Range(t.order) => t.log[c].proposed
  BY DEF HeldOpen, OpenRun, Kept, LogKept, BatchKept, ProposalsKept, Range
<1> QED
  BY <1>1, <1>2, <1>3 DEF Transactions

(* The phase of a call, by its state. *)
LEMMA PhaseByState ==
  ASSUME NEW t \in Transactions, HeldOpen(t), NEW c \in Calls
  PROVE  /\ c \in Range(t.order) /\ t.log[c].done = "no" => PhaseOf(t, c) \in OpenPhases
         /\ t.state[c] = "running" <=> PhaseOf(t, c) = "running"
         /\ t.state[c] = "awaiting_input" <=> PhaseOf(t, c) = "waiting"
         /\ t.state[c] \in {"proposed", "awaiting_approval"} => PhaseOf(t, c) = "proposed"
         /\ t.state[c] = "allowed" => PhaseOf(t, c) = "authorised"
<1>1. /\ CallAgrees(t, c) /\ FactsAgree(t.log[c], t.state[c])
      /\ t.state[c] = "running" => t.question # c
      /\ t.state[c] = "awaiting_input" => Waits(t, c) /\ t.active.tool \in {c, None}
      /\ c \in Range(t.order) => t.log[c].proposed
      /\ t.log[c] \in CallFacts /\ t.state[c] \in InvocationStates
  BY OpenCall
<1>2. c \in Range(t.order) /\ t.log[c].done = "no" => PhaseOf(t, c) \in OpenPhases
  BY <1>1 DEF PhaseOf, OpenPhases
<1>3. t.state[c] = "running" => PhaseOf(t, c) = "running"
  BY <1>1 DEF PhaseOf, CallAgrees, Waits
<1>4. t.state[c] = "awaiting_input" => PhaseOf(t, c) = "waiting"
  BY <1>1 DEF PhaseOf, CallAgrees, Waits
<1>5. ASSUME PhaseOf(t, c) = "waiting"
      PROVE  t.state[c] = "awaiting_input"
  <2>1. t.log[c].done = "no" /\ t.log[c].started /\ Waits(t, c)
    BY <1>5 DEF PhaseOf
  <2>2. c \in Range(t.order)
    BY <2>1 DEF HeldOpen, Held, LogHeld, QuestionHeld, Waits
  <2> QED
    BY <1>1, <2>1, <2>2 DEF CallAgrees, FactsAgree, InvocationStates, Waits
<1>6. PhaseOf(t, c) = "running" => t.state[c] = "running"
  BY DEF PhaseOf
<1>7. t.state[c] \in {"proposed", "awaiting_approval"} => PhaseOf(t, c) = "proposed"
  <2>1. t.state[c] \in {"proposed", "awaiting_approval"} =>
          /\ t.log[c].done = "no" /\ ~t.log[c].started /\ t.log[c].proposed
          /\ t.log[c].policy # "allow" /\ t.log[c].approval # "approved"
    BY <1>1 DEF CallAgrees, FactsAgree, Decidable
  <2> QED
    BY <2>1 DEF PhaseOf
<1>8. t.state[c] = "allowed" => PhaseOf(t, c) = "authorised"
  <2>1. t.state[c] = "allowed" =>
          /\ t.log[c].done = "no" /\ ~t.log[c].started
          /\ t.log[c].policy = "allow" \/ t.log[c].approval = "approved"
    BY <1>1 DEF CallAgrees, FactsAgree, Authorised
  <2> QED
    BY <2>1 DEF PhaseOf
<1> QED
  BY <1>2, <1>3, <1>4, <1>5, <1>6, <1>7, <1>8

(* Only the active tool executes, and only a run that waits has a question. *)
LEMMA OneRuns ==
  ASSUME NEW t \in Transactions, HeldOpen(t), NEW c \in Calls
  PROVE  /\ PhaseOf(t, c) = "running" => t.active.tool = c
         /\ PhaseOf(t, c) = "waiting" => t.active.tool \in {c, None} /\ c \in Range(t.order)
         /\ t.active.inference => PhaseOf(t, c) \notin {"running", "waiting"}
<1>1. /\ CallAgrees(t, c)
      /\ t.state[c] = "running" <=> PhaseOf(t, c) = "running"
      /\ t.state[c] = "awaiting_input" <=> PhaseOf(t, c) = "waiting"
      /\ t.state[c] = "awaiting_input" => Waits(t, c) /\ t.active.tool \in {c, None}
  BY OpenCall, PhaseByState
<1>2. t.active.inference => t.active.tool = None /\ t.proj.status = "running"
  BY DEF HeldOpen, OpenRun, Kept, ActiveKept, Held, RunHeld
<1> QED
  BY <1>1, <1>2, KernelAssumption DEF CallAgrees, Waits

(***************************************************************************)
(* Transactions.                                                           *)
(***************************************************************************)
(* Closing calls of the batch; the tool may leave with its call. *)
LEMMA ClosedHeld ==
  ASSUME NEW t \in Transactions, HeldOpen(t), NEW u, NEW C \in SUBSET Range(t.order),
         \A c \in C : t.log[c].done = "no",
         u.proj = t.proj, u.order = t.order, u.question = t.question,
         u.active.live = t.active.live, u.active.over = t.active.over,
         u.active.inference = t.active.inference,
         u.active.tool = t.active.tool \/ (u.active.tool = None /\ t.active.tool \in C),
         \A c \in Calls : IF c \in C THEN /\ u.state[c] = "terminal"
                                          /\ u.log[c].done # "no"
                                          /\ u.log[c].started = t.log[c].started
                                          /\ u.log[c].spend # "reserved"
                                     ELSE u.state[c] = t.state[c] /\ u.log[c] = t.log[c]
  PROVE  Held(u) /\ Moved(t, u, C, OpenPhases, "closed")
<1>1. C \subseteq Calls /\ Range(t.order) \subseteq Calls
  BY OrderType
<1>2. LogHeld(t) /\ RunHeld(t) /\ t.active.live /\ ~t.active.over
  BY DEF HeldOpen, Held, OpenRun
<1>3. QuestionHeld(u)
  BY <1>1, <1>2 DEF LogHeld, QuestionHeld
<1>4. ReservedHeld(u)
  BY <1>1, <1>2 DEF LogHeld, ReservedHeld
<1>5. AskingAgrees(u)
  BY <1>1, <1>2 DEF RunHeld, AskingAgrees, Waits
<1>6. Reserves(u)
  BY <1>1, <1>2 DEF RunHeld, Reserves
<1>7. Held(u)
  BY <1>2, <1>3, <1>4, <1>5, <1>6 DEF Held, LogHeld, RunHeld
<1>8. \A c \in C : PhaseOf(t, c) \in OpenPhases
  BY <1>1, PhaseByState
<1>9. \A c \in Calls : PhaseOf(u, c) = IF c \in C THEN "closed" ELSE PhaseOf(t, c)
  BY DEF PhaseOf, Waits
<1> QED
  BY <1>7, <1>8, <1>9 DEF Moved

(* Changes of other flags. *)
LEMMA FlagHeld ==
  ASSUME NEW t, Held(t), NEW u,
         u.proj = t.proj, u.order = t.order, u.question = t.question,
         u.log = t.log, u.state = t.state,
         u.active.live = t.active.live, u.active.over = t.active.over,
         u.active.inference = t.active.inference, u.active.tool = t.active.tool
  PROVE  Held(u) /\ SamePhases(t, u)
<1>1. LogHeld(u)
  BY DEF Held, LogHeld, QuestionHeld, ReservedHeld
<1>2. RunHeld(u)
  BY DEF Held, RunHeld, AskingAgrees, Reserves, Waits
<1> QED
  BY <1>1, <1>2 DEF Held, SamePhases, PhaseOf, Waits

(* A terminal event of a run that does not wait for input. *)
EndsAs(t, u) ==
  /\ u.question = t.question
  /\ u.proj.status \in RunOver
  /\ u.active.live => u.active.over
  /\ \A c \in Calls : /\ u.state[c] # "running" /\ u.log[c].spend # "reserved"
                      /\ u.log[c].proposed = t.log[c].proposed
                      /\ u.log[c].policy = t.log[c].policy
                      /\ u.log[c].approval = t.log[c].approval
                      /\ u.log[c].started = t.log[c].started
                      /\ u.log[c].done = t.log[c].done
RunningIsCut(t, u) ==
  \A c \in Calls : PhaseOf(u, c) = IF PhaseOf(t, c) = "running" THEN "abandoned"
                                   ELSE PhaseOf(t, c)

LEMMA EndHeld ==
  ASSUME NEW t \in Transactions, LogHeld(t), \A c \in Calls : PhaseOf(t, c) # "waiting",
         NEW u, EndsAs(t, u)
  PROVE  Held(u) /\ RunningIsCut(t, u)
<1> USE DEF EndsAs
<1>1. /\ u.proj.status # "awaiting_input" /\ ~RequireRunning(u.proj)
      /\ u.active.live => u.active.over
  BY DEF RunOver, RequireRunning
<1>2. LogHeld(u)
  BY <1>1 DEF LogHeld, QuestionHeld, ReservedHeld
<1>3. RunHeld(u)
  BY <1>1 DEF RunHeld, Reserves
<1>4. ASSUME NEW c \in Calls
      PROVE  PhaseOf(u, c) = IF PhaseOf(t, c) = "running" THEN "abandoned"
                             ELSE PhaseOf(t, c)
  <2>1. /\ u.log[c].proposed = t.log[c].proposed /\ u.log[c].policy = t.log[c].policy
        /\ u.log[c].approval = t.log[c].approval /\ u.log[c].started = t.log[c].started
        /\ u.log[c].done = t.log[c].done /\ u.state[c] # "running"
        /\ PhaseOf(t, c) # "waiting" /\ ~Waits(u, c)
    BY <1>1 DEF Waits
  <2> QED
    BY <2>1 DEF PhaseOf
<1> QED
  BY <1>2, <1>3, <1>4 DEF Held, RunningIsCut

(* Ends of a run, by the calls that ran. *)
Ended(t, u) ==
  /\ Held(u)
  /\ \/ SamePhases(t, u)
     \/ \E c \in Calls : /\ PhaseOf(t, c) = "running"
                         /\ Moved(t, u, {c}, {"running"}, "abandoned")

LEMMA EndedOpen ==
  ASSUME NEW t \in Transactions, HeldOpen(t), NEW u, Held(u), RunningIsCut(t, u)
  PROVE  Ended(t, u)
<1> USE DEF RunningIsCut
<1>1. CASE \A c \in Calls : PhaseOf(t, c) # "running"
  BY <1>1 DEF Ended, SamePhases
<1>2. ASSUME NEW c \in Calls, PhaseOf(t, c) = "running"
      PROVE  Ended(t, u)
  <2>1. \A d \in Calls : PhaseOf(t, d) = "running" => d = c
    BY <1>2, OneRuns
  <2>2. Moved(t, u, {c}, {"running"}, "abandoned")
    BY <1>2, <2>1 DEF Moved
  <2> QED
    BY <1>2, <2>2 DEF Ended
<1> QED
  BY <1>1, <1>2

(* fail_live_run. *)
LEMMA FailHeld ==
  ASSUME NEW t \in Transactions, HeldOpen(t), \A c \in Calls : PhaseOf(t, c) # "waiting"
  PROVE  /\ Ended(t, FailLiveRun(t))
         /\ (\A c \in Calls : PhaseOf(t, c) # "running") => SamePhases(t, FailLiveRun(t))
<1> DEFINE u == FailLiveRun(t)
<1>1. /\ u.proj = RunEnded(t.proj, "failed") /\ u.question = t.question
      /\ u.active = [t.active EXCEPT !.backendDone = TRUE, !.ackExpected = TRUE, !.over = TRUE]
      /\ \A c \in Calls : /\ u.log[c] = IF c = t.active.tool THEN Reconciled(t.log[c])
                                        ELSE t.log[c]
                          /\ u.state[c] = IF c = t.active.tool THEN "terminal"
                                          ELSE t.state[c]
  BY DEF FailLiveRun, Transactions
<1>2. /\ u.proj.status \in RunOver /\ u.active.over
  <2>1. u.active.over
    BY <1>1 DEF Transactions, ActiveRuns
  <2> QED
    BY <1>1, <2>1 DEF RunEnded, RunOver
<1> HIDE DEF u
<1>3. ASSUME NEW c \in Calls
      PROVE  /\ u.state[c] # "running" /\ u.log[c].spend # "reserved"
             /\ u.log[c].proposed = t.log[c].proposed
             /\ u.log[c].policy = t.log[c].policy
             /\ u.log[c].approval = t.log[c].approval
             /\ u.log[c].started = t.log[c].started
             /\ u.log[c].done = t.log[c].done
  <2>1. /\ t.state[c] = "running" => t.active.tool = c
        /\ t.log[c].spend = "reserved" => t.active.tool = c
    BY OpenCall DEF CallAgrees, HeldOpen, Held, RunHeld, Reserves
  <2>2. t.log[c] \in CallFacts
    BY DEF Transactions
  <2>3. /\ Reconciled(t.log[c]).spend # "reserved"
        /\ Reconciled(t.log[c]).proposed = t.log[c].proposed
        /\ Reconciled(t.log[c]).policy = t.log[c].policy
        /\ Reconciled(t.log[c]).approval = t.log[c].approval
        /\ Reconciled(t.log[c]).started = t.log[c].started
        /\ Reconciled(t.log[c]).done = t.log[c].done
    BY <2>2 DEF Reconciled, CallFacts
  <2> QED
    BY <1>1, <2>1, <2>3
<1>4. Held(u) /\ RunningIsCut(t, u)
  <2>1. LogHeld(t)
    BY DEF HeldOpen, Held
  <2> QED
    <3>1. EndsAs(t, u)
      BY <1>1, <1>2, <1>3 DEF EndsAs
    <3> QED
      BY <2>1, <3>1, EndHeld
<1>5. Ended(t, u)
  BY <1>4, EndedOpen
<1>6. (\A c \in Calls : PhaseOf(t, c) # "running") => SamePhases(t, u)
  BY <1>4 DEF SamePhases, RunningIsCut
<1> QED
  BY <1>5, <1>6 DEF u

(***************************************************************************)
(* Steps of the kernel.                                                    *)
(***************************************************************************)
(* A step of the lifecycle in which no question is published. *)
AsksNothing(t, u) ==
  \A c \in Calls : u.state[c] = "awaiting_input" => t.state[c] = "awaiting_input"
Lives(t, u) == Held(u) /\ LifeStep(t, u) /\ AsksNothing(t, u)

LEMMA ClosesLives ==
  ASSUME NEW t \in Transactions, NEW u, NEW C \in SUBSET Calls,
         Moved(t, u, C, OpenPhases, "closed")
  PROVE  LifeStep(t, u)
  BY DEF LifeStep

LEMMA EndedLives ==
  ASSUME NEW t, NEW u, Ended(t, u)
  PROVE  LifeStep(t, u) /\ Held(u)
  BY DEF LifeStep, Ended

(* record_tool_error. *)
LEMMA ErrorHeld ==
  ASSUME NEW t \in Transactions, HeldOpen(t), NEW C \in SUBSET Range(t.order),
         \A c \in C : t.log[c].done = "no"
  PROVE  LET u == RecordToolError(t, C) IN
         /\ Held(u) /\ Moved(t, u, C, OpenPhases, "closed") /\ AsksNothing(t, u)
         /\ Lives(t, u)
         /\ (\A c \in C : ~Decidable(t.log[c])) => HeldOpen(u)
<1> DEFINE u == RecordToolError(t, C)
           e(c) == [Reconciled(t.log[c]) EXCEPT !.done = "error"]
<1>1. /\ u.proj = t.proj /\ u.order = t.order /\ u.active = t.active
      /\ u.question = t.question
      /\ \A c \in Calls : /\ u.log[c] = IF c \in C THEN e(c) ELSE t.log[c]
                          /\ u.state[c] = IF c \in C THEN "terminal" ELSE t.state[c]
  BY DEF RecordToolError, Transactions
<1>2. \A c \in Calls : e(c).done # "no" /\ e(c).started = t.log[c].started
                       /\ e(c).spend # "reserved"
  BY DEF Reconciled, Transactions, CallFacts
<1>3. Good(u) /\ ((\A c \in C : ~Decidable(t.log[c])) => OpenRun(u))
  BY ToolErrorGood, ErrorKept DEF HeldOpen
<1> HIDE DEF u, e
<1>4. \A c \in Calls : IF c \in C THEN /\ u.state[c] = "terminal"
                                       /\ u.log[c].done # "no"
                                       /\ u.log[c].started = t.log[c].started
                                       /\ u.log[c].spend # "reserved"
                       ELSE u.state[c] = t.state[c] /\ u.log[c] = t.log[c]
  BY <1>1, <1>2
<1>5. Held(u) /\ Moved(t, u, C, OpenPhases, "closed")
  BY <1>1, <1>4, ClosedHeld
<1>6. AsksNothing(t, u)
  BY <1>4 DEF AsksNothing
<1>7. C \in SUBSET Calls
  BY OrderType
<1>8. Lives(t, u)
  BY <1>5, <1>6, <1>7, ClosesLives DEF Lives
<1>9. (\A c \in C : ~Decidable(t.log[c])) => HeldOpen(u)
  BY <1>3, <1>5 DEF HeldOpen
<1> QED
  BY <1>5, <1>6, <1>8, <1>9 DEF u

(* A failed handler. *)
LEMMA FailLives ==
  ASSUME NEW t \in Transactions, HeldOpen(t), \A c \in Calls : PhaseOf(t, c) # "waiting"
  PROVE  Lives(t, FailLiveRun(t))
<1>1. AsksNothing(t, FailLiveRun(t))
  BY DEF AsksNothing, FailLiveRun, Transactions
<1> QED
  BY <1>1, FailHeld, EndedLives DEF Lives

LEMMA NothingLives ==
  ASSUME NEW t, Held(t)
  PROVE  Lives(t, t)
  BY DEF Lives, LifeStep, SamePhases, AsksNothing

HeldHere == kern \in Transactions /\ Good(kern) /\ Kept(kern) /\ Held(kern)

LEMMA FailOrDropLives ==
  ASSUME HeldHere, \A c \in Calls : PhaseOf(kern, c) # "waiting"
  PROVE  Lives(kern, FailOrDrop(kern))
<1>1. CASE kern.active.live /\ ~kern.active.over
  <2>1. HeldOpen(kern)
    BY <1>1 DEF HeldHere, HeldOpen, OpenRun
  <2> QED
    BY <1>1, <2>1, FailLives DEF FailOrDrop, HeldHere
<1> QED
  BY <1>1, NothingLives DEF FailOrDrop, HeldHere

(* The flags of an inference. *)
LEMMA FlagLives ==
  ASSUME NEW t, Held(t), NEW u,
         u.proj = t.proj, u.order = t.order, u.question = t.question,
         u.log = t.log, u.state = t.state,
         u.active.live = t.active.live, u.active.over = t.active.over,
         u.active.inference = t.active.inference, u.active.tool = t.active.tool
  PROVE  Lives(t, u)
<1>1. Held(u) /\ SamePhases(t, u)
  BY FlagHeld
<1> QED
  BY <1>1 DEF Lives, LifeStep, AsksNothing

(* While a response is received no call executes or waits. *)
LEMMA InferenceIsQuiet ==
  ASSUME HeldHere, Inferring
  PROVE  \A c \in Calls : PhaseOf(kern, c) # "waiting"
<1>1. CASE kern.active.over
  BY <1>1 DEF HeldHere, Kept, ActiveKept, RunIsOver, RunOver, Inferring, PhaseOf, Waits
<1>2. CASE ~kern.active.over
  <2>1. HeldOpen(kern) /\ kern \in Transactions
    BY <1>2 DEF HeldHere, HeldOpen, OpenRun, Inferring
  <2> QED
    BY <2>1, OneRuns DEF Inferring
<1> QED
  BY <1>1, <1>2

(* A terminal event of the inference. *)
LEMMA StopsLives ==
  ASSUME HeldHere, Streaming, NEW o \in RunOver
  PROVE  Lives(kern, RunStops(o))
<1> DEFINE u == RunStops(o)
<1>0. HeldOpen(kern) /\ kern \in Transactions /\ kern.active.inference
  BY StreamingIsOpen DEF HeldHere, HeldOpen, Streaming, Inferring
<1>1. /\ u.proj = RunEnded(kern.proj, o) /\ u.question = kern.question
      /\ u.active = [kern.active EXCEPT !.backendDone = TRUE, !.over = TRUE]
      /\ u.log = kern.log /\ u.state = kern.state
  BY <1>0 DEF RunStops, Transactions
<1>2. u.active.over /\ u.proj.status \in RunOver
  BY <1>0, <1>1 DEF RunEnded, Transactions, ActiveRuns
<1> HIDE DEF u
<1>3. \A c \in Calls : PhaseOf(kern, c) \notin {"running", "waiting"}
  BY <1>0, OneRuns
<1>4. \A c \in Calls : kern.state[c] # "running" /\ kern.log[c].spend # "reserved"
  <2>1. kern.active.tool = None
    BY <1>0 DEF HeldOpen, OpenRun, Kept, ActiveKept
  <2>2. \A c \in Calls : kern.state[c] # "running"
    BY <1>0, <1>3, PhaseByState
  <2> QED
    BY <1>0, <2>1, <2>2, KernelAssumption DEF HeldOpen, Held, RunHeld, Reserves
<1>5. Held(u) /\ RunningIsCut(kern, u)
  <2>1. LogHeld(kern)
    BY <1>0 DEF HeldOpen, Held
  <2> QED
    <3>1. EndsAs(kern, u)
      BY <1>1, <1>2, <1>4 DEF EndsAs
    <3> QED
      BY <1>0, <1>3, <2>1, <3>1, EndHeld
<1>6. Lives(kern, u)
  BY <1>0, <1>1, <1>5, EndedOpen, EndedLives DEF Lives, AsksNothing
<1> QED
  BY <1>6 DEF u

(***************************************************************************)
(* The updates of the backend worker.                                      *)
(***************************************************************************)
(* The events of a response. *)
LEMMA BackendEventLives ==
  ASSUME HeldHere, ProcessBackendEvent
  PROVE  Lives(kern, kern')
<1>0. kern \in Transactions /\ Held(kern)
  BY DEF HeldHere
<1>1. CASE kern' = kern
  BY <1>0, <1>1, NothingLives
<1>2. CASE Inferring /\ kern' = FailOrDrop(kern)
  BY <1>2, InferenceIsQuiet, FailOrDropLives
<1>3. CASE Streaming /\ kern' = RunStops("completed")
  BY <1>3, StopsLives DEF RunOver
<1>4. CASE kern' = [kern EXCEPT !.active.response = TRUE]
  <2>1. /\ kern'.proj = kern.proj /\ kern'.order = kern.order /\ kern'.log = kern.log
        /\ kern'.state = kern.state /\ kern'.question = kern.question
        /\ kern'.active = [kern.active EXCEPT !.response = TRUE]
    BY <1>0, <1>4 DEF Transactions
  <2>2. /\ kern'.active.live = kern.active.live /\ kern'.active.over = kern.active.over
        /\ kern'.active.inference = kern.active.inference
        /\ kern'.active.tool = kern.active.tool
    BY <1>0, <2>1 DEF Transactions, ActiveRuns
  <2> QED
    BY <1>0, <2>1, <2>2, FlagLives
<1>5. CASE kern' = [kern EXCEPT !.active.calls = Append(@, Update1.call)]
  <2> DEFINE q == Append(kern.active.calls, Update1.call)
  <2>1. /\ kern'.proj = kern.proj /\ kern'.order = kern.order /\ kern'.log = kern.log
        /\ kern'.state = kern.state /\ kern'.question = kern.question
        /\ kern'.active = [kern.active EXCEPT !.calls = q]
    BY <1>0, <1>5 DEF Transactions
  <2> HIDE DEF q
  <2>2. /\ kern'.active.live = kern.active.live /\ kern'.active.over = kern.active.over
        /\ kern'.active.inference = kern.active.inference
        /\ kern'.active.tool = kern.active.tool
    BY <1>0, <2>1 DEF Transactions, ActiveRuns
  <2> QED
    BY <1>0, <2>1, <2>2, FlagLives
<1> QED
  BY <1>1, <1>2, <1>3, <1>4, <1>5 DEF ProcessBackendEvent

(* A response or a stream that was cancelled or failed. *)
LEMMA BackendStopLives ==
  ASSUME HeldHere, ProcessBackendStop
  PROVE  Lives(kern, kern')
<1>0. kern \in Transactions /\ Held(kern)
  BY DEF HeldHere
<1>1. CASE kern' = kern
  BY <1>0, <1>1, NothingLives
<1>2. CASE Inferring /\ kern' = FailOrDrop(kern)
  BY <1>2, InferenceIsQuiet, FailOrDropLives
<1>3. CASE Streaming /\ kern' = RunStops("cancelled")
  BY <1>3, StopsLives DEF RunOver
<1>4. CASE kern' = Acknowledged
  <2>1. /\ kern'.proj = kern.proj /\ kern'.order = kern.order /\ kern'.log = kern.log
        /\ kern'.state = kern.state /\ kern'.question = kern.question
        /\ kern'.active = [kern.active EXCEPT !.ackExpected = FALSE]
    BY <1>0, <1>4 DEF Transactions, Acknowledged
  <2>2. /\ kern'.active.live = kern.active.live /\ kern'.active.over = kern.active.over
        /\ kern'.active.inference = kern.active.inference
        /\ kern'.active.tool = kern.active.tool
    BY <1>0, <2>1 DEF Transactions, ActiveRuns
  <2> QED
    BY <1>0, <2>1, <2>2, FlagLives
<1> QED
  BY <1>1, <1>2, <1>3, <1>4 DEF ProcessBackendStop

(* The calls of a response are proposed. *)
LEMMA ProposedHeld ==
  ASSUME HeldHere, Streaming
  PROVE  LET new == Range(kern.active.calls)
             u == Proposed(new) IN
         /\ HeldOpen(u) /\ u \in Transactions /\ AsksNothing(kern, u)
         /\ Range(u.order) = new /\ \A c \in new : ~Decidable(u.log[c])
         /\ Proposes(kern, u, new, {}) /\ \A c \in new : u.log[c].done = "no"
<1> DEFINE new == Range(kern.active.calls)
           u == Proposed(new)
           g(c) == [kern.log[c] EXCEPT !.proposed = TRUE]
<1>0. kern \in Transactions /\ Good(kern) /\ OpenRun(kern) /\ Held(kern) /\ Kept(kern)
  BY StreamingIsOpen DEF HeldHere
<1>1. /\ u.proj = InferenceEnded(kern.proj) /\ u.order = kern.active.calls
      /\ u.question = kern.question
      /\ u.active = [kern.active EXCEPT !.backendDone = TRUE]
      /\ \A c \in Calls : /\ u.log[c] = IF c \in new THEN g(c) ELSE kern.log[c]
                          /\ u.state[c] = IF c \in new THEN "proposed" ELSE kern.state[c]
  BY <1>0 DEF Proposed, Transactions
<1>2. /\ u.active.live /\ ~u.active.over /\ u.active.inference
      /\ u.active.tool = kern.active.tool
  BY <1>0, <1>1 DEF Transactions, ActiveRuns, OpenRun, Streaming, Inferring
<1>3. u.proj.status = kern.proj.status
  BY <1>0, <1>1 DEF InferenceEnded, Transactions, Projections
<1>4. \A c \in Calls : /\ g(c).proposed /\ g(c).started = kern.log[c].started
                       /\ g(c).done = kern.log[c].done /\ g(c).approval = kern.log[c].approval
                       /\ g(c).policy = kern.log[c].policy /\ g(c).spend = kern.log[c].spend
  BY <1>0 DEF Transactions, CallFacts
<1>5. /\ OpenRun(u) /\ Range(u.order) = new /\ \A c \in new : ~Decidable(u.log[c])
      /\ u \in Transactions /\ u.active.backendDone
  BY <1>0, ProposedKept, ProposedType DEF Proposed, Transactions, ActiveRuns
<1> HIDE DEF u, g
<1>6. new \subseteq Calls
  BY <1>0, OrderType
<1>7. \A c \in new : /\ ~kern.log[c].proposed /\ ~kern.log[c].started
                     /\ kern.log[c].done = "no" /\ kern.log[c].approval = "none"
                     /\ kern.log[c].policy = "none" /\ kern.log[c].spend = "none"
  BY <1>0, <1>6 DEF Good, LogAgrees, FactsAgree, StreamedCallsAreNew, Streaming, Kept,
              LogKept, BatchKept, ProposalsKept
<1>8. LogHeld(kern) /\ kern.proj.status = "running" /\ kern.active.tool = None
      /\ AskingAgrees(kern) /\ Reserves(kern)
  BY <1>0 DEF Held, RunHeld, OpenRun, Streaming, Inferring, Kept, ActiveKept
<1>9. kern.question \notin new
  BY <1>6, <1>7, <1>8 DEF LogHeld, QuestionHeld
<1>10. QuestionHeld(u)
  BY <1>1, <1>3, <1>4, <1>5, <1>6, <1>7, <1>8, <1>9 DEF LogHeld, QuestionHeld
<1>11. \A c \in Calls : u.log[c].spend # "reserved"
  BY <1>1, <1>4, <1>6, <1>7, <1>8, KernelAssumption DEF Reserves
<1>12. AskingAgrees(u)
  BY <1>1, <1>2, <1>3, <1>8 DEF AskingAgrees, Waits
<1>13. Held(u)
  BY <1>2, <1>3, <1>8, <1>10, <1>11, <1>12
     DEF Held, LogHeld, ReservedHeld, RunHeld, Reserves
<1>14. \A c \in new : PhaseOf(kern, c) = "idle" /\ PhaseOf(u, c) = "proposed"
                      /\ u.log[c].done = "no"
  BY <1>1, <1>4, <1>6, <1>7 DEF PhaseOf
<1>15. \A c \in Calls \ new : PhaseOf(u, c) = PhaseOf(kern, c)
  BY <1>1, <1>3 DEF PhaseOf, Waits
<1>16. Proposes(kern, u, new, {})
  BY <1>14, <1>15 DEF Proposes
<1>17. AsksNothing(kern, u)
  BY <1>1 DEF AsksNothing
<1>18. Good(u)
  <2>1. \A c \in Calls : FactsAgree(kern.log[c], kern.state[c])
    BY <1>0 DEF Good, LogAgrees
  <2>2. \A c \in new : FactsAgree(u.log[c], u.state[c])
    BY <1>1, <1>4, <1>6, <1>7 DEF FactsAgree
  <2>3. \A c \in Calls : FactsAgree(u.log[c], u.state[c])
    BY <1>1, <2>1, <2>2
  <2> QED
    BY <1>5, <2>3 DEF Good, LogAgrees, StreamedCallsAreNew
<1> QED
  BY <1>5, <1>13, <1>14, <1>16, <1>17, <1>18 DEF HeldOpen, u

LEMMA ToolCallFinishLives ==
  ASSUME HeldHere, ProcessToolCallFinish
  PROVE  Lives(kern, kern')
<1>0. kern \in Transactions /\ Held(kern)
  BY DEF HeldHere
<1>1. CASE kern' = kern
  BY <1>0, <1>1, NothingLives
<1>2. CASE Inferring /\ kern' = FailOrDrop(kern)
  BY <1>2, InferenceIsQuiet, FailOrDropLives
<1>3. ASSUME Streaming, NEW bad \in SUBSET Range(kern.active.calls),
             kern' = RecordToolError(Proposed(Range(kern.active.calls)), bad)
      PROVE  Lives(kern, kern')
  <2> DEFINE new == Range(kern.active.calls)
             u == Proposed(new)
  <2>1. /\ HeldOpen(u) /\ u \in Transactions /\ AsksNothing(kern, u)
        /\ Range(u.order) = new /\ Proposes(kern, u, new, {})
        /\ \A c \in new : u.log[c].done = "no"
    BY <1>3, ProposedHeld
  <2>2. kern' = RecordToolError(u, bad) /\ new \subseteq Calls /\ bad \in SUBSET new
    BY <1>0, <1>3, OrderType
  <2> HIDE DEF u, new
  <2>3. Held(kern') /\ Moved(u, kern', bad, OpenPhases, "closed") /\ AsksNothing(u, kern')
    BY <2>1, <2>2, ErrorHeld
  <2>4. Proposes(kern, kern', new, bad)
    BY <2>1, <2>2, <2>3 DEF Proposes, Moved
  <2> QED
    BY <2>1, <2>2, <2>3, <2>4 DEF Lives, LifeStep, AsksNothing
<1> QED
  BY <1>1, <1>2, <1>3 DEF ProcessToolCallFinish, Streaming

(* The outcome of policy for calls that were proposed. *)
LEMMA PolicyHeld ==
  ASSUME NEW t \in Transactions, HeldOpen(t), ~t.active.inference,
         NEW C \in SUBSET Calls, NEW out,
         \A c \in C : t.state[c] = "proposed" /\ out[c] \in Outcomes \ {"malformed"}
  PROVE  LET u == ApplyPolicy(t, C, out)
             allowed == {c \in C : out[c] = "allow"}
             closed == {c \in C : out[c] \in {"deny", "error", "unpresentable"}} IN
         /\ HeldOpen(u) /\ u \in Transactions /\ AsksNothing(t, u)
         /\ Decides(t, u, allowed, closed)
<1> DEFINE requested == {c \in C : out[c] = "require"}
           allowed == {c \in C : out[c] = "allow"}
           closed == {c \in C : out[c] \in {"deny", "error", "unpresentable"}}
           w == [t EXCEPT
                   !.proj = ApprovalRequested(t.proj, requested),
                   !.log = [c \in Calls |-> IF c \in C THEN Judged(t.log[c], out[c])
                                            ELSE t.log[c]],
                   !.state = [c \in Calls |-> IF c \in requested THEN "awaiting_approval"
                                             ELSE IF c \in C /\ out[c] = "allow" THEN "allowed"
                                             ELSE t.state[c]]]
           u == ApplyPolicy(t, C, out)
           j(c) == Judged(t.log[c], out[c])
           e(c) == [Reconciled(j(c)) EXCEPT !.done = "error"]
<1>0. Good(t) /\ OpenRun(t) /\ LogHeld(t) /\ AskingAgrees(t) /\ Reserves(t)
  BY DEF HeldOpen, Held, RunHeld, OpenRun
<1>1. u = RecordToolError(w, closed)
  BY DEF ApplyPolicy
<1>2. /\ w.order = t.order /\ w.active = t.active /\ w.question = t.question
      /\ w.proj = ApprovalRequested(t.proj, requested)
      /\ \A c \in Calls :
           /\ w.log[c] = IF c \in C THEN j(c) ELSE t.log[c]
           /\ w.state[c] = IF c \in requested THEN "awaiting_approval"
                           ELSE IF c \in C /\ out[c] = "allow" THEN "allowed"
                           ELSE t.state[c]
  BY DEF Transactions
<1>2a. ASSUME NEW X
       PROVE  LET v == RecordToolError(w, X) IN
              /\ v.order = t.order /\ v.active = t.active /\ v.question = t.question
              /\ v.proj = w.proj
              /\ \A c \in X \cap Calls :
                   /\ v.log[c] = [Reconciled(w.log[c]) EXCEPT !.done = "error"]
                   /\ v.state[c] = "terminal"
              /\ \A c \in Calls \ X : v.log[c] = w.log[c] /\ v.state[c] = w.state[c]
  BY DEF Transactions, RecordToolError
<1>3. OpenRun(u) /\ u \in Transactions /\ Good(u)
  BY <1>0, PolicyKept, PolicyType, PolicyGood
<1> HIDE DEF w, j
<1>4. closed \subseteq C
  OBVIOUS
<1>5. /\ u.order = t.order /\ u.active = t.active /\ u.question = t.question
      /\ u.proj = ApprovalRequested(t.proj, requested)
      /\ \A c \in Calls :
           /\ u.log[c] = IF c \in closed THEN e(c) ELSE IF c \in C THEN j(c) ELSE t.log[c]
           /\ u.state[c] = IF c \in closed THEN "terminal"
                           ELSE IF c \in requested THEN "awaiting_approval"
                           ELSE IF c \in C /\ out[c] = "allow" THEN "allowed"
                           ELSE t.state[c]
  <2> HIDE DEF closed, requested, u, e
  <2>1. /\ u.order = t.order /\ u.active = t.active /\ u.question = t.question
        /\ u.proj = ApprovalRequested(t.proj, requested)
        /\ \A c \in closed \cap Calls :
             /\ u.log[c] = [Reconciled(w.log[c]) EXCEPT !.done = "error"]
             /\ u.state[c] = "terminal"
        /\ \A c \in Calls \ closed : u.log[c] = w.log[c] /\ u.state[c] = w.state[c]
    BY <1>1, <1>2, <1>2a
  <2>2. ASSUME NEW c \in closed \cap Calls
        PROVE  u.log[c] = e(c)
    <3>1. w.log[c] = j(c)
      BY <1>2, <1>4
    <3> QED
      BY <2>1, <3>1 DEF e
  <2>3. ASSUME NEW c \in Calls \ closed
        PROVE  u.log[c] = IF c \in C THEN j(c) ELSE t.log[c]
    BY <1>2, <2>1
  <2>4. ASSUME NEW c \in Calls
        PROVE  u.state[c] = IF c \in closed THEN "terminal"
                            ELSE IF c \in requested THEN "awaiting_approval"
                            ELSE IF c \in C /\ out[c] = "allow" THEN "allowed"
                            ELSE t.state[c]
    <3>1. w.state[c] = IF c \in requested THEN "awaiting_approval"
                       ELSE IF c \in C /\ out[c] = "allow" THEN "allowed"
                       ELSE t.state[c]
      BY <1>2
    <3>2. u.state[c] = IF c \in closed THEN "terminal" ELSE w.state[c]
      BY <2>1
    <3> QED
      BY <3>1, <3>2
  <2>5. /\ u.order = t.order /\ u.active = t.active /\ u.question = t.question
        /\ u.proj = ApprovalRequested(t.proj, requested)
    BY <2>1
  <2>6. ASSUME NEW c \in Calls
        PROVE  u.log[c] = IF c \in closed THEN e(c) ELSE IF c \in C THEN j(c) ELSE t.log[c]
    BY <2>2, <2>3
  <2> QED
    BY <2>4, <2>5, <2>6
<1> HIDE DEF u
<1>6. /\ u.proj.status = "awaiting_input" <=> t.proj.status = "awaiting_input"
  BY <1>5 DEF ApprovalRequested, Transactions, Projections
<1>6a. RequireRunning(u.proj) => RequireRunning(t.proj)
  BY <1>5 DEF ApprovalRequested, Transactions, Projections, RequireRunning
<1>7. ASSUME NEW c \in C
      PROVE  /\ t.log[c].done = "no" /\ ~t.log[c].started /\ PhaseOf(t, c) = "proposed"
             /\ t.log[c].spend # "reserved" /\ t.question # c /\ t.log[c] \in CallFacts
             /\ FactsAgree(t.log[c], "proposed")
  <2>1. CallAgrees(t, c) /\ FactsAgree(t.log[c], "proposed") /\ t.log[c] \in CallFacts
        /\ PhaseOf(t, c) = "proposed"
    BY OpenCall, PhaseByState
  <2> QED
    BY <1>0, <2>1 DEF CallAgrees, FactsAgree, LogHeld, QuestionHeld, ReservedHeld
<1>8. ASSUME NEW c \in C
      PROVE  /\ j(c).started = t.log[c].started /\ j(c).done = "no" /\ j(c).proposed
             /\ j(c).spend = t.log[c].spend
             /\ j(c).policy = IF out[c] = "unpresentable" THEN "error" ELSE out[c]
             /\ j(c).approval = IF out[c] = "require" THEN "requested" ELSE "none"
             /\ e(c).started = t.log[c].started /\ e(c).done # "no" /\ e(c).spend # "reserved"
  <2>1. t.log[c] \in CallFacts /\ FactsAgree(t.log[c], "proposed")
        /\ t.log[c].done = "no" /\ ~t.log[c].started
    BY <1>7
  <2>2. /\ j(c).started = t.log[c].started /\ j(c).done = "no" /\ j(c).proposed
        /\ j(c).spend = t.log[c].spend
        /\ j(c).policy = IF out[c] = "unpresentable" THEN "error" ELSE out[c]
        /\ j(c).approval = IF out[c] = "require" THEN "requested" ELSE "none"
    BY <2>1 DEF j, Judged, CallFacts, FactsAgree
  <2>3. j(c) \in CallFacts
    BY <1>2, <2>1, JudgedType DEF j
  <2>4. e(c).started = t.log[c].started /\ e(c).done # "no" /\ e(c).spend # "reserved"
    BY <2>2, <2>3 DEF Reconciled, CallFacts
  <2> QED
    BY <2>2, <2>4
<1> HIDE DEF e
<1>9. \A c \in Calls : /\ u.log[c].started = t.log[c].started
                       /\ u.log[c].spend = "reserved" => t.log[c].spend = "reserved" /\ c \notin C
                       /\ u.state[c] \in {"running", "awaiting_input"} => u.state[c] = t.state[c]
                       /\ c \notin C => u.log[c] = t.log[c] /\ u.state[c] = t.state[c]
  <2>1. ASSUME NEW c \in C
        PROVE  u.log[c].started = t.log[c].started /\ u.log[c].spend # "reserved"
    <3>1. u.log[c] \in {e(c), j(c)}
      BY <1>5
    <3> QED
      BY <1>7, <1>8, <3>1
  <2>2. ASSUME NEW c \in Calls
        PROVE  u.state[c] \in {"running", "awaiting_input"} => u.state[c] = t.state[c]
    BY <1>5
  <2>3. ASSUME NEW c \in Calls \ C
        PROVE  u.log[c] = t.log[c] /\ u.state[c] = t.state[c]
    BY <1>5
  <2> QED
    BY <2>1, <2>2, <2>3
<1>10. QuestionHeld(u)
  <2>1. Range(t.order) \subseteq Calls
    BY OrderType
  <2> QED
    BY <1>0, <1>5, <1>6, <1>6a, <1>7, <1>9, <2>1 DEF LogHeld, QuestionHeld
<1>11. ReservedHeld(u)
  BY <1>0, <1>5, <1>6a, <1>9 DEF LogHeld, ReservedHeld
<1>12. AskingAgrees(u)
  BY <1>0, <1>5, <1>6, <1>9 DEF AskingAgrees, Waits
<1>13. Reserves(u)
  BY <1>0, <1>5, <1>9 DEF Reserves
<1>14. Held(u)
  BY <1>3, <1>5, <1>10, <1>11, <1>12, <1>13 DEF Held, LogHeld, RunHeld, OpenRun
<1>15. ASSUME NEW c \in Calls
       PROVE  PhaseOf(u, c) = IF c \in allowed THEN "authorised"
                              ELSE IF c \in closed THEN "closed" ELSE PhaseOf(t, c)
  <2>1. CASE c \notin C
    BY <1>4, <1>5, <1>6, <1>9, <2>1 DEF PhaseOf, Waits
  <2>2. CASE c \in closed
    BY <1>5, <1>8, <2>2 DEF PhaseOf
  <2>3. CASE c \in C /\ c \notin closed
    <3>1. u.log[c] = j(c) /\ out[c] \in {"allow", "require"} /\ ~j(c).started
      BY <1>5, <1>7, <1>8, <2>3 DEF Outcomes
    <3> QED
      BY <1>7, <1>8, <2>3, <3>1 DEF PhaseOf
  <2> QED
    BY <2>1, <2>2, <2>3
<1>16. Decides(t, u, allowed, closed)
  BY <1>7, <1>15 DEF Decides
<1>17. AsksNothing(t, u)
  BY <1>9 DEF AsksNothing
<1> QED
  BY <1>3, <1>14, <1>16, <1>17 DEF HeldOpen, u

(* A run that is over lets go of the kernel. *)
LEMMA ResetHeld ==
  ASSUME NEW t \in Transactions, Held(t), t.active.live, t.active.over,
         t.proj.status \in RunOver
  PROVE  /\ Held(ResetActive(t)) /\ SamePhases(t, ResetActive(t))
         /\ AsksNothing(t, ResetActive(t))
<1> DEFINE u == ResetActive(t)
<1>1. /\ u.proj = t.proj /\ u.question = t.question /\ u.log = t.log
      /\ u.active = NoActive /\ u.state = NoInvocations
  BY DEF ResetActive, Transactions
<1>2. ~u.active.live /\ \A c \in Calls : u.state[c] = "absent"
  BY <1>1 DEF NoActive, NoInvocations
<1> HIDE DEF u
<1>3. LogHeld(t) /\ \A c \in Calls : /\ t.log[c].spend # "reserved"
                                     /\ PhaseOf(t, c) \notin {"running", "waiting"}
  BY DEF Held, RunHeld, Reserves, PhaseOf, Waits, RunOver
<1>4. EndsAs(t, u)
  BY <1>1, <1>2, <1>3 DEF EndsAs
<1>5. Held(u) /\ RunningIsCut(t, u)
  BY <1>3, <1>4, EndHeld
<1>6. SamePhases(t, u) /\ AsksNothing(t, u)
  BY <1>2, <1>3, <1>5 DEF SamePhases, RunningIsCut, AsksNothing
<1> QED
  BY <1>5, <1>6 DEF u

(* The end of the inference, once its response is complete. *)
LEMMA BetweenHeld ==
  ASSUME NEW t \in Transactions, HeldOpen(t), t.active.inference, t.active.backendDone
  PROVE  LET u == BetweenInferences(t) IN
         /\ HeldOpen(u) /\ u \in Transactions /\ SamePhases(t, u) /\ AsksNothing(t, u)
         /\ ~u.active.inference
<1> DEFINE u == BetweenInferences(t)
<1>1. /\ u.proj = t.proj /\ u.order = t.order /\ u.log = t.log /\ u.state = t.state
      /\ u.question = t.question
      /\ u.active = [t.active EXCEPT !.inference = FALSE, !.response = FALSE,
                                     !.backendDone = FALSE, !.ackExpected = FALSE,
                                     !.calls = <<>>]
  BY DEF BetweenInferences, Transactions
<1>2. /\ u.active.live = t.active.live /\ u.active.over = t.active.over
      /\ ~u.active.inference /\ u.active.tool = t.active.tool
  BY <1>1 DEF Transactions, ActiveRuns
<1>3. OpenRun(u) /\ u \in Transactions /\ Good(u)
  BY BetweenKept, BetweenType, BetweenGood DEF HeldOpen
<1> HIDE DEF u
<1>4. LogHeld(u)
  BY <1>1 DEF HeldOpen, Held, LogHeld, QuestionHeld, ReservedHeld
<1>5. RunHeld(u)
  BY <1>1, <1>2 DEF HeldOpen, Held, RunHeld, AskingAgrees, Reserves, Waits
<1>6. SamePhases(t, u) /\ AsksNothing(t, u)
  BY <1>1 DEF SamePhases, AsksNothing, PhaseOf, Waits
<1> QED
  BY <1>2, <1>3, <1>4, <1>5, <1>6 DEF HeldOpen, Held, u

(* evaluate_pending_policies, after the inference. *)
LEMMA EvaluateLives ==
  ASSUME HeldHere, NEW t \in Transactions, HeldOpen(t), SamePhases(kern, t),
         AsksNothing(kern, t), ~t.active.inference,
         \A c \in Calls : PhaseOf(kern, c) \notin {"running", "waiting"},
         NEW out \in [Calls -> Outcomes]
  PROVE  Lives(kern, EvaluatePolicies(t, out))
<1> DEFINE proposed == {i \in DOMAIN t.order : t.state[t.order[i]] = "proposed"}
           malformed == {i \in proposed : out[t.order[i]] = "malformed"}
           before == {t.order[i] : i \in {j \in proposed : \A m \in malformed : j < m}}
           allowed == {c \in before : out[c] = "allow"}
           closed == {c \in before : out[c] \in {"deny", "error", "unpresentable"}}
           p == ApplyPolicy(t, before, out)
           f == FailLiveRun(p)
<1>1. before \in SUBSET Calls
  BY OrderType
<1>2. \A c \in before : t.state[c] = "proposed" /\ out[c] \in Outcomes \ {"malformed"}
  BY OrderType
<1>3. EvaluatePolicies(t, out) \in {p, kern, f}
  BY DEF EvaluatePolicies
<1> HIDE DEF before
<1>4. /\ HeldOpen(p) /\ p \in Transactions /\ AsksNothing(t, p)
      /\ Decides(t, p, allowed, closed)
  BY <1>1, <1>2, PolicyHeld
<1>5. allowed \in SUBSET Calls /\ closed \in SUBSET Calls
  BY <1>1
<1> HIDE DEF p, allowed, closed
<1>6. Decides(kern, p, allowed, closed)
  BY <1>4, <1>5 DEF Decides, SamePhases
<1>7. Lives(kern, p)
  BY <1>4, <1>5, <1>6 DEF Lives, LifeStep, HeldOpen, AsksNothing
<1>8. \A c \in Calls : PhaseOf(p, c) \notin {"running", "waiting"}
  BY <1>6 DEF Decides
<1>9. Held(f) /\ SamePhases(p, f)
  BY <1>4, <1>8, FailHeld DEF Ended
<1>10. AsksNothing(p, f)
  BY <1>4, <1>8, FailLives DEF Lives
<1> HIDE DEF f
<1>11. Decides(kern, f, allowed, closed)
  BY <1>5, <1>6, <1>9 DEF Decides, SamePhases
<1>12. Lives(kern, f)
  BY <1>4, <1>5, <1>9, <1>10, <1>11 DEF Lives, LifeStep, AsksNothing
<1>13. Lives(kern, kern)
  BY NothingLives DEF HeldHere
<1> QED
  BY <1>3, <1>7, <1>12, <1>13

(* The end of the backend's stream. *)
LEMMA BackendEndedLives ==
  ASSUME HeldHere, ProcessBackendEnded
  PROVE  Lives(kern, kern')
<1>0. kern \in Transactions /\ Held(kern) /\ Kept(kern) /\ Good(kern)
  BY DEF HeldHere
<1>1. CASE ~Inferring
  BY <1>0, <1>1, NothingLives DEF ProcessBackendEnded, Streaming
<1>2. CASE Streaming
  <2> DEFINE t == FailLiveRun(kern)
  <2>1. HeldOpen(kern) /\ kern.active.inference
    BY <1>0, <1>2, StreamingIsOpen DEF HeldOpen, Streaming, Inferring
  <2>2. \A c \in Calls : PhaseOf(kern, c) \notin {"running", "waiting"}
    BY <1>0, <2>1, OneRuns
  <2>3. Held(t) /\ SamePhases(kern, t) /\ AsksNothing(kern, t) /\ t \in Transactions
    BY <1>0, <2>1, <2>2, FailHeld, FailLives, FailType DEF Lives
  <2>4. t.active.live /\ t.active.over /\ t.proj.status \in RunOver
    BY <1>0, <2>1 DEF FailLiveRun, Transactions, ActiveRuns, RunEnded, RunOver, HeldOpen, OpenRun
  <2>5. kern' = ResetActive(t)
    BY <1>2, <2>4 DEF ProcessBackendEnded, Streaming
  <2> HIDE DEF t
  <2>6. Held(kern') /\ SamePhases(t, kern') /\ AsksNothing(t, kern')
    BY <2>3, <2>4, <2>5, ResetHeld
  <2>7. SamePhases(kern, kern') /\ AsksNothing(kern, kern')
    BY <2>3, <2>6 DEF SamePhases, AsksNothing
  <2> QED
    BY <2>6, <2>7 DEF Lives, LifeStep
<1>3. CASE Inferring /\ ~Streaming /\ kern.active.over
  <2>1. kern' = ResetActive(kern)
    BY <1>3 DEF ProcessBackendEnded
  <2>2. kern.active.live /\ kern.active.over /\ kern.proj.status \in RunOver
    BY <1>0, <1>3 DEF Kept, ActiveKept, RunIsOver, Inferring
  <2>3. Held(kern') /\ SamePhases(kern, kern') /\ AsksNothing(kern, kern')
    BY <1>0, <2>1, <2>2, ResetHeld
  <2> QED
    BY <2>3 DEF Lives, LifeStep
<1>4. CASE Inferring /\ ~Streaming /\ ~kern.active.over
  <2> DEFINE t == BetweenInferences(kern)
  <2>1. PICK out \in [Calls -> PolicyOutcomes] : kern' = EvaluatePolicies(t, out)
    BY <1>4 DEF ProcessBackendEnded
  <2>2. out \in [Calls -> Outcomes]
    BY KernelAssumption
  <2>3. HeldOpen(kern) /\ kern.active.inference /\ kern.active.backendDone
    BY <1>0, <1>4 DEF HeldOpen, OpenRun, Inferring, Streaming
  <2>4. \A c \in Calls : PhaseOf(kern, c) \notin {"running", "waiting"}
    BY <1>0, <2>3, OneRuns
  <2>5. /\ HeldOpen(t) /\ t \in Transactions /\ SamePhases(kern, t) /\ AsksNothing(kern, t)
        /\ ~t.active.inference
    BY <1>0, <2>3, BetweenHeld
  <2> HIDE DEF t
  <2> QED
    BY <2>1, <2>2, <2>4, <2>5, EvaluateLives
<1> QED
  BY <1>1, <1>2, <1>3, <1>4 DEF Streaming

(***************************************************************************)
(* The updates of the tool worker.                                         *)
(***************************************************************************)
(* An open tool is the only call that executes or waits. *)
LEMMA OpenToolHeld ==
  ASSUME TypeOK, HeldHere, ForOpenTool, Update1.call \in Calls
  PROVE  /\ HeldOpen(kern) /\ kern.active.tool = Update1.call
         /\ Update1.call \in Range(kern.order) /\ kern.log[Update1.call].done = "no"
         /\ ~Decidable(kern.log[Update1.call])
         /\ \A d \in Calls : PhaseOf(kern, d) \in {"running", "waiting"} => d = Update1.call
<1>1. /\ OpenRun(kern) /\ kern.active.tool = Update1.call
      /\ Update1.call \in Range(kern.order) /\ ~Decidable(kern.log[Update1.call])
      /\ kern \in Transactions /\ Good(kern) /\ Held(kern)
  BY OpenToolIsOpen DEF HeldHere
<1>2. HeldOpen(kern)
  BY <1>1 DEF HeldOpen
<1>3. CallAgrees(kern, Update1.call)
  BY <1>1, <1>2, OpenCall
<1>4. kern.log[Update1.call].done = "no"
  BY <1>1, <1>3 DEF CallAgrees, ForOpenTool
<1>5. \A d \in Calls : PhaseOf(kern, d) \in {"running", "waiting"} => d = Update1.call
  BY <1>1, <1>2, OneRuns, KernelAssumption
<1> QED
  BY <1>1, <1>2, <1>4, <1>5

(* Its error, after which the run may fail. *)
LEMMA ToolErrorLives ==
  ASSUME TypeOK, HeldHere, ForOpenTool, Update1.call \in Calls
  PROVE  LET t == RecordToolError(kern, {Update1.call}) IN
         Lives(kern, t) /\ Lives(kern, FailOrDrop(t))
<1> DEFINE C == {Update1.call}
           t == RecordToolError(kern, C)
           f == FailLiveRun(t)
<1>1. /\ HeldOpen(kern) /\ C \in SUBSET Range(kern.order) /\ kern \in Transactions
      /\ \A c \in C : kern.log[c].done = "no" /\ ~Decidable(kern.log[c])
      /\ \A d \in Calls : PhaseOf(kern, d) \in {"running", "waiting"} => d \in C
      /\ C \in SUBSET Calls
  BY OpenToolHeld DEF HeldHere
<1> HIDE DEF C
<1>2. /\ Moved(kern, t, C, OpenPhases, "closed") /\ AsksNothing(kern, t)
      /\ Lives(kern, t) /\ HeldOpen(t)
  BY <1>1, ErrorHeld
<1>3. t \in Transactions
  BY <1>1, ToolErrorType
<1> HIDE DEF t
<1>4. \A d \in Calls : PhaseOf(t, d) \notin {"running", "waiting"}
  BY <1>1, <1>2 DEF Moved
<1>5. Held(f) /\ SamePhases(t, f) /\ AsksNothing(t, f)
  BY <1>2, <1>3, <1>4, FailHeld, FailLives DEF Ended, Lives
<1>6. FailOrDrop(t) = f
  BY <1>2 DEF FailOrDrop, HeldOpen, OpenRun
<1> HIDE DEF f
<1>7. Moved(kern, f, C, OpenPhases, "closed") /\ AsksNothing(kern, f)
  BY <1>2, <1>5 DEF Moved, SamePhases, AsksNothing
<1>8. Lives(kern, f)
  BY <1>1, <1>5, <1>7, ClosesLives DEF Lives
<1> QED
  BY <1>2, <1>6, <1>8 DEF t, C

(* No call waits when an update comes for a tool that is closed. *)
LEMMA ClosedToolIsQuiet ==
  ASSUME TypeOK, HeldHere, ForActiveTool, ~ForOpenTool, Update1.call \in Calls
  PROVE  \A c \in Calls : PhaseOf(kern, c) # "waiting"
<1>0. /\ kern \in Transactions /\ kern.active.live /\ kern.active.tool = Update1.call
      /\ kern.state[Update1.call] = "terminal"
  BY DEF HeldHere, ForActiveTool, ForOpenTool
<1>1. CASE kern.active.over
  BY <1>0, <1>1 DEF HeldHere, Kept, ActiveKept, RunIsOver, RunOver, PhaseOf, Waits
<1>2. CASE ~kern.active.over
  <2>1. HeldOpen(kern)
    BY <1>0, <1>2 DEF HeldHere, HeldOpen, OpenRun
  <2> QED
    BY <1>0, <2>1, OneRuns, PhaseByState, KernelAssumption
<1> QED
  BY <1>1, <1>2

(* ask_user publishes its question. *)
LEMMA AskLives ==
  ASSUME TypeOK, HeldHere, ForOpenTool, NEW c \in Calls, c = Update1.call, c \in AskUser,
         kern.state[c] = "running", AcceptsRunAwaitingInput(kern.proj),
         kern' = [kern EXCEPT !.proj = RunAwaitingInput(kern.proj), !.question = c,
                              !.state[c] = "awaiting_input"]
  PROVE  /\ Held(kern') /\ LifeStep(kern, kern')
         /\ \A x \in Calls \ {c} :
              kern'.state[x] = "awaiting_input" => kern.state[x] = "awaiting_input"
<1>0. kern \in Transactions /\ HeldOpen(kern) /\ kern.active.tool = c /\ c \in Range(kern.order)
      /\ kern.log[c].done = "no"
  BY OpenToolHeld DEF HeldHere
<1>1. /\ kern'.proj = RunAwaitingInput(kern.proj) /\ kern'.order = kern.order
      /\ kern'.log = kern.log /\ kern'.active = kern.active /\ kern'.question = c
      /\ \A x \in Calls : kern'.state[x] = IF x = c THEN "awaiting_input" ELSE kern.state[x]
  BY <1>0 DEF Transactions
<1>2. /\ kern'.proj.status = "awaiting_input"
      /\ kern.proj.status \in {"running", "awaiting_approval"} /\ RequireRunning(kern.proj)
  BY <1>0, <1>1 DEF RunAwaitingInput, AcceptsRunAwaitingInput, Transactions, Projections,
                    RequireRunning
<1>3. /\ LogHeld(kern) /\ AskingAgrees(kern) /\ Reserves(kern) /\ ~kern.active.inference
      /\ kern.active.live /\ ~kern.active.over
  BY <1>0, KernelAssumption DEF HeldOpen, Held, RunHeld, OpenRun, Kept, ActiveKept
<1>4. kern.log[c].started /\ \A x \in Calls : kern.state[x] = "running" => x = c
  BY <1>0, OpenCall DEF CallAgrees
<1>5. QuestionHeld(kern')
  BY <1>0, <1>1, <1>2, <1>4 DEF QuestionHeld
<1>6. ReservedHeld(kern')
  BY <1>1, <1>2, <1>3 DEF LogHeld, ReservedHeld
<1>7. AskingAgrees(kern')
  BY <1>0, <1>1, <1>2, <1>3, <1>4 DEF AskingAgrees, Waits
<1>8. Held(kern')
  BY <1>1, <1>3, <1>5, <1>6, <1>7 DEF Held, LogHeld, RunHeld, Reserves
<1>9. PhaseOf(kern, c) = "running" /\ PhaseOf(kern', c) = "waiting"
  BY <1>0, <1>1, <1>2, <1>4 DEF PhaseOf, Waits
<1>10. \A x \in Calls \ {c} : PhaseOf(kern', x) = PhaseOf(kern, x)
  BY <1>1, <1>2 DEF PhaseOf, Waits
<1>11. Moved(kern, kern', {c}, {"running"}, "waiting")
  BY <1>9, <1>10 DEF Moved
<1> QED
  BY <1>1, <1>8, <1>11 DEF LifeStep

(* Progress, questions and what goes wrong with them. *)
AsksHere(c) ==
  /\ c = Update1.call /\ Update1.k = "input" /\ ForOpenTool /\ c \in AskUser
  /\ \A x \in Calls \ {c} :
       kern'.state[x] = "awaiting_input" => kern.state[x] = "awaiting_input"

LEMMA ToolUpdateLives ==
  ASSUME TypeOK, HeldHere, Named, ProcessToolUpdate,
         Ask(Update1) => kern.state[Update1.call] # "awaiting_input"
  PROVE  /\ Held(kern') /\ LifeStep(kern, kern')
         /\ AsksNothing(kern, kern') \/ AsksHere(Update1.call)
<1>0. kern \in Transactions /\ Held(kern)
  BY DEF HeldHere
<1>1. Update1.call \in Calls /\ Update1.k \in ToolEvents
  BY UpdateIsNamed DEF ProcessToolUpdate, Processing, BackendUpdate, BackendEvents,
                       BackendFailures, ToolEvents
<1>2. CASE kern' = kern
  BY <1>0, <1>2, NothingLives DEF Lives
<1>3. CASE ForActiveTool /\ ~ForOpenTool /\ kern' = FailOrDrop(kern)
  BY <1>1, <1>3, ClosedToolIsQuiet, FailOrDropLives DEF Lives
<1>4. CASE ForOpenTool /\ kern' \in {RecordToolError(kern, {Update1.call}),
                                     FailOrDrop(RecordToolError(kern, {Update1.call}))}
  BY <1>1, <1>4, ToolErrorLives DEF Lives
<1>5. CASE /\ ForOpenTool /\ kern.state[Update1.call] = "running"
           /\ Update1.k = "input" /\ Update1.call \in AskUser
           /\ AcceptsRunAwaitingInput(kern.proj)
           /\ kern' = [kern EXCEPT !.proj = RunAwaitingInput(kern.proj),
                                   !.question = Update1.call,
                                   !.state[Update1.call] = "awaiting_input"]
  <2> DEFINE c == Update1.call
  <2>1. /\ c \in Calls /\ c = Update1.call /\ c \in AskUser /\ kern.state[c] = "running"
        /\ AcceptsRunAwaitingInput(kern.proj)
        /\ kern' = [kern EXCEPT !.proj = RunAwaitingInput(kern.proj), !.question = c,
                                !.state[c] = "awaiting_input"]
        /\ ForOpenTool /\ Update1.k = "input"
    BY <1>1, <1>5
  <2> HIDE DEF c
  <2>2. /\ Held(kern') /\ LifeStep(kern, kern')
        /\ \A x \in Calls \ {c} :
             kern'.state[x] = "awaiting_input" => kern.state[x] = "awaiting_input"
    BY <2>1, AskLives
  <2> QED
    BY <2>1, <2>2 DEF AsksHere
<1>6. CASE ForOpenTool /\ kern' = FailOrDrop(kern)
  <2>1. /\ HeldOpen(kern) /\ kern.active.tool = Update1.call
        /\ \A d \in Calls : PhaseOf(kern, d) \in {"running", "waiting"} => d = Update1.call
    BY <1>1, <1>6, OpenToolHeld
  <2>2. ASSUME NEW d \in Calls, PhaseOf(kern, d) = "waiting"
        PROVE  FALSE
    <3>1. d = Update1.call /\ kern.state[d] = "awaiting_input"
      BY <1>0, <2>1, <2>2, PhaseByState
    <3>2. d \in AskUser
      BY <1>0, <2>2 DEF PhaseOf, Waits, Held, LogHeld, QuestionHeld
    <3> QED
      BY <1>1, <3>1, <3>2 DEF Ask
  <2> QED
    BY <1>6, <2>2, FailOrDropLives DEF Lives
<1> QED
  BY <1>2, <1>3, <1>4, <1>5, <1>6 DEF ProcessToolUpdate

(* The result of the running tool. *)
LEMMA ToolResultLives ==
  ASSUME TypeOK, HeldHere, Named, ProcessToolResult
  PROVE  Lives(kern, kern')
<1>0. kern \in Transactions /\ Held(kern)
  BY DEF HeldHere
<1>1. Update1.call \in Calls
  BY UpdateIsNamed DEF ProcessToolResult, Processing, BackendUpdate, BackendEvents,
                       BackendFailures
<1>2. CASE ~ForOpenTool
  <2>1. kern' = kern \/ (ForActiveTool /\ kern' = FailOrDrop(kern))
    BY <1>2 DEF ProcessToolResult
  <2> QED
    BY <1>0, <1>1, <1>2, <2>1, NothingLives, ClosedToolIsQuiet, FailOrDropLives
<1>3. CASE ForOpenTool
  <2> DEFINE c == Update1.call
  <2>1. PICK d \in Dispositions(c) : kern' = RecordToolResult(kern, c, d)
    BY <1>3 DEF ProcessToolResult
  <2>2. /\ HeldOpen(kern) /\ {c} \in SUBSET Range(kern.order) /\ kern.log[c].done = "no"
        /\ c \in Calls
    BY <1>1, <1>3, OpenToolHeld
  <2> HIDE DEF c
  <2> DEFINE r == [kern.log[c] EXCEPT !.spend = d, !.done = "result"]
  <2>3. /\ kern'.proj = kern.proj /\ kern'.order = kern.order /\ kern'.active = kern.active
        /\ kern'.question = kern.question
        /\ \A x \in Calls : /\ kern'.log[x] = IF x = c THEN r ELSE kern.log[x]
                            /\ kern'.state[x] = IF x = c THEN "terminal" ELSE kern.state[x]
    BY <1>0, <2>1, <2>2 DEF RecordToolResult, Transactions
  <2>4. d # "reserved"
    BY DEF Dispositions
  <2>5. r.done # "no" /\ r.started = kern.log[c].started /\ r.spend # "reserved"
    BY <1>0, <2>2, <2>4 DEF Transactions, CallFacts
  <2> HIDE DEF r
  <2>6. \A x \in Calls : IF x \in {c} THEN /\ kern'.state[x] = "terminal"
                                           /\ kern'.log[x].done # "no"
                                           /\ kern'.log[x].started = kern.log[x].started
                                           /\ kern'.log[x].spend # "reserved"
                         ELSE kern'.state[x] = kern.state[x] /\ kern'.log[x] = kern.log[x]
    BY <2>3, <2>5
  <2>7. \A x \in {c} : kern.log[x].done = "no"
    BY <2>2
  <2>8. Held(kern') /\ Moved(kern, kern', {c}, OpenPhases, "closed")
    BY <1>0, <2>2, <2>3, <2>6, <2>7, ClosedHeld
  <2>9. AsksNothing(kern, kern') /\ {c} \in SUBSET Calls
    BY <2>2, <2>3 DEF AsksNothing
  <2> QED
    BY <1>0, <2>8, <2>9, ClosesLives DEF Lives
<1> QED
  BY <1>2, <1>3

(* Its failure, with a disposition of the spend. *)
DisposedAs(u, c, d) ==
  \A x \in Calls :
    /\ u.state[x] = IF x = c THEN "terminal" ELSE kern.state[x]
    /\ u.log[x] = IF x = c THEN [Reconciled([kern.log[c] EXCEPT !.spend = d])
                                  EXCEPT !.done = "error"]
                  ELSE kern.log[x]

LEMMA DisposedLives ==
  ASSUME kern \in Transactions, HeldOpen(kern), NEW c \in Range(kern.order),
         kern.log[c].done = "no", NEW u,
         u.proj = kern.proj, u.order = kern.order, u.question = kern.question,
         u.active.live = kern.active.live, u.active.over = kern.active.over,
         u.active.inference = kern.active.inference,
         u.active.tool = kern.active.tool \/ (u.active.tool = None /\ kern.active.tool = c),
         NEW d, DisposedAs(u, c, d)
  PROVE  Lives(kern, u)
<1> DEFINE r == [kern.log[c] EXCEPT !.spend = d]
           e == [Reconciled(r) EXCEPT !.done = "error"]
<1>1. c \in Calls /\ kern.log[c] \in CallFacts
  BY OrderType DEF Transactions
<1>2. e.done # "no" /\ e.started = kern.log[c].started /\ e.spend # "reserved"
  BY <1>1 DEF Reconciled, CallFacts
<1>3. \A x \in Calls : /\ u.state[x] = IF x = c THEN "terminal" ELSE kern.state[x]
                       /\ u.log[x] = IF x = c THEN e ELSE kern.log[x]
  BY DEF DisposedAs
<1> HIDE DEF e
<1>4. \A x \in Calls : IF x \in {c} THEN /\ u.state[x] = "terminal"
                                         /\ u.log[x].done # "no"
                                         /\ u.log[x].started = kern.log[x].started
                                         /\ u.log[x].spend # "reserved"
                       ELSE u.state[x] = kern.state[x] /\ u.log[x] = kern.log[x]
  BY <1>2, <1>3
<1>5. /\ {c} \in SUBSET Range(kern.order) /\ \A x \in {c} : kern.log[x].done = "no"
      /\ u.active.tool = kern.active.tool \/ (u.active.tool = None /\ kern.active.tool \in {c})
  OBVIOUS
<1>6. Held(u) /\ Moved(kern, u, {c}, OpenPhases, "closed")
  BY ONLY <1>4, <1>5, ClosedHeld, kern \in Transactions, HeldOpen(kern),
          u.proj = kern.proj, u.order = kern.order, u.question = kern.question,
          u.active.live = kern.active.live, u.active.over = kern.active.over,
          u.active.inference = kern.active.inference
<1>7. AsksNothing(kern, u) /\ {c} \in SUBSET Calls
  BY <1>1, <1>3 DEF AsksNothing
<1> QED
  BY <1>6, <1>7, ClosesLives DEF Lives

LEMMA ToolFailureLives ==
  ASSUME TypeOK, HeldHere, Named, ProcessToolFailure
  PROVE  Lives(kern, kern')
<1>0. kern \in Transactions /\ Held(kern)
  BY DEF HeldHere
<1>1. Update1.call \in Calls
  BY UpdateIsNamed DEF ProcessToolFailure, Processing, BackendUpdate, BackendEvents,
                       BackendFailures
<1>2. CASE kern' = kern
  BY <1>0, <1>2, NothingLives
<1>3. CASE ForOpenTool /\ kern' = FailOrDrop(RecordToolError(kern, {Update1.call}))
  BY <1>1, <1>3, ToolErrorLives
<1>4. ASSUME ForOpenTool, NEW d \in Dispositions(Update1.call),
             kern' = RecordToolError([kern EXCEPT !.log[Update1.call].spend = d],
                                     {Update1.call})
      PROVE  Lives(kern, kern')
  <2> DEFINE c == Update1.call
             t == [kern EXCEPT !.log[c].spend = d]
  <2>1. /\ HeldOpen(kern) /\ c \in Range(kern.order) /\ kern.log[c].done = "no" /\ c \in Calls
        /\ kern' = RecordToolError(t, {c})
    BY <1>1, <1>4, OpenToolHeld
  <2>2. t \in Transactions
    BY <1>0, <1>4, DispositionType
  <2> HIDE DEF c
  <2>3. /\ t.proj = kern.proj /\ t.order = kern.order /\ t.active = kern.active
        /\ t.question = kern.question /\ t.state = kern.state
        /\ t.log[c] = [kern.log[c] EXCEPT !.spend = d]
        /\ \A x \in Calls \ {c} : t.log[x] = kern.log[x]
    BY <1>0, <2>1 DEF Transactions
  <2> HIDE DEF t
  <2>4. /\ kern'.proj = t.proj /\ kern'.order = t.order /\ kern'.active = t.active
        /\ kern'.question = t.question
        /\ \A x \in Calls :
             /\ kern'.state[x] = IF x = c THEN "terminal" ELSE t.state[x]
             /\ kern'.log[x] = IF x = c THEN [Reconciled(t.log[c]) EXCEPT !.done = "error"]
                               ELSE t.log[x]
    BY <2>1, <2>2 DEF RecordToolError, Transactions
  <2>5. \A x \in Calls :
           /\ kern'.state[x] = IF x = c THEN "terminal" ELSE kern.state[x]
           /\ kern'.log[x] = IF x = c THEN [Reconciled([kern.log[c] EXCEPT !.spend = d])
                                          EXCEPT !.done = "error"]
                             ELSE kern.log[x]
    BY <2>3, <2>4
  <2>6. DisposedAs(kern', c, d)
    BY <2>5 DEF DisposedAs
  <2>7. /\ kern'.proj = kern.proj /\ kern'.order = kern.order
        /\ kern'.question = kern.question /\ kern'.active = kern.active
    BY <2>3, <2>4
  <2> QED
    BY <1>0, <2>1, <2>6, <2>7, DisposedLives
<1> QED
  BY <1>2, <1>3, <1>4 DEF ProcessToolFailure

(* The deadline of the running tool. *)
LEMMA DeadlineLives ==
  ASSUME TypeOK, HeldHere, Named, ProcessDeadline
  PROVE  Lives(kern, kern')
<1>1. Update1.call \in Calls
  BY UpdateIsNamed DEF ProcessDeadline, Processing, BackendUpdate, BackendEvents,
                       BackendFailures
<1>2. Lives(kern, kern)
  BY NothingLives DEF HeldHere
<1> QED
  BY <1>1, <1>2, ToolErrorLives DEF ProcessDeadline

(* process_tool_end. *)
LEMMA ToolEndedLives ==
  ASSUME TypeOK, HeldHere, Named, ProcessToolEnded
  PROVE  Lives(kern, kern')
<1>0. kern \in Transactions /\ Held(kern) /\ Kept(kern)
  BY DEF HeldHere
<1>1. Update1.call \in Calls
  BY UpdateIsNamed DEF ProcessToolEnded, Processing, BackendUpdate, BackendEvents,
                       BackendFailures
<1> DEFINE c == Update1.call
           t == IF kern.state[c] \in {"terminal", "awaiting_input"} THEN kern
                ELSE RecordToolError(kern, {c})
           u == [t EXCEPT !.active.tool = None]
<1>2. CASE ~ForActiveTool
  BY <1>0, <1>2, NothingLives DEF ProcessToolEnded
<1>3. CASE ForActiveTool
  <2>1. kern' = IF u.active.over THEN ResetActive(u) ELSE u
    BY <1>3 DEF ProcessToolEnded
  <2>2. t \in Transactions /\ t.active = kern.active /\ kern.active.live /\ kern.active.tool = c
    <3>1. RecordToolError(kern, {c}) \in Transactions
      BY <1>0, ToolErrorType
    <3>2. RecordToolError(kern, {c}).active = kern.active
      BY <1>0 DEF RecordToolError, Transactions
    <3> QED
      BY <1>0, <1>3, <3>1, <3>2 DEF ForActiveTool
  <2>3. /\ u.proj = t.proj /\ u.order = t.order /\ u.log = t.log /\ u.state = t.state
        /\ u.question = t.question /\ u \in Transactions
        /\ u.active.live = kern.active.live /\ u.active.over = kern.active.over
        /\ u.active.inference = kern.active.inference /\ u.active.tool = None
    <3> HIDE DEF t
    <3> QED
      BY <2>2 DEF Transactions, ActiveRuns
  <2>4. CASE kern.active.over
    <3>1. kern.state[c] = "terminal" /\ kern.proj.status \in RunOver
      BY <1>0, <1>1, <2>2, <2>4 DEF Kept, ActiveKept, RunIsOver
    <3>2. t = kern
      BY <3>1
    <3> HIDE DEF t, u, c
    <3>3. LogHeld(u) /\ RunHeld(u) /\ SamePhases(kern, u)
      <4>1. LogHeld(u)
        BY <1>0, <2>3, <3>2 DEF Held, LogHeld, QuestionHeld, ReservedHeld
      <4>2. RunHeld(u)
        BY <1>0, <2>2, <2>3, <2>4, <3>2 DEF Held, RunHeld, Reserves
      <4> QED
        BY <2>3, <3>2, <4>1, <4>2 DEF SamePhases, PhaseOf, Waits
    <3>4. kern' = ResetActive(u) /\ u.active.live /\ u.active.over /\ u.proj.status \in RunOver
      BY <2>1, <2>2, <2>3, <2>4, <3>1, <3>2
    <3>5. Held(kern') /\ SamePhases(u, kern') /\ AsksNothing(u, kern')
      BY <2>3, <3>3, <3>4, ResetHeld DEF Held
    <3>6. SamePhases(kern, kern') /\ AsksNothing(kern, kern')
      BY <2>3, <3>2, <3>3, <3>5 DEF SamePhases, AsksNothing
    <3> QED
      BY <3>5, <3>6 DEF Lives, LifeStep
  <2>5. CASE ~kern.active.over /\ kern.state[c] \in {"terminal", "awaiting_input"}
    <3>1. t = kern /\ kern' = u
      BY <2>1, <2>3, <2>5
    <3>2. HeldOpen(kern) /\ kern.state[c] # "running"
      BY <2>2, <2>5 DEF HeldOpen, HeldHere, OpenRun
    <3> HIDE DEF t, u, c
    <3>3. LogHeld(kern')
      BY <1>0, <2>3, <3>1 DEF Held, LogHeld, QuestionHeld, ReservedHeld
    <3>4. AskingAgrees(kern')
      <4>1. AskingAgrees(kern)
        BY <3>2 DEF HeldOpen, Held, RunHeld, OpenRun
      <4> QED
        BY <2>3, <3>1, <4>1 DEF AskingAgrees, Waits
    <3>5. \A x \in Calls : kern.log[x].spend # "reserved"
      <4>1. ASSUME NEW x \in Calls, kern.log[x].spend = "reserved"
            PROVE  FALSE
        <5>1. x = c /\ x \in Paid /\ kern.log[x].done = "no"
          BY <1>0, <2>2, <4>1 DEF Held, RunHeld, Reserves, LogHeld, ReservedHeld
        <5>2. CallAgrees(kern, x) /\ (kern.state[x] = "awaiting_input" => Waits(kern, x))
          BY <1>0, <3>2, OpenCall
        <5>3. kern.question = x
          BY <2>5, <5>1, <5>2 DEF CallAgrees, Waits
        <5>4. x \in AskUser
          BY <1>0, <5>3 DEF Held, LogHeld, QuestionHeld
        <5> QED
          BY <5>1, <5>4, KernelAssumption
      <4> QED
        BY <4>1
    <3>6. RunHeld(kern')
      BY <1>0, <2>2, <2>3, <2>5, <3>1, <3>4, <3>5 DEF Held, RunHeld, Reserves
    <3>7. SamePhases(kern, kern') /\ AsksNothing(kern, kern')
      BY <2>3, <3>1 DEF SamePhases, PhaseOf, Waits, AsksNothing
    <3> QED
      BY <3>3, <3>6, <3>7 DEF Lives, LifeStep, Held
  <2>6. CASE ~kern.active.over /\ kern.state[c] \notin {"terminal", "awaiting_input"}
    <3>1. t = RecordToolError(kern, {c}) /\ kern' = u /\ ForOpenTool
      BY <1>3, <2>1, <2>3, <2>6 DEF ForOpenTool
    <3>2. /\ HeldOpen(kern) /\ c \in Range(kern.order) /\ kern.log[c].done = "no" /\ c \in Calls
      BY <1>1, <3>1, OpenToolHeld
    <3> HIDE DEF t, u, c
    <3> DEFINE e == [Reconciled(kern.log[c]) EXCEPT !.done = "error"]
    <3>3. /\ t.proj = kern.proj /\ t.order = kern.order /\ t.question = kern.question
          /\ \A x \in Calls :
               /\ t.state[x] = IF x = c THEN "terminal" ELSE kern.state[x]
               /\ t.log[x] = IF x = c THEN e ELSE kern.log[x]
      BY <1>0, <3>1 DEF RecordToolError, Transactions
    <3>4. e.done # "no" /\ e.started = kern.log[c].started /\ e.spend # "reserved"
      BY <1>0, <3>2 DEF Reconciled, Transactions, CallFacts
    <3> HIDE DEF e
    <3>5. \A x \in Calls : IF x \in {c} THEN /\ kern'.state[x] = "terminal"
                                             /\ kern'.log[x].done # "no"
                                             /\ kern'.log[x].started = kern.log[x].started
                                             /\ kern'.log[x].spend # "reserved"
                           ELSE kern'.state[x] = kern.state[x] /\ kern'.log[x] = kern.log[x]
      BY <2>3, <3>1, <3>3, <3>4
    <3>6. /\ {c} \in SUBSET Range(kern.order) /\ \A x \in {c} : kern.log[x].done = "no"
          /\ kern'.active.tool = kern.active.tool
             \/ (kern'.active.tool = None /\ kern.active.tool \in {c})
          /\ kern'.proj = kern.proj /\ kern'.order = kern.order
          /\ kern'.question = kern.question
          /\ kern'.active.live = kern.active.live /\ kern'.active.over = kern.active.over
          /\ kern'.active.inference = kern.active.inference
      BY <2>2, <2>3, <3>1, <3>2, <3>3
    <3>7. Held(kern') /\ Moved(kern, kern', {c}, OpenPhases, "closed")
      BY <1>0, <3>2, <3>5, <3>6, ClosedHeld
    <3>8. AsksNothing(kern, kern') /\ {c} \in SUBSET Calls
      BY <3>2, <3>5 DEF AsksNothing
    <3> QED
      BY <1>0, <3>7, <3>8, ClosesLives DEF Lives
  <2> QED
    BY <2>4, <2>5, <2>6
<1> QED
  BY <1>2, <1>3

(***************************************************************************)
(* Launching.                                                              *)
(***************************************************************************)
(* What is launched is allowed, and nothing executes or waits then. *)
LEMMA ReadyIsAlone ==
  ASSUME HeldHere, NEW c, c = ReadyTool(kern), c # None
  PROVE  /\ HeldOpen(kern) /\ c \in Range(kern.order) /\ c \in Calls
         /\ kern.state[c] = "allowed" /\ kern.log[c].done = "no" /\ ~kern.log[c].started
         /\ ~kern.active.inference /\ kern.active.tool = None
         /\ \A d \in Calls : PhaseOf(kern, d) \notin {"running", "waiting"}
<1>0. /\ kern \in Transactions /\ c \in Calls /\ c \in Range(kern.order)
      /\ kern.state[c] = "allowed" /\ ~kern.active.inference
      /\ HeldOpen(kern)
  BY ReadyToolIsFirst, ReadyToolIsAllowed DEF HeldHere, HeldOpen, OpenRun
<1>1. kern.active.tool = None
  BY DEF ReadyTool
<1>2. CallAgrees(kern, c) /\ FactsAgree(kern.log[c], kern.state[c])
  BY <1>0, OpenCall
<1>3. kern.log[c].done = "no" /\ ~kern.log[c].started
  BY <1>0, <1>2 DEF CallAgrees, FactsAgree
<1>4. OrderKept(kern) /\ kern.order \in Seq(Calls)
  BY <1>0, OrderType DEF HeldHere, Kept, LogKept, BatchKept
<1>5. ASSUME NEW d \in Calls, PhaseOf(kern, d) = "waiting"
      PROVE  FALSE
  <2>1. d \in Range(kern.order) /\ kern.state[d] = "awaiting_input"
    BY <1>0, <1>5, OneRuns, PhaseByState
  <2>2. kern.log[d].started
    BY <1>5 DEF PhaseOf
  <2>3. PICK i \in DOMAIN kern.order : kern.order[i] = d
    BY <2>1 DEF Range
  <2>4. PICK j \in DOMAIN kern.order : kern.order[j] = c
    BY <1>0 DEF Range
  <2>5. i # j /\ i \in Nat /\ j \in Nat
    BY <1>0, <1>4, <2>1, <2>3, <2>4
  <2>6. ~(i < j)
    BY <1>0, <1>4, <2>1, <2>3, <2>4, ReadyToolIsFirst
  <2>7. ~(j < i)
    BY <1>3, <1>4, <2>2, <2>3, <2>4 DEF OrderKept
  <2> QED
    BY <2>5, <2>6, <2>7
<1>6. \A d \in Calls : PhaseOf(kern, d) # "running"
  BY <1>0, <1>1, OneRuns, KernelAssumption
<1> QED
  BY <1>0, <1>1, <1>3, <1>5, <1>6

(* ToolStarted. *)
LEMMA LaunchedLives ==
  ASSUME HeldHere, NEW c, c = ReadyTool(kern), c # None
  PROVE  Lives(kern, Launched(kern, c))
<1> DEFINE u == Launched(kern, c)
           g == [kern.log[c] EXCEPT !.started = TRUE,
                   !.spend = IF c \in Paid THEN "reserved" ELSE kern.log[c].spend]
<1>0. /\ HeldOpen(kern) /\ c \in Range(kern.order) /\ c \in Calls /\ kern \in Transactions
      /\ kern.state[c] = "allowed" /\ kern.log[c].done = "no" /\ ~kern.log[c].started
      /\ ~kern.active.inference /\ kern.active.tool = None
      /\ \A d \in Calls : PhaseOf(kern, d) \notin {"running", "waiting"}
  BY ReadyIsAlone DEF HeldHere
<1>1. /\ u.proj = kern.proj /\ u.order = kern.order /\ u.question = kern.question
      /\ u.active = [kern.active EXCEPT !.tool = c]
      /\ \A x \in Calls : /\ u.state[x] = IF x = c THEN "running" ELSE kern.state[x]
                          /\ u.log[x] = IF x = c THEN g ELSE kern.log[x]
  BY <1>0 DEF Launched, Transactions
<1>2. /\ u.active.live = kern.active.live /\ u.active.over = kern.active.over
      /\ u.active.inference = kern.active.inference /\ u.active.tool = c
  BY <1>0, <1>1 DEF Transactions, ActiveRuns
<1>3. /\ g.started /\ g.done = "no"
      /\ g.spend = IF c \in Paid THEN "reserved" ELSE kern.log[c].spend
  BY <1>0 DEF Transactions, CallFacts
<1> HIDE DEF u, g
<1>4. LogHeld(kern) /\ AskingAgrees(kern) /\ Reserves(kern) /\ kern.active.live
      /\ ~kern.active.over /\ Range(kern.order) \subseteq Calls
  BY <1>0, OrderType DEF HeldOpen, Held, RunHeld, OpenRun
<1>5. kern.question # c
  BY <1>0, <1>4 DEF LogHeld, QuestionHeld
<1>6. \A x \in Calls : kern.log[x].spend # "reserved"
  BY <1>0, <1>4, KernelAssumption DEF Reserves
<1>7. QuestionHeld(u)
  BY <1>1, <1>4, <1>5 DEF LogHeld, QuestionHeld
<1>8. ReservedHeld(u)
  BY <1>0, <1>1, <1>3, <1>6 DEF ReservedHeld
<1>9. \A x \in Calls : kern.state[x] \notin {"running", "awaiting_input"}
  BY <1>0, PhaseByState
<1>10. AskingAgrees(u)
  BY <1>1, <1>5, <1>9 DEF AskingAgrees
<1>11. Reserves(u)
  BY <1>1, <1>2, <1>4, <1>6 DEF Reserves
<1>12. Held(u)
  BY <1>0, <1>2, <1>4, <1>7, <1>8, <1>10, <1>11 DEF Held, LogHeld, RunHeld
<1>13. PhaseOf(kern, c) = "authorised"
  BY <1>0, PhaseByState
<1>14. PhaseOf(u, c) = "running"
  BY <1>0, <1>1, <1>3, <1>5 DEF PhaseOf, Waits
<1>15. \A x \in Calls \ {c} : PhaseOf(u, x) = PhaseOf(kern, x)
  BY <1>1 DEF PhaseOf, Waits
<1>16. Runs(kern, u, c)
  BY <1>0, <1>13, <1>14, <1>15 DEF Runs, Moved
<1>17. AsksNothing(kern, u)
  BY <1>1 DEF AsksNothing
<1>18. Lives(kern, u)
  BY <1>0, <1>12, <1>16, <1>17 DEF Lives, LifeStep
<1> QED
  BY <1>18 DEF u

LEMMA LaunchLives ==
  ASSUME HeldHere, LaunchNextTool
  PROVE  Lives(kern, kern')
<1> DEFINE c == ReadyTool(kern)
<1>1. CASE kern' = kern
  BY <1>1, NothingLives DEF HeldHere
<1>2. CASE c # None /\ kern' = RecordToolError(kern, {c})
  <2>1. /\ HeldOpen(kern) /\ {c} \in SUBSET Range(kern.order) /\ kern \in Transactions
        /\ \A x \in {c} : kern.log[x].done = "no"
    BY <1>2, ReadyIsAlone DEF HeldHere
  <2> HIDE DEF c
  <2> QED
    BY <1>2, <2>1, ErrorHeld
<1>3. CASE c # None /\ kern' = Launched(kern, c)
  BY <1>3, LaunchedLives
<1> QED
  BY <1>1, <1>2, <1>3, KernelAssumption DEF LaunchNextTool

(* The executor's thread could not be created. *)
LEMMA SpawnFailedLives ==
  ASSUME TypeOK, HeldHere, OwnerKept, SpawnToolFails
  PROVE  Lives(kern, kern')
<1> DEFINE c == kern.active.tool
           d == IF kern.log[c].spend = "reserved" THEN "released" ELSE kern.log[c].spend
           v == [kern EXCEPT !.log[c].spend = d, !.active.tool = None]
<1>1. /\ kern \in Transactions /\ HeldOpen(kern) /\ c \in Calls
      /\ kern.state[c] = "running" /\ kern' = RecordToolError(v, {c})
  BY DEF HeldHere, HeldOpen, OwnerKept, SpawnToolFails, OpenRun
<1> HIDE DEF c, d
<1>2. c \in Range(kern.order) /\ kern.log[c].done = "no"
  BY <1>1, OpenCall DEF CallAgrees
<1>3. /\ v.proj = kern.proj /\ v.order = kern.order /\ v.question = kern.question
      /\ v.state = kern.state /\ v.active = [kern.active EXCEPT !.tool = None]
      /\ v.log[c] = [kern.log[c] EXCEPT !.spend = d]
      /\ \A x \in Calls \ {c} : v.log[x] = kern.log[x]
  BY <1>1 DEF Transactions
<1>4. /\ v.active.live = kern.active.live /\ v.active.over = kern.active.over
      /\ v.active.inference = kern.active.inference /\ v.active.tool = None
  BY <1>1, <1>3 DEF Transactions, ActiveRuns
<1>5. /\ kern'.proj = v.proj /\ kern'.order = v.order /\ kern'.question = v.question
      /\ kern'.active = v.active
      /\ \A x \in Calls :
           /\ kern'.state[x] = IF x = c THEN "terminal" ELSE v.state[x]
           /\ kern'.log[x] = IF x = c THEN [Reconciled(v.log[c]) EXCEPT !.done = "error"]
                             ELSE v.log[x]
  BY <1>1 DEF RecordToolError, Transactions
<1> HIDE DEF v
<1>6. DisposedAs(kern', c, d)
  BY <1>3, <1>5 DEF DisposedAs
<1>7. /\ kern'.proj = kern.proj /\ kern'.order = kern.order
      /\ kern'.question = kern.question
      /\ kern'.active.live = kern.active.live /\ kern'.active.over = kern.active.over
      /\ kern'.active.inference = kern.active.inference /\ kern'.active.tool = None
  BY <1>3, <1>4, <1>5
<1>8. kern.active.tool = c
  BY DEF c
<1> QED
  BY <1>1, <1>2, <1>6, <1>7, <1>8, DisposedLives

(* The backend's thread could not be created. *)
LEMMA BackendFailedLives ==
  ASSUME HeldHere, OwnerKept, SpawnBackendFails
  PROVE  Lives(kern, kern')
<1>1. /\ HeldOpen(kern) /\ kern.active.inference /\ kern \in Transactions
      /\ kern' = FailLiveRun(kern)
  BY DEF HeldHere, HeldOpen, OwnerKept, SpawnBackendFails, OpenRun
<1>2. \A c \in Calls : PhaseOf(kern, c) # "waiting"
  BY <1>1, OneRuns
<1> QED
  BY <1>1, <1>2, FailLives

(* drain() goes on to launch. *)
LEMMA DrainLaunchLives ==
  ASSUME HeldHere, DrainLaunch
  PROVE  Lives(kern, kern')
<1>0. kern \in Transactions /\ Held(kern)
  BY DEF HeldHere
<1>1. /\ kern'.proj = kern.proj /\ kern'.order = kern.order /\ kern'.log = kern.log
      /\ kern'.state = kern.state /\ kern'.question = kern.question
      /\ kern'.active = [kern.active EXCEPT !.recovered = FALSE]
  BY <1>0 DEF Transactions, DrainLaunch
<1>2. /\ kern'.active.live = kern.active.live /\ kern'.active.over = kern.active.over
      /\ kern'.active.inference = kern.active.inference
      /\ kern'.active.tool = kern.active.tool
  BY <1>0, <1>1 DEF Transactions, ActiveRuns
<1> QED
  BY <1>0, <1>1, <1>2, FlagLives

(***************************************************************************)
(* Calls of the surface.                                                   *)
(***************************************************************************)
(* An inference begins when nothing executes or waits. *)
LEMMA BeginLives ==
  ASSUME kern \in Transactions, NEW t \in Transactions, t.log = kern.log,
         t.proj.status = "running", t.active.live, t.question \in Calls => LogHeld(kern),
         t.question \in {kern.question, None},
         \A c \in Calls : /\ kern.log[c].spend # "reserved"
                          /\ PhaseOf(kern, c) \notin {"running", "waiting"}
  PROVE  Lives(kern, BeginInference(t))
<1> DEFINE u == BeginInference(t)
<1>1. /\ u.proj = InferenceStarted(t.proj) /\ u.order = <<>> /\ u.log = kern.log
      /\ u.state = NoInvocations /\ u.question = t.question
      /\ u.active = [t.active EXCEPT !.inference = TRUE, !.cancelRequested = FALSE]
  BY DEF BeginInference, Transactions
<1>2. u.proj.status = "running" /\ u.active.live
  BY <1>1 DEF InferenceStarted, Transactions, Projections, ActiveRuns
<1>3. Range(u.order) = {} /\ \A c \in Calls : u.state[c] = "absent"
  BY <1>1, EmptyRange DEF NoInvocations
<1> HIDE DEF u
<1>4. QuestionHeld(u)
  BY <1>1, <1>2, <1>3, KernelAssumption DEF LogHeld, QuestionHeld
<1>5. Held(u)
  BY <1>1, <1>2, <1>3, <1>4 DEF Held, LogHeld, ReservedHeld, RunHeld, AskingAgrees, Reserves
<1>6. SamePhases(kern, u)
  <2>1. ASSUME NEW c \in Calls
        PROVE  PhaseOf(u, c) = PhaseOf(kern, c)
    <3>1. u.log[c] = kern.log[c] /\ ~Waits(u, c) /\ u.state[c] # "running"
      BY <1>1, <1>2, <1>3 DEF Waits
    <3> QED
      BY <3>1 DEF PhaseOf
  <2> QED
    BY <2>1 DEF SamePhases
<1>7. Lives(kern, u)
  BY <1>3, <1>5, <1>6 DEF Lives, LifeStep, AsksNothing
<1> QED
  BY <1>7 DEF u

LEMMA StartLives ==
  ASSUME HeldHere, Start
  PROVE  Lives(kern, kern')
<1> DEFINE t == [kern EXCEPT !.proj = RunStarted, !.question = None,
                             !.active = [NoActive EXCEPT !.live = TRUE]]
<1>1. kern \in Transactions /\ kern' = BeginInference(t) /\ t \in Transactions
      /\ ~kern.active.live /\ Held(kern)
  BY StartedType DEF HeldHere, Start
<1>2. /\ t.proj = RunStarted /\ t.log = kern.log /\ t.question = None
      /\ t.active = [NoActive EXCEPT !.live = TRUE]
  BY <1>1 DEF Transactions
<1> HIDE DEF t
<1>3. t.active.live /\ t.proj.status = "running"
  BY <1>2 DEF NoActive, RunStarted, NotStarted
<1>4. \A c \in Calls : kern.state[c] = "absent"
  BY <1>1 DEF HeldHere, Kept, ActiveKept, Stopped, NoInvocations
<1>5. \A c \in Calls : /\ kern.log[c].spend # "reserved"
                       /\ PhaseOf(kern, c) \notin {"running", "waiting"}
  BY <1>1, <1>4 DEF Held, RunHeld, Reserves, PhaseOf, Waits
<1> QED
  BY <1>1, <1>2, <1>3, <1>5, KernelAssumption, BeginLives

LEMMA ContinueLives ==
  ASSUME HeldHere, ContinueRun
  PROVE  Lives(kern, kern')
<1>1. /\ kern \in Transactions /\ Continuable /\ kern' = BeginInference(kern)
      /\ kern.proj.status = "running" /\ Held(kern) /\ kern.active.tool = None
  BY DEF HeldHere, ContinueRun, AcceptsInferenceStarted, Continuable
<1>2. HeldOpen(kern) /\ \A c \in Range(kern.order) : kern.log[c].done # "no"
  BY <1>1, ClosedBatch DEF HeldHere, HeldOpen
<1>3. \A c \in Calls : /\ kern.log[c].spend # "reserved"
                       /\ PhaseOf(kern, c) \notin {"running", "waiting"}
  BY <1>1, <1>2, OneRuns, KernelAssumption DEF Held, RunHeld, Reserves, PhaseOf, Waits
<1>4. kern.active.live /\ LogHeld(kern)
  BY <1>1, <1>2 DEF HeldOpen, OpenRun, Held
<1> QED
  BY <1>1, <1>3, <1>4, BeginLives

(* cancel_run closes what is open, and ends the run or asks the backend to. *)
LEMMA CancelLives ==
  ASSUME HeldHere, CancelRun
  PROVE  Lives(kern, kern')
<1> DEFINE requested == [kern EXCEPT !.active.cancelRequested = TRUE]
           open == {kern.order[i] : i \in Open(kern)}
           ended == [RecordToolError(requested, open) EXCEPT
                       !.proj = RunEnded(kern.proj, "cancelled"),
                       !.active = [requested.active EXCEPT !.over = TRUE]]
           e == RecordToolError(kern, open)
<1>0. kern \in Transactions /\ HeldOpen(kern) /\ Held(kern)
  BY DEF HeldHere, HeldOpen, CancelRun, OpenRun
<1>1. kern' = IF kern.active.inference THEN requested
              ELSE IF kern.active.tool = None THEN ResetActive(ended) ELSE ended
  BY DEF CancelRun
<1>2. open \subseteq Range(kern.order) /\ Range(kern.order) \subseteq Calls
      /\ \A c \in Range(kern.order) : c \in open <=> kern.state[c] # "terminal"
  BY <1>0, OrderType DEF Open, Range
<1>3. /\ requested.proj = kern.proj /\ requested.order = kern.order
      /\ requested.log = kern.log /\ requested.state = kern.state
      /\ requested.question = kern.question
      /\ requested.active = [kern.active EXCEPT !.cancelRequested = TRUE]
      /\ requested \in Transactions
  BY <1>0 DEF Transactions, ActiveRuns
<1>4. /\ requested.active.live = kern.active.live
      /\ requested.active.over = kern.active.over
      /\ requested.active.inference = kern.active.inference
      /\ requested.active.tool = kern.active.tool
  BY <1>0, <1>3 DEF Transactions, ActiveRuns
<1> HIDE DEF open, requested
<1>5. /\ ended.question = kern.question /\ ended.log = e.log /\ ended.state = e.state
      /\ ended.proj = RunEnded(kern.proj, "cancelled")
      /\ ended.active = [requested.active EXCEPT !.over = TRUE]
  BY <1>0, <1>3 DEF RecordToolError, Transactions
<1>6. ended \in Transactions /\ ended.active.over /\ ended.active.live
      /\ ended.proj.status \in RunOver
  <2>1. RecordToolError(requested, open) \in Transactions
    BY <1>3, ToolErrorType
  <2>2. RunEnded(kern.proj, "cancelled") \in Projections(Calls)
    BY EndedType DEF RunOver
  <2>3. [requested.active EXCEPT !.over = TRUE] \in ActiveRuns
    BY <1>3 DEF Transactions, ActiveRuns
  <2>4. ended.active.over /\ ended.active.live
    BY <1>0, <1>3, <1>4, <1>5 DEF Transactions, ActiveRuns, HeldOpen, OpenRun
  <2>5. ended \in Transactions
    BY <2>1, <2>2, <2>3 DEF Transactions
  <2> QED
    BY <1>5, <2>4, <2>5 DEF RunEnded, RunOver
<1> HIDE DEF ended
<1>7. \A c \in open : kern.log[c].done = "no"
  BY <1>0, <1>2, OpenCall DEF CallAgrees
<1>8. e \in Transactions /\ Held(e) /\ Moved(kern, e, open, OpenPhases, "closed")
      /\ AsksNothing(kern, e)
  BY <1>0, <1>2, <1>7, ErrorHeld, ToolErrorType
<1>9. \A c \in Calls : e.state[c] # "running" /\ e.log[c].spend # "reserved"
  <2>1. \A c \in Calls :
          /\ e.state[c] = IF c \in open THEN "terminal" ELSE kern.state[c]
          /\ e.log[c] = IF c \in open THEN [Reconciled(kern.log[c]) EXCEPT !.done = "error"]
                        ELSE kern.log[c]
    BY <1>0 DEF RecordToolError, Transactions
  <2>2. \A c \in Calls : [Reconciled(kern.log[c]) EXCEPT !.done = "error"].spend # "reserved"
    BY <1>0 DEF Reconciled, Transactions, CallFacts
  <2>3. ASSUME NEW c \in Calls \ open
        PROVE  kern.state[c] # "running" /\ kern.log[c].spend # "reserved"
    <3>1. CallAgrees(kern, c)
      BY <1>0, OpenCall
    <3>2. kern.log[c].spend = "reserved" => c \in Range(kern.order) /\ kern.log[c].done = "no"
      BY <1>0 DEF HeldOpen, Held, LogHeld, ReservedHeld, OpenRun, Kept, ActiveKept, RunIsOpen,
                  FlagsAgree
    <3> QED
      BY <1>2, <3>1, <3>2 DEF CallAgrees
  <2> QED
    BY <2>1, <2>2, <2>3
<1> HIDE DEF e
<1>10. \A c \in Calls : PhaseOf(e, c) \notin {"running", "waiting"}
  <2>1. \A c \in Calls : PhaseOf(kern, c) \in {"running", "waiting"} => c \in open
    <3>1. ASSUME NEW c \in Calls, PhaseOf(kern, c) \in {"running", "waiting"}
          PROVE  c \in open
      <4>1. kern.state[c] \in {"running", "awaiting_input"} /\ CallAgrees(kern, c)
        BY <1>0, <3>1, PhaseByState, OpenCall
      <4> QED
        BY <1>2, <4>1 DEF CallAgrees
    <3> QED
      BY <3>1
  <2> QED
    BY <1>8, <2>1 DEF Moved
<1>11. EndsAs(e, ended)
  <2>1. ended.question = e.question
    BY <1>0, <1>5 DEF e, RecordToolError, Transactions
  <2> QED
    BY <1>5, <1>6, <1>9, <2>1 DEF EndsAs
<1>12. Held(ended) /\ SamePhases(e, ended)
  BY <1>8, <1>10, <1>11, EndHeld DEF Held, SamePhases, RunningIsCut
<1>13. Moved(kern, ended, open, OpenPhases, "closed") /\ AsksNothing(kern, ended)
  BY <1>5, <1>8, <1>12 DEF Moved, SamePhases, AsksNothing
<1>14. open \in SUBSET Calls
  BY <1>2
<1>15. CASE kern.active.inference
  BY <1>0, <1>1, <1>3, <1>4, <1>15, FlagLives
<1>16. CASE kern' = ended
  BY <1>0, <1>12, <1>13, <1>14, <1>16, ClosesLives DEF Lives
<1>17. CASE kern' = ResetActive(ended)
  <2>1. Held(kern') /\ SamePhases(ended, kern') /\ AsksNothing(ended, kern')
    BY <1>6, <1>12, <1>17, ResetHeld
  <2>2. Moved(kern, kern', open, OpenPhases, "closed") /\ AsksNothing(kern, kern')
    BY <1>13, <2>1 DEF Moved, SamePhases, AsksNothing
  <2> QED
    BY <1>0, <1>14, <2>1, <2>2, ClosesLives DEF Lives
<1> QED
  BY <1>1, <1>15, <1>16, <1>17

(* A call that waited for an approval goes on, or is closed. *)
DecidedAs(u, c) ==
  /\ u.order = kern.order /\ u.question = kern.question /\ u.active = kern.active
  /\ u.proj.status = "awaiting_input" <=> kern.proj.status = "awaiting_input"
  /\ RequireRunning(u.proj)
  /\ u.state[c] \in {"allowed", "terminal"}
  /\ u.log[c].started = kern.log[c].started /\ u.log[c].spend # "reserved"
  /\ \A x \in Calls \ {c} : u.log[x] = kern.log[x] /\ u.state[x] = kern.state[x]

LEMMA DecidedHeld ==
  ASSUME HeldHere, kern.active.live, ~kern.active.over, kern.proj.status # "running",
         NEW c \in Calls, kern.state[c] = "awaiting_approval", NEW u, DecidedAs(u, c)
  PROVE  /\ Held(u) /\ AsksNothing(kern, u)
         /\ \A x \in Calls \ {c} : PhaseOf(u, x) = PhaseOf(kern, x)
<1>0. /\ kern \in Transactions /\ HeldOpen(kern) /\ LogHeld(kern) /\ RunHeld(kern)
      /\ AskingAgrees(kern) /\ Reserves(kern) /\ RequireRunning(kern.proj)
  BY DEF HeldHere, HeldOpen, OpenRun, Held, RunHeld, Kept, ActiveKept, RunIsOpen, FlagsAgree
<1>1. ~kern.log[c].started
  BY <1>0, OpenCall DEF FactsAgree
<1>2. kern.question # c
  BY <1>0, <1>1 DEF LogHeld, QuestionHeld
<1>3. Range(kern.order) \subseteq Calls
  BY <1>0, OrderType
<1> USE DEF DecidedAs
<1>4. QuestionHeld(u)
  BY <1>0, <1>2, <1>3 DEF LogHeld, QuestionHeld
<1>5. ReservedHeld(u)
  BY <1>0 DEF LogHeld, ReservedHeld
<1>6. AskingAgrees(u)
  BY <1>0, <1>2 DEF AskingAgrees, Waits
<1>7. Reserves(u)
  BY <1>0 DEF Reserves
<1>9. ~kern.active.inference
  BY <1>0 DEF RunHeld
<1>10. Held(u)
  BY <1>4, <1>5, <1>6, <1>7, <1>9 DEF Held, LogHeld, RunHeld
<1>11. AsksNothing(kern, u)
  BY DEF AsksNothing
<1> QED
  BY <1>10, <1>11 DEF PhaseOf, Waits

(* decide_approval. *)
LEMMA DecideLives ==
  ASSUME HeldHere, NEW c \in Calls, NEW b \in BOOLEAN, DecideApproval(c, b)
  PROVE  Lives(kern, kern')
<1>0. /\ kern \in Transactions /\ kern.active.live /\ kern.state[c] = "awaiting_approval"
      /\ AcceptsApprovalDecided(kern.proj, c) /\ Held(kern) /\ Kept(kern)
  BY DEF HeldHere, DecideApproval
<1>1. /\ OpenRun(kern) /\ ~kern.active.over /\ kern.proj.status # "running"
  BY <1>0, WaitingIsOpen DEF AcceptsApprovalDecided, OpenRun
<1>2. /\ HeldOpen(kern) /\ PhaseOf(kern, c) = "proposed"
      /\ kern.log[c].done = "no" /\ ~kern.log[c].started /\ kern.log[c] \in CallFacts
      /\ kern.log[c].spend # "reserved"
  <2>1. HeldOpen(kern)
    BY <1>0, <1>1 DEF HeldHere, HeldOpen
  <2>2. CallAgrees(kern, c) /\ FactsAgree(kern.log[c], kern.state[c])
        /\ kern.log[c] \in CallFacts /\ PhaseOf(kern, c) = "proposed"
    BY <1>0, <2>1, OpenCall, PhaseByState
  <2>3. kern.log[c].spend = "reserved" => kern.log[c].started
    BY <1>0 DEF Held, LogHeld, ReservedHeld
  <2> QED
    BY <1>0, <2>1, <2>2, <2>3 DEF CallAgrees, FactsAgree, Decidable
<1> DEFINE p == ApprovalDecided(kern.proj, c)
           t(v) == [kern EXCEPT !.proj = p, !.log[c].approval = v]
           g(v) == [kern.log[c] EXCEPT !.approval = v]
<1>3. /\ p.status = "awaiting_input" <=> kern.proj.status = "awaiting_input"
  BY <1>0 DEF ApprovalDecided, AcceptsApprovalDecided, Transactions, Projections
<1>3a. RequireRunning(p)
  BY <1>0 DEF ApprovalDecided, AcceptsApprovalDecided, Transactions, Projections,
              RequireRunning
<1> HIDE DEF p
<1>4. CASE b
  <2>1. kern' = [t("approved") EXCEPT !.state[c] = "allowed"]
    BY <1>4 DEF DecideApproval, p
  <2>2. /\ kern'.proj = p /\ kern'.order = kern.order /\ kern'.active = kern.active
        /\ kern'.question = kern.question /\ kern'.state[c] = "allowed"
        /\ kern'.log[c] = g("approved")
        /\ \A x \in Calls \ {c} : kern'.log[x] = kern.log[x] /\ kern'.state[x] = kern.state[x]
    BY <1>0, <2>1 DEF Transactions
  <2>3. /\ g("approved").approval = "approved" /\ g("approved").started = kern.log[c].started
        /\ g("approved").done = "no" /\ g("approved").spend # "reserved"
    BY <1>2 DEF CallFacts
  <2> HIDE DEF t, g
  <2>4. DecidedAs(kern', c)
    BY <1>3, <1>3a, <2>2, <2>3 DEF DecidedAs
  <2>5. /\ Held(kern') /\ AsksNothing(kern, kern')
        /\ \A x \in Calls \ {c} : PhaseOf(kern', x) = PhaseOf(kern, x)
    BY <1>0, <1>1, <2>4, DecidedHeld
  <2>6. PhaseOf(kern', c) = "authorised"
    BY <1>2, <2>2, <2>3 DEF PhaseOf
  <2>7. Decides(kern, kern', {c}, {})
    BY <1>2, <2>5, <2>6 DEF Decides
  <2>8. {c} \in SUBSET Calls /\ {} \in SUBSET Calls
    OBVIOUS
  <2> QED
    BY <2>5, <2>7, <2>8 DEF Lives, LifeStep
<1>5. CASE ~b
  <2> DEFINE h == [Reconciled(g("refused")) EXCEPT !.done = "error"]
  <2>1. kern' = RecordToolError(t("refused"), {c})
    BY <1>5 DEF DecideApproval, p
  <2>2. /\ kern'.proj = t("refused").proj /\ kern'.order = t("refused").order
        /\ kern'.active = t("refused").active /\ kern'.question = t("refused").question
        /\ kern'.log[c] = [Reconciled(t("refused").log[c]) EXCEPT !.done = "error"]
        /\ kern'.state[c] = "terminal"
        /\ \A x \in Calls \ {c} : /\ kern'.log[x] = t("refused").log[x]
                                  /\ kern'.state[x] = t("refused").state[x]
    <3>1. t("refused") \in Transactions
      BY <1>0, DecidedType DEF p
    <3> HIDE DEF t
    <3> QED
      BY <2>1, <3>1 DEF RecordToolError, Transactions
  <2>3. /\ t("refused").proj = p /\ t("refused").order = kern.order
        /\ t("refused").active = kern.active /\ t("refused").question = kern.question
        /\ t("refused").log[c] = g("refused") /\ t("refused").state = kern.state
        /\ \A x \in Calls \ {c} : t("refused").log[x] = kern.log[x]
    BY <1>0 DEF Transactions
  <2>4. h.done # "no" /\ h.started = kern.log[c].started /\ h.spend # "reserved"
    BY <1>2 DEF Reconciled, CallFacts
  <2> HIDE DEF t
  <2>5. kern'.log[c] = h
    BY <2>2, <2>3
  <2> HIDE DEF g, h
  <2>6. DecidedAs(kern', c)
    <3>1. /\ kern'.order = kern.order /\ kern'.question = kern.question
          /\ kern'.active = kern.active /\ kern'.proj = p /\ kern'.state[c] = "terminal"
          /\ \A x \in Calls \ {c} : kern'.log[x] = kern.log[x] /\ kern'.state[x] = kern.state[x]
      BY <2>2, <2>3
    <3> QED
      BY <1>3, <1>3a, <2>4, <2>5, <3>1 DEF DecidedAs
  <2>7. /\ Held(kern') /\ AsksNothing(kern, kern')
        /\ \A x \in Calls \ {c} : PhaseOf(kern', x) = PhaseOf(kern, x)
    BY <1>0, <1>1, <2>6, DecidedHeld
  <2>8. PhaseOf(kern', c) = "closed"
    BY <2>4, <2>5 DEF PhaseOf
  <2>9. Moved(kern, kern', {c}, OpenPhases, "closed") /\ {c} \in SUBSET Calls
    BY <1>2, <2>7, <2>8 DEF Moved, OpenPhases
  <2> QED
    BY <1>0, <2>7, <2>9, ClosesLives DEF Lives
<1> QED
  BY <1>4, <1>5

(* answer_questions and cancel_questions. *)
LEMMA ResolveLives ==
  ASSUME HeldHere, NEW c \in Calls, ResolveQuestions(c)
  PROVE  Lives(kern, kern')
<1>0. /\ kern \in Transactions /\ kern.active.live /\ kern.state[c] = "awaiting_input"
      /\ kern.proj.status = "awaiting_input" /\ Held(kern) /\ Kept(kern)
      /\ kern' = [kern EXCEPT !.proj = RunResumed(kern.proj), !.log[c].done = "result",
                              !.state[c] = "terminal"]
  BY DEF HeldHere, ResolveQuestions, AcceptsRunResumed
<1>1. HeldOpen(kern) /\ OpenRun(kern)
  BY <1>0, WaitingIsOpen DEF HeldHere, HeldOpen
<1>2. kern.question = c /\ PhaseOf(kern, c) = "waiting"
  BY <1>0, <1>1, OpenCall, PhaseByState DEF Waits
<1> DEFINE g == [kern.log[c] EXCEPT !.done = "result"]
<1>3. /\ kern'.proj = RunResumed(kern.proj) /\ kern'.order = kern.order
      /\ kern'.active = kern.active /\ kern'.question = kern.question
      /\ \A x \in Calls : /\ kern'.log[x] = IF x = c THEN g ELSE kern.log[x]
                          /\ kern'.state[x] = IF x = c THEN "terminal" ELSE kern.state[x]
  BY <1>0 DEF Transactions
<1>4. g.done # "no" /\ g.started = kern.log[c].started /\ g.spend = kern.log[c].spend
  BY <1>0 DEF Transactions, CallFacts
<1>5. kern'.proj.status \in {"running", "awaiting_approval"}
  BY <1>0, <1>3 DEF RunResumed, Transactions, Projections
<1> HIDE DEF g
<1>6. /\ LogHeld(kern) /\ AskingAgrees(kern) /\ Reserves(kern) /\ ~kern.active.inference
      /\ kern.active.live /\ ~kern.active.over /\ RequireRunning(kern.proj)
  BY <1>0, <1>1 DEF Held, RunHeld, OpenRun, RequireRunning
<1>7. c \in AskUser /\ kern.log[c].started /\ kern.log[c].spend # "reserved"
  BY <1>2, <1>6, KernelAssumption DEF LogHeld, QuestionHeld, ReservedHeld
<1>8. QuestionHeld(kern')
  BY <1>2, <1>3, <1>4, <1>5, <1>7 DEF QuestionHeld
<1>9. ReservedHeld(kern')
  BY <1>3, <1>4, <1>6, <1>7 DEF LogHeld, ReservedHeld
<1>10. AskingAgrees(kern')
  BY <1>2, <1>3, <1>6 DEF AskingAgrees, Waits
<1>11. Reserves(kern')
  BY <1>3, <1>4, <1>6, <1>7 DEF Reserves
<1>12. Held(kern')
  BY <1>3, <1>6, <1>8, <1>9, <1>10, <1>11 DEF Held, LogHeld, RunHeld
<1>13. PhaseOf(kern', c) = "closed"
  BY <1>3, <1>4 DEF PhaseOf
<1>14. \A x \in Calls \ {c} : PhaseOf(kern', x) = PhaseOf(kern, x)
  BY <1>2, <1>3 DEF PhaseOf, Waits
<1>15. Moved(kern, kern', {c}, OpenPhases, "closed") /\ {c} \in SUBSET Calls
  BY <1>2, <1>13, <1>14 DEF Moved, OpenPhases
<1>16. AsksNothing(kern, kern')
  BY <1>3 DEF AsksNothing
<1> QED
  BY <1>0, <1>12, <1>15, <1>16, ClosesLives DEF Lives

(***************************************************************************)
(* Failure and restart.                                                    *)
(***************************************************************************)
(* The active run is dropped: the tool that was executing is abandoned, and a
   question stays asked. *)
LEMMA StopsHeld ==
  ASSUME HeldHere, NEW how, KernelStops(how)
  PROVE  LogHeld(kern') /\ LifeStep(kern, kern')
<1>1. /\ kern'.proj = kern.proj /\ kern'.log = kern.log /\ kern'.order = kern.order
      /\ kern'.question = kern.question /\ \A c \in Calls : kern'.state[c] = "absent"
  BY DEF HeldHere, KernelStops, ResetActive, Transactions, NoInvocations
<1>2. LogHeld(kern')
  BY <1>1 DEF HeldHere, Held, LogHeld, QuestionHeld, ReservedHeld
<1>3. ASSUME NEW c \in Calls
      PROVE  PhaseOf(kern', c) = IF PhaseOf(kern, c) = "running" THEN "abandoned"
                                 ELSE PhaseOf(kern, c)
  BY <1>1 DEF PhaseOf, Waits
<1>4. CASE \A c \in Calls : PhaseOf(kern, c) # "running"
  BY <1>2, <1>3, <1>4 DEF LifeStep, SamePhases
<1>5. ASSUME NEW c \in Calls, PhaseOf(kern, c) = "running"
      PROVE  LifeStep(kern, kern')
  <2>1. kern.state[c] = "running"
    BY <1>5 DEF PhaseOf
  <2>2. kern.active.live /\ ~kern.active.over
    <3>1. ~kern.active.live => kern.state = NoInvocations
      BY DEF HeldHere, Kept, ActiveKept, Stopped
    <3>2. kern.active.live
      BY <2>1, <3>1 DEF NoInvocations
    <3> QED
      BY <2>1, <3>2 DEF HeldHere, Held, RunHeld
  <2>3. kern \in Transactions /\ HeldOpen(kern)
    BY <2>2 DEF HeldHere, HeldOpen, OpenRun
  <2>4. \A d \in Calls : PhaseOf(kern, d) = "running" => d = c
    BY <1>5, <2>3, OneRuns
  <2>5. Moved(kern, kern', {c}, {"running"}, "abandoned")
    BY <1>3, <1>5, <2>4 DEF Moved
  <2> QED
    BY <2>5 DEF LifeStep
<1> QED
  BY <1>2, <1>4, <1>5

(* What a kernel that is not up knows of its log. *)
DownHere ==
  /\ kern \in Transactions /\ Good(kern) /\ Kept(kern) /\ LogHeld(kern)
  /\ ~kern.active.live /\ \A c \in Calls : kern.state[c] = "absent"

(* Settling interrupted spend closes the calls it was reserved for. *)
LEMMA SettleHeld ==
  ASSUME DownHere, ~SettleRefused, Interrupted(kern) # {}
  PROVE  LET t == SettleInterrupted(kern) IN
         /\ Moved(kern, t, Interrupted(kern), OpenPhases, "closed")
         /\ LogHeld(t) /\ t.proj.status \in RunOver
         /\ \A c \in Calls : t.log[c].spend # "reserved"
<1> DEFINE t == SettleInterrupted(kern)
           C == Interrupted(kern)
           g(c) == [kern.log[c] EXCEPT
                      !.spend = IF kern.log[c].started THEN "reconcile" ELSE "released",
                      !.done = "error"]
<1>1. /\ t.question = kern.question /\ t.order = kern.order /\ t.state = kern.state
      /\ t.proj = RunEnded(kern.proj, "failed")
      /\ \A c \in Calls : t.log[c] = IF c \in C THEN g(c) ELSE kern.log[c]
  BY DEF DownHere, SettleInterrupted, Transactions
<1>2. \A c \in Calls : /\ g(c).done = "error" /\ g(c).spend # "reserved"
                       /\ g(c).started = kern.log[c].started
  BY DEF DownHere, Transactions, CallFacts
<1>4. \A c \in Calls : c \in C <=> kern.log[c].spend = "reserved"
  BY DEF Interrupted
<1>5. C \subseteq Calls
  BY DEF Interrupted
<1> HIDE DEF t, C, g
<1>3. t.proj.status \in RunOver /\ t.proj.status # "awaiting_input" /\ ~RequireRunning(t.proj)
  <2>1. t.proj = RunEnded(kern.proj, "failed")
    BY <1>1
  <2> QED
    BY <2>1 DEF RunEnded, RunOver, RequireRunning
<1>6. \A c \in C : /\ c \in Paid /\ kern.log[c].started /\ kern.log[c].done = "no"
                   /\ RequireRunning(kern.proj) => c \in Range(kern.order)
  BY <1>4, <1>5 DEF DownHere, LogHeld, ReservedHeld
<1>7. \A c \in Calls : t.log[c].spend # "reserved"
  BY <1>1, <1>2, <1>4
<1>8. LogHeld(t)
  <2>1. QuestionHeld(t)
    BY <1>1, <1>2, <1>3 DEF DownHere, LogHeld, QuestionHeld
  <2>2. ReservedHeld(t)
    BY <1>7 DEF ReservedHeld
  <2> QED
    BY <2>1, <2>2 DEF LogHeld
<1>9. \A d \in Calls : ~Waits(kern, d) \/ kern.log[d].done # "no" \/ ~kern.log[d].started
  <2> SUFFICES ASSUME NEW d \in Calls, Waits(kern, d), kern.log[d].done = "no",
                      kern.log[d].started
               PROVE  FALSE
    OBVIOUS
  <2>1. d \in AskUser /\ d \in Range(kern.order) /\ RequireRunning(kern.proj)
    BY DEF Waits, DownHere, LogHeld, QuestionHeld, RequireRunning
  <2>2. PICK c \in C : TRUE
    BY DEF C
  <2>3. /\ c \in Range(kern.order) /\ c \in Paid /\ kern.log[c].started
        /\ kern.log[c].done = "no"
    BY <1>6, <2>1, <2>2
  <2>4. c # d
    BY <2>1, <2>3, KernelAssumption
  <2>5. PICK i \in DOMAIN kern.order, j \in DOMAIN kern.order :
          kern.order[i] = c /\ kern.order[j] = d
    BY <2>1, <2>3 DEF Range
  <2>6. DOMAIN kern.order \subseteq Nat
    BY OrderType DEF DownHere
  <2>7. i < j \/ j < i
    BY <2>4, <2>5, <2>6
  <2> QED
    BY <2>3, <2>5, <2>7 DEF DownHere, Kept, LogKept, BatchKept, OrderKept
<1>10. \A c \in C : PhaseOf(kern, c) \in OpenPhases
  BY <1>6 DEF PhaseOf, OpenPhases
<1>11. \A c \in Calls : PhaseOf(t, c) = IF c \in C THEN "closed" ELSE PhaseOf(kern, c)
  <2>1. \A c \in C : PhaseOf(t, c) = "closed"
    <3>1. \A c \in C : t.log[c].done = "error"
      BY <1>1, <1>2, <1>5
    <3> QED
      BY <3>1 DEF PhaseOf
  <2>2. ASSUME NEW c \in Calls, c \notin C
        PROVE  PhaseOf(t, c) = PhaseOf(kern, c)
    <3>1. t.log[c] = kern.log[c] /\ t.state[c] = kern.state[c] /\ ~Waits(t, c)
      BY <1>1, <1>3, <2>2 DEF Waits
    <3> QED
      BY <1>9, <3>1 DEF PhaseOf
  <2> QED
    BY <2>1, <2>2
<1> QED
  BY <1>3, <1>7, <1>8, <1>10, <1>11 DEF Moved, t, C

(* With nothing reserved the log is as it was. *)
LEMMA UnsettledSame ==
  ASSUME DownHere, Interrupted(kern) = {}
  PROVE  LET t == SettleInterrupted(kern) IN
         /\ t.proj = kern.proj /\ t.order = kern.order /\ t.question = kern.question
         /\ t.state = kern.state /\ t.active = kern.active
         /\ \A c \in Calls : t.log[c] = kern.log[c]
         /\ LogHeld(t) /\ SamePhases(kern, t)
         /\ \A c \in Calls : t.log[c].spend # "reserved"
<1> DEFINE t == SettleInterrupted(kern)
<1>1. /\ t.proj = kern.proj /\ t.order = kern.order /\ t.question = kern.question
      /\ t.state = kern.state /\ t.active = kern.active
      /\ \A c \in Calls : t.log[c] = kern.log[c]
  BY DEF DownHere, SettleInterrupted, Transactions
<1> HIDE DEF t
<1>2. LogHeld(t)
  <2>1. QuestionHeld(t)
    BY <1>1, OrderType DEF DownHere, LogHeld, QuestionHeld
  <2>2. ReservedHeld(t)
    BY <1>1 DEF DownHere, LogHeld, ReservedHeld
  <2> QED
    BY <2>1, <2>2 DEF LogHeld
<1>3. SamePhases(kern, t)
  BY <1>1 DEF SamePhases, PhaseOf, Waits
<1>4. \A c \in Calls : t.log[c].spend # "reserved"
  BY <1>1 DEF Interrupted
<1> QED
  BY <1>1, <1>2, <1>3, <1>4 DEF t

(* The run is taken up again: an approval that was consumed is asked for again. *)
LEMMA RecoverHeld ==
  ASSUME NEW t \in Transactions, Good(t), Kept(t), LogHeld(t), Recoverable(t),
         ~ReplayRejects(t), \A c \in Calls : t.state[c] = "absent",
         \A c \in Calls : t.log[c].spend # "reserved"
  PROVE  Held(Recover(t)) /\ Moved(t, Recover(t), Renewed(t), {"authorised"}, "proposed")
<1> DEFINE u == Recover(t)
           states == [c \in Calls |-> IF c \in Range(t.order) THEN RecoveredState(t, c)
                                      ELSE "absent"]
           a == [NoActive EXCEPT !.live = TRUE,
                                 !.recovered = UnstartedAuthority(t)
                                   /\ \E c \in Range(t.order) : states[c] = "allowed"]
           g(c) == [t.log[c] EXCEPT !.approval = "requested"]
           C == Renewed(t)
<1>1. /\ u.order = t.order /\ u.active = a /\ u.state = states /\ u.question = t.question
      /\ u.proj = ApprovalRequested(t.proj, C)
      /\ \A c \in Calls : u.log[c] = IF c \in C THEN g(c) ELSE t.log[c]
  BY DEF Recover, Transactions
<1>2. a.live /\ ~a.over /\ ~a.inference /\ a.tool = None
  BY DEF NoActive
<1>3. \A c \in Calls : /\ g(c).approval = "requested" /\ g(c).done = t.log[c].done
                       /\ g(c).started = t.log[c].started /\ g(c).spend = t.log[c].spend
                       /\ g(c).proposed = t.log[c].proposed /\ g(c).policy = t.log[c].policy
  BY DEF Transactions, CallFacts
<1>4. Range(t.order) \subseteq Calls
  BY OrderType
<1>5. RequireRunning(t.proj)
  BY DEF Recoverable, UnstartedAuthority, RequireRunning
<1>6. \A c \in C : /\ c \in Calls /\ c \in Range(t.order) /\ t.log[c].policy = "require"
                   /\ ~t.log[c].started /\ t.log[c].done = "no"
                   /\ t.log[c].approval = "approved" /\ t.proj.status = "running"
  BY <1>4 DEF Renewed, Unstarted, UnstartedAuthority
<1>7. \A c \in Calls : u.state[c] = IF c \in Range(t.order) THEN RecoveredState(t, c)
                                    ELSE "absent"
  BY <1>1
<1>8. u.proj.status = IF C # {} /\ t.proj.status = "running" THEN "awaiting_approval"
                      ELSE t.proj.status
  <2>1. ApprovalRequested(t.proj, C).status =
          IF C # {} /\ t.proj.status = "running" THEN "awaiting_approval" ELSE t.proj.status
    BY DEF ApprovalRequested, Transactions, Projections
  <2> QED
    BY <1>1, <2>1
<1> HIDE DEF u, a, g, states, C
<1>9. /\ u.proj.status = "awaiting_input" <=> t.proj.status = "awaiting_input"
      /\ \A c : Waits(u, c) <=> Waits(t, c)
  BY <1>1, <1>8 DEF Waits
<1>10. \A c \in Calls : /\ u.log[c].started = t.log[c].started
                        /\ u.log[c].done = t.log[c].done
                        /\ u.log[c].spend = t.log[c].spend
                        /\ u.log[c].proposed = t.log[c].proposed
                        /\ u.log[c].policy = t.log[c].policy
                        /\ u.log[c].approval = IF c \in C THEN "requested" ELSE t.log[c].approval
  BY <1>1, <1>3
<1>11. LogHeld(u)
  <2>1. QuestionHeld(u)
    <3>1. /\ t.question \in Calls => t.question \in AskUser /\ t.log[t.question].started
          /\ t.proj.status = "awaiting_input" => t.question \in Range(t.order)
          /\ t.question \in Range(t.order) /\ t.log[t.question].done = "no" =>
               t.proj.status = "awaiting_input"
      BY <1>5 DEF LogHeld, QuestionHeld
    <3>2. u.question = t.question /\ u.order = t.order
      BY <1>1
    <3> QED
      BY <1>4, <1>9, <1>10, <3>1, <3>2 DEF QuestionHeld
  <2>2. ReservedHeld(u)
    BY <1>10 DEF ReservedHeld
  <2> QED
    BY <2>1, <2>2 DEF LogHeld
<1>12. ASSUME NEW c \in Calls
       PROVE  /\ u.state[c] # "running"
              /\ u.state[c] = "awaiting_input" => Waits(u, c)
  <2>1. u.state[c] # "running"
    BY <1>7, RecoveredStateType
  <2>2. ASSUME u.state[c] = "awaiting_input"
        PROVE  Waits(u, c)
    <3>1. c \in Range(t.order) /\ RecoveredState(t, c) = "awaiting_input"
      BY <1>7, <2>2
    <3>2. c = t.question /\ t.log[c].done = "no"
      BY <3>1 DEF RecoveredState
    <3>3. t.proj.status = "awaiting_input"
      BY <1>5, <3>1, <3>2 DEF LogHeld, QuestionHeld
    <3> QED
      BY <1>9, <3>2, <3>3 DEF Waits
  <2> QED
    BY <2>1, <2>2
<1>13. Held(u)
  <2>1. AskingAgrees(u)
    BY <1>1, <1>2, <1>12 DEF AskingAgrees
  <2>2. Reserves(u)
    BY <1>10 DEF Reserves
  <2>3. u.active.live /\ ~u.active.over /\ ~u.active.inference
    BY <1>1, <1>2
  <2> QED
    BY <1>11, <2>1, <2>2, <2>3 DEF Held, RunHeld
<1>14. \A c \in C : PhaseOf(t, c) = "authorised"
  BY <1>6 DEF PhaseOf
<1>15. ASSUME NEW c \in Calls
       PROVE  PhaseOf(u, c) = IF c \in C THEN "proposed" ELSE PhaseOf(t, c)
  <2>1. CASE c \in C
    <3>1. t.log[c].proposed
      BY <1>6, <2>1 DEF Kept, LogKept, BatchKept, ProposalsKept, Range
    <3>2. /\ u.log[c].done = "no" /\ ~u.log[c].started /\ u.log[c].policy = "require"
          /\ u.log[c].approval = "requested" /\ u.log[c].proposed
      BY <1>6, <1>10, <2>1, <3>1
    <3> QED
      BY <2>1, <3>2 DEF PhaseOf
  <2>2. CASE c \notin C
    <3>1. /\ u.log[c].done = t.log[c].done /\ u.log[c].started = t.log[c].started
          /\ u.log[c].policy = t.log[c].policy /\ u.log[c].approval = t.log[c].approval
          /\ u.log[c].proposed = t.log[c].proposed
          /\ u.state[c] # "running" /\ t.state[c] # "running"
          /\ Waits(u, c) <=> Waits(t, c)
      BY <1>9, <1>10, <1>12, <2>2
    <3> QED
      BY <2>2, <3>1 DEF PhaseOf
  <2> QED
    BY <2>1, <2>2
<1> QED
  BY <1>13, <1>14, <1>15 DEF Moved, u, C

(* open_durable. *)
LEMMA ReopenHeld ==
  ASSUME DownHere, Reopen
  PROVE  LogHeld(kern') /\ LifeStep(kern, kern') /\ (up' = "up" => RunHeld(kern'))
<1> DEFINE t == SettleInterrupted(kern)
<1>1. CASE SettleRefused
  <2>1. kern' = kern /\ up' = "rejected"
    BY <1>1 DEF Reopen
  <2> QED
    BY <2>1 DEF DownHere, LifeStep, SamePhases
<1>2. CASE ~SettleRefused
  <2>0. /\ t \in Transactions /\ Good(t) /\ Kept(t)
        /\ t.active = kern.active /\ t.state = kern.state
    BY <1>2, SettleKept, SettleType, SettleGood DEF DownHere, SettleInterrupted, Transactions
  <2>1. /\ LogHeld(t) /\ \A c \in Calls : t.log[c].spend # "reserved"
        /\ LifeStep(kern, t)
        /\ Interrupted(kern) # {} => t.proj.status \in RunOver
        /\ Interrupted(kern) = {} => SamePhases(kern, t)
    <3>1. CASE Interrupted(kern) = {}
      BY <3>1, UnsettledSame DEF LifeStep
    <3>2. CASE Interrupted(kern) # {}
      <4>1. /\ Moved(kern, t, Interrupted(kern), OpenPhases, "closed")
            /\ LogHeld(t) /\ t.proj.status \in RunOver
            /\ \A c \in Calls : t.log[c].spend # "reserved"
        BY <1>2, <3>2, SettleHeld
      <4>2. LifeStep(kern, t)
        BY <4>1, ClosesLives DEF DownHere, Interrupted
      <4> QED
        BY <3>2, <4>1, <4>2
    <3> QED
      BY <3>1, <3>2
  <2>2. \/ Recoverable(t) /\ ReplayRejects(t) /\ kern' = t /\ up' = "rejected"
        \/ Recoverable(t) /\ ~ReplayRejects(t) /\ kern' = Recover(t)
        \/ ~Recoverable(t) /\ kern' = t
    BY <1>2 DEF Reopen
  <2>3. \A c \in Calls : t.state[c] = "absent"
    BY <2>0 DEF DownHere
  <2>4. ~t.active.live
    BY <2>0 DEF DownHere
  <2> HIDE DEF t
  <2>5. CASE Recoverable(t) /\ ReplayRejects(t) /\ kern' = t /\ up' = "rejected"
    BY <2>1, <2>5
  <2>6. CASE Recoverable(t) /\ ~ReplayRejects(t) /\ kern' = Recover(t)
    <3>1. Held(Recover(t)) /\ Moved(t, Recover(t), Renewed(t), {"authorised"}, "proposed")
      BY <2>0, <2>1, <2>3, <2>6, RecoverHeld
    <3>2. SamePhases(kern, t)
      BY <2>1, <2>6 DEF Recoverable, UnstartedAuthority, RunOver
    <3>3. Renewed(t) \in SUBSET Calls
      BY <2>0, OrderType DEF Renewed
    <3>4. Moved(kern, kern', Renewed(t), {"authorised"}, "proposed")
      BY <2>6, <3>1, <3>2, <3>3 DEF Moved, SamePhases
    <3>5. LifeStep(kern, kern')
      BY <3>3, <3>4 DEF LifeStep
    <3> QED
      BY <2>6, <3>1, <3>5 DEF Held
  <2>7. CASE ~Recoverable(t) /\ kern' = t
    <3>1. RunHeld(t)
      BY <2>1, <2>4, <2>7 DEF RunHeld, Recoverable, Reserves
    <3> QED
      BY <2>1, <2>7, <3>1
  <2> QED
    BY <2>2, <2>5, <2>6, <2>7
<1> QED
  BY <1>1, <1>2

(***************************************************************************)
(* ask_user publishes once.                                                *)
(***************************************************************************)
(* Nothing in flight asks, and the tool worker is not about to. *)
LEMMA NobodyAsks ==
  ASSUME \A u \in InFlight : ~Ask(u),
         worker.at = "run" /\ worker.call \in AskUser /\ worker.sent = 0 =>
           kern.state[worker.call] # "awaiting_input"
  PROVE  AskedOnce
<1>1. /\ \A i \in DOMAIN batch : batch[i] \in InFlight
      /\ \A i \in DOMAIN queue : queue[i] \in InFlight
      /\ Range(batch) \subseteq InFlight
  BY DEF InFlight, Range
<1> QED
  BY <1>1 DEF AskedOnce, AsksOnce

LEMMA QuiescentAsks == Quiescent => AskedOnce
<1> SUFFICES ASSUME Quiescent
             PROVE  AskedOnce
  OBVIOUS
<1>1. \A u \in InFlight : ~Ask(u)
  BY DEF Quiescent, Ask, ToolUpdate
<1> QED
  BY <1>1, NobodyAsks DEF Quiescent

(* An owner step that publishes no question and drops at most the head of the batch. *)
LEMMA StepAsks ==
  ASSUME TypeOK, AskedOnce, AsksNothing(kern, kern'), queue' = queue, worker' = worker,
         batch' = batch \/ (batch # <<>> /\ batch' = Tail(batch))
  PROVE  AskedOnce'
<1>1. /\ batch \in Seq(Updates) /\ AskUser \subseteq Calls
      /\ \A u : Ask(u) => u.call \in Calls
  BY KernelAssumption DEF TypeOK, Ask
<1>2. Range(batch') \subseteq Range(batch) /\ InFlight' \subseteq InFlight
  BY <1>1, TailRange DEF InFlight
<1>3. AsksOnce(batch)'
  <2>1. CASE batch' = batch
    BY <2>1 DEF AskedOnce, AsksOnce, Ask
  <2>2. CASE batch # <<>> /\ batch' = Tail(batch)
    <3>1. \A i \in DOMAIN batch' : i \in Nat /\ i + 1 \in DOMAIN batch
                                   /\ batch'[i] = batch[i + 1]
      BY <1>1, <2>2
    <3>2. AsksOnce(batch)
      BY DEF AskedOnce
    <3>3. ASSUME NEW i \in DOMAIN batch', NEW j \in DOMAIN batch', Ask(batch'[i]), Ask(batch'[j])
          PROVE  i = j
      <4>1. i + 1 = j + 1
        BY <3>1, <3>2, <3>3 DEF AsksOnce
      <4> QED
        BY <3>1, <4>1
    <3> QED
      BY <3>3 DEF AsksOnce, Ask
  <2> QED
    BY <2>1, <2>2
<1>4. AsksOnce(queue)'
  BY DEF AskedOnce, AsksOnce, Ask
<1>5. \A u \in Range(batch'), v \in Range(queue') : ~(Ask(u) /\ Ask(v))
  BY <1>2 DEF AskedOnce
<1>6. \A u \in InFlight' : Ask(u) =>
        u.k = "input" /\ kern'.state[u.call] # "awaiting_input" /\ worker'.sent # 0
  BY <1>1, <1>2 DEF AskedOnce, AsksNothing
<1>7. worker'.at = "run" /\ worker'.call \in AskUser /\ worker'.sent = 0 =>
        kern'.state[worker'.call] # "awaiting_input"
  BY <1>1 DEF AskedOnce, AsksNothing
<1> QED
  BY <1>3, <1>4, <1>5, <1>6, <1>7 DEF AskedOnce, Ask

(* The question itself is published: no other is in flight, and the worker has
   said what it had to say. *)
LEMMA PublishAsks ==
  ASSUME TypeOK, AskedOnce, AsksHere(Update1.call), batch # <<>>, batch' = Tail(batch),
         queue' = queue, worker' = worker
  PROVE  AskedOnce'
<1>1. /\ batch \in Seq(Updates) /\ Ask(Update1) /\ Update1 = batch[1]
      /\ Len(batch) \in Nat \ {0} /\ DOMAIN batch = 1..Len(batch)
  BY DEF TypeOK, AsksHere, Ask, ToolEvents, Update1
<1>2. 1 \in DOMAIN batch /\ Update1 \in Range(batch) /\ Update1 \in InFlight
  BY <1>1 DEF Range, InFlight
<1>3. worker.sent # 0
  BY <1>1, <1>2 DEF AskedOnce
<1>4. \A v \in Range(queue) : ~Ask(v)
  BY <1>1, <1>2 DEF AskedOnce
<1>5. \A u \in Range(batch') : ~Ask(u)
  <2>1. \A i \in DOMAIN batch' : i \in Nat \ {0} /\ i + 1 \in DOMAIN batch
                                 /\ batch'[i] = batch[i + 1]
    BY <1>1
  <2>2. \A i \in DOMAIN batch : Ask(batch[i]) => i = 1
    BY <1>1, <1>2 DEF AskedOnce, AsksOnce
  <2>3. \A i \in DOMAIN batch' : ~Ask(batch'[i])
    BY <2>1, <2>2
  <2> QED
    BY <2>3 DEF Range
<1>6. \A u \in InFlight' : ~Ask(u)
  BY <1>4, <1>5 DEF InFlight
<1>7. \A i \in DOMAIN batch' : batch'[i] \in InFlight'
  BY DEF InFlight, Range
<1>8. \A i \in DOMAIN queue' : queue'[i] \in InFlight'
  BY DEF InFlight, Range
<1>9. Range(batch') \subseteq InFlight'
  BY DEF InFlight
<1>10. worker'.sent # 0
  BY <1>3
<1> QED
  BY <1>6, <1>7, <1>8, <1>9, <1>10 DEF AskedOnce, AsksOnce, Ask

(* The swap. *)
LEMMA SwapAsks ==
  ASSUME AskedOnce, NEW m, DrainSwap(m)
  PROVE  AskedOnce'
<1>1. batch = <<>> /\ batch' = queue /\ queue' = <<>> /\ kern' = kern /\ worker' = worker
  BY DEF DrainSwap, OwnerIdle
<1>2. InFlight' = InFlight /\ Range(queue') = {} /\ DOMAIN queue' = {}
  BY <1>1, EmptyRange DEF InFlight
<1>3. AsksOnce(batch)' /\ AsksOnce(queue)'
  BY <1>1, <1>2 DEF AskedOnce, AsksOnce, Ask
<1> QED
  BY <1>1, <1>2, <1>3 DEF AskedOnce, Ask

(* A push. *)
LEMMA PushAsks ==
  ASSUME TypeOK, AskedOnce, NEW u \in Updates, Push(u), kern' = kern, batch' = batch,
         worker'.call = worker.call, worker'.at = "run" => worker.at = "run",
         worker.sent # 0 => worker'.sent # 0, worker'.sent = 0 => worker.sent = 0,
         Ask(u) => /\ u.k = "input" /\ worker.sent = 0 /\ worker'.sent # 0
                   /\ kern.state[u.call] # "awaiting_input"
  PROVE  AskedOnce'
<1>1. queue \in Seq(Updates) /\ queue' = Append(queue, u)
  BY DEF TypeOK, Push
<1> DEFINE n == Len(queue)
<1>2. /\ n \in Nat /\ DOMAIN queue = 1..n /\ DOMAIN queue' = 1..(n + 1)
      /\ queue'[n + 1] = u /\ \A i \in 1..n : queue'[i] = queue[i]
  BY <1>1
<1>3. Range(queue') = Range(queue) \cup {u} /\ InFlight' = InFlight \cup {u}
  BY <1>1, AppendRange DEF InFlight
<1> HIDE DEF n
<1>4. Ask(u) => /\ \A v \in InFlight : ~Ask(v)
                /\ \A i \in 1..n : ~Ask(queue[i])
  <2>1. \A i \in 1..n : queue[i] \in InFlight
    BY <1>2 DEF InFlight, Range
  <2> QED
    BY <2>1 DEF AskedOnce
<1>5. ASSUME NEW i \in DOMAIN queue', NEW j \in DOMAIN queue', Ask(queue'[i]), Ask(queue'[j])
      PROVE  i = j
  <2>1. \A k \in DOMAIN queue' : k \in 1..n \/ k = n + 1
    BY <1>2
  <2>2. CASE i \in 1..n /\ j \in 1..n
    BY <1>2, <1>5, <2>2 DEF AskedOnce, AsksOnce
  <2>3. CASE i = n + 1 \/ j = n + 1
    BY <1>2, <1>4, <1>5, <2>1, <2>3
  <2> QED
    BY <2>1, <2>2, <2>3
<1>6. AsksOnce(queue)'
  BY <1>5 DEF AsksOnce, Ask
<1>7. AsksOnce(batch)'
  BY DEF AskedOnce, AsksOnce, Ask
<1>8. \A v \in Range(batch'), w \in Range(queue') : ~(Ask(v) /\ Ask(w))
  BY <1>3, <1>4 DEF AskedOnce, InFlight
<1>9. \A v \in InFlight' : Ask(v) =>
        v.k = "input" /\ kern'.state[v.call] # "awaiting_input" /\ worker'.sent # 0
  BY <1>3 DEF AskedOnce
<1>10. worker'.at = "run" /\ worker'.call \in AskUser /\ worker'.sent = 0 =>
         kern'.state[worker'.call] # "awaiting_input"
  BY DEF AskedOnce
<1> QED
  BY <1>6, <1>7, <1>8, <1>9, <1>10 DEF AskedOnce, Ask

(* The workers. *)
LEMMA WorkersAsk ==
  ASSUME TypeOK, AskedOnce, BackendWorker \/ ToolWorker \/ DeadlineWorker
  PROVE  AskedOnce' /\ kern' = kern /\ up' = up
<1>0. /\ worker.sent \in Nat /\ worker.call \in Calls \cup {None}
      /\ worker \in [at: {"off", "run", "ending"}, sent: Nat, call: Calls \cup {None}]
      /\ \A k, c : Update(k, c).call = c /\ Update(k, c).k = k
      /\ \A k, c : k \notin ToolEvents => ~Ask(Update(k, c))
  BY DEF TypeOK, Update, Ask
<1>1. ASSUME NEW k \in BackendEvents \cup BackendFailures \cup
                       {"backend_ended", "tool_failure", "tool_ended", "deadline"},
             NEW c \in Calls \cup {None}, k \notin ToolEvents, Push(Update(k, c)),
             kern' = kern, batch' = batch,
             worker'.call = worker.call, worker'.at = "run" => worker.at = "run",
             worker'.sent = worker.sent
      PROVE  AskedOnce'
  <2>1. Update(k, c) \in Updates
    BY UpdateType
  <2> QED
    BY <1>0, <1>1, <2>1, PushAsks
<1>2. CASE BackendWorker
  <2>1. \A k \in BackendEvents \cup BackendFailures \cup {"backend_ended"} : k \notin ToolEvents
    BY DEF BackendEvents, BackendFailures, ToolEvents
  <2>2. PICK k \in BackendEvents \cup BackendFailures \cup {"backend_ended"},
             c \in Calls \cup {None} :
          /\ Push(Update(k, c)) /\ kern' = kern /\ batch' = batch /\ worker' = worker
          /\ up' = up
    BY <1>2, KernelAssumption
       DEF BackendWorker, BackendDelivers, BackendFails, BackendEnds, BackendEvents
  <2> QED
    BY <1>1, <2>1, <2>2
<1>3. ASSUME NEW k \in ToolEvents, ToolDelivers(k)
      PROVE  AskedOnce' /\ kern' = kern /\ up' = up
  <2>1. /\ Push(Update(k, worker.call)) /\ kern' = kern /\ batch' = batch /\ up' = up
        /\ worker' = [worker EXCEPT !.sent = @ + 1]
        /\ worker.at = "run"
        /\ worker.call \in AskUser => k = "input" /\ worker.sent = 0
    BY <1>3 DEF ToolDelivers
  <2>2. worker'.call = worker.call /\ worker'.at = worker.at /\ worker'.sent = worker.sent + 1
    BY <1>0, <2>1
  <2>3. worker'.sent # 0
    BY <1>0, <2>2
  <2>4. Ask(Update(k, worker.call)) => worker.call \in AskUser
    BY <1>0 DEF Ask
  <2>5. worker.call \in AskUser => kern.state[worker.call] # "awaiting_input"
    BY <2>1 DEF AskedOnce
  <2> QED
    BY <1>0, <2>1, <2>2, <2>3, <2>4, <2>5, PushAsks, UpdateType
<1>4. CASE ToolFails \/ ToolEnds
  <2>1. PICK k \in {"tool_failure", "tool_ended"} :
          /\ Push(Update(k, worker.call)) /\ kern' = kern /\ batch' = batch /\ up' = up
          /\ \E at \in {"off", "ending"} : worker' = [worker EXCEPT !.at = at]
    BY <1>4 DEF ToolFails, ToolEnds
  <2>2. worker'.call = worker.call /\ worker'.at # "run" /\ worker'.sent = worker.sent
    BY <1>0, <2>1
  <2>3. k \notin ToolEvents
    BY DEF ToolEvents
  <2> QED
    BY <1>0, <1>1, <2>1, <2>2, <2>3
<1>5. CASE DeadlinePushes
  <2>1. /\ Push(Update("deadline", worker.call)) /\ kern' = kern /\ batch' = batch
        /\ worker' = worker /\ up' = up
    BY <1>5 DEF DeadlinePushes
  <2>2. "deadline" \notin ToolEvents
    BY DEF ToolEvents
  <2> QED
    BY <1>0, <1>1, <2>1, <2>2
<1>6. CASE DeadlinePasses
  <2>1. kern' = kern /\ batch' = batch /\ queue' = queue /\ worker' = worker /\ up' = up
    BY <1>6 DEF DeadlinePasses
  <2> QED
    BY <2>1, StepAsks DEF AsksNothing
<1> QED
  BY <1>2, <1>3, <1>4, <1>5, <1>6 DEF ToolWorker, DeadlineWorker

(***************************************************************************)
(* Every step is one of the lifecycle.                                     *)
(***************************************************************************)
(* What a step of an up kernel amounts to. *)
LEMMA OwnerLife ==
  ASSUME TypeOK, LifeInv, up' = "up", Lives(kern, kern'), queue' = queue, worker' = worker,
         batch' = batch \/ (batch # <<>> /\ batch' = Tail(batch))
  PROVE  LifeInv' /\ LifeStep(kern, kern')
<1>1. AskedOnce' /\ Held(kern')
  BY StepAsks DEF LifeInv, Lives
<1> QED
  BY <1>1 DEF LifeInv, Held, Lives

(* A step that leaves the transaction alone. *)
LEMMA IdleLife ==
  ASSUME LifeInv, kern' = kern, up' = up, AskedOnce'
  PROVE  LifeInv' /\ LifeStep(kern, kern')
  BY DEF LifeInv, LifeStep, SamePhases

(* drain. *)
LEMMA UpdateLife ==
  ASSUME KernelInv, LifeInv, ProcessUpdate
  PROVE  LifeInv' /\ LifeStep(kern, kern')
<1>1. PICK K : Processing(K)
  BY DEF ProcessUpdate, ProcessBackendEvent, ProcessToolCallFinish, ProcessBackendStop,
         ProcessBackendEnded, ProcessToolUpdate, ProcessToolResult, ProcessToolFailure,
         ProcessDeadline, ProcessToolEnded
<1>2. /\ up = "up" /\ up' = "up" /\ batch # <<>> /\ batch' = Tail(batch)
      /\ queue' = queue /\ worker' = worker
  BY <1>1 DEF Processing
<1>3. TypeOK /\ Named /\ HeldHere /\ AskedOnce
  BY <1>2 DEF KernelInv, HeldHere, TypeOK, AuthorityInv, Good, ProtocolInv, LifeInv, Held
<1>4. CASE Lives(kern, kern')
  BY <1>2, <1>3, <1>4, OwnerLife
<1>5. CASE \/ ProcessBackendEvent \/ ProcessToolCallFinish \/ ProcessBackendStop
           \/ ProcessBackendEnded \/ ProcessToolResult \/ ProcessToolFailure
           \/ ProcessDeadline \/ ProcessToolEnded
  BY <1>3, <1>4, <1>5, BackendEventLives, ToolCallFinishLives, BackendStopLives,
     BackendEndedLives, ToolResultLives, ToolFailureLives, DeadlineLives, ToolEndedLives
<1>6. CASE ProcessToolUpdate
  <2>1. batch \in Seq(Updates) /\ Update1 \in Range(batch) /\ Update1 \in InFlight
    <3>1. batch \in Seq(Updates) /\ 1 \in DOMAIN batch /\ Update1 = batch[1]
      BY <1>2, <1>3 DEF TypeOK, Update1
    <3> QED
      BY <3>1 DEF Range, InFlight
  <2>2. Ask(Update1) => kern.state[Update1.call] # "awaiting_input"
    BY <1>3, <2>1 DEF AskedOnce
  <2>3. /\ Held(kern') /\ LifeStep(kern, kern')
        /\ AsksNothing(kern, kern') \/ AsksHere(Update1.call)
    BY <1>3, <1>6, <2>2, ToolUpdateLives
  <2>4. CASE AsksNothing(kern, kern')
    BY <1>4, <2>3, <2>4 DEF Lives
  <2>5. CASE AsksHere(Update1.call)
    <3>1. AskedOnce'
      BY <1>2, <1>3, <2>5, PublishAsks
    <3> QED
      BY <2>3, <3>1 DEF LifeInv, Held
  <2> QED
    BY <2>3, <2>4, <2>5
<1> QED
  BY <1>5, <1>6 DEF ProcessUpdate

LEMMA DrainLife ==
  ASSUME KernelInv, FlightInv, LifeInv, Drain
  PROVE  LifeInv' /\ LifeStep(kern, kern')
<1>1. up = "up" /\ up' = "up"
  BY DEF Drain, DrainSwap, OwnerIdle, DrainLaunch, LaunchNextTool, SpawnTool, SpawnToolFails,
         SpawnBackend, SpawnBackendFails, ProcessUpdate, ProcessBackendEvent,
         ProcessToolCallFinish, ProcessBackendStop, ProcessBackendEnded, ProcessToolUpdate,
         ProcessToolResult, ProcessToolFailure, ProcessDeadline, ProcessToolEnded, Processing
<1>2. TypeOK /\ Named /\ HeldHere /\ AskedOnce /\ OwnerKept
  BY <1>1 DEF KernelInv, HeldHere, TypeOK, AuthorityInv, Good, ProtocolInv, LifeInv, Held
<1>3. ASSUME NEW m, DrainSwap(m)
      PROVE  LifeInv' /\ LifeStep(kern, kern')
  BY <1>1, <1>2, <1>3, SwapAsks, IdleLife DEF DrainSwap
<1>4. CASE DrainLaunch \/ LaunchNextTool \/ SpawnToolFails \/ SpawnBackendFails
  <2>1. Lives(kern, kern')
    BY <1>2, <1>4, DrainLaunchLives, LaunchLives, SpawnFailedLives, BackendFailedLives
  <2>2. queue' = queue /\ worker' = worker /\ batch' = batch
    BY <1>4 DEF DrainLaunch, LaunchNextTool, SpawnToolFails, SpawnBackendFails
  <2> QED
    BY <1>1, <1>2, <2>1, <2>2, OwnerLife
<1>5. CASE ProcessUpdate
  BY <1>5, UpdateLife
<1>6. CASE SpawnTool
  <2>1. /\ kern' = kern /\ queue' = queue /\ batch' = batch /\ pc = "spawn"
        /\ worker' = [at |-> "run", sent |-> 0, call |-> kern.active.tool]
    BY <1>6 DEF SpawnTool
  <2>2. Quiescent
    BY <2>1, OwnerQuiescent
  <2>3. \A u \in InFlight' : ~Ask(u)
    BY <2>1, <2>2 DEF Quiescent, Ask, ToolUpdate, InFlight
  <2>4. kern'.state[worker'.call] # "awaiting_input"
    BY <1>2, <2>1 DEF OwnerKept
  <2>5. /\ \A i \in DOMAIN batch' : batch'[i] \in InFlight'
        /\ \A i \in DOMAIN queue' : queue'[i] \in InFlight'
        /\ Range(batch') \subseteq InFlight'
    BY DEF InFlight, Range
  <2>6. AskedOnce'
    BY <2>3, <2>4, <2>5 DEF AskedOnce, AsksOnce, Ask
  <2> QED
    BY <1>1, <2>1, <2>6, IdleLife
<1>7. CASE SpawnBackend
  <2>1. kern' = kern /\ queue' = queue /\ batch' = batch /\ worker' = worker
    BY <1>7 DEF SpawnBackend
  <2>2. AskedOnce'
    BY <1>2, <2>1, StepAsks DEF AsksNothing
  <2> QED
    BY <1>1, <2>1, <2>2, IdleLife
<1> QED
  BY <1>3, <1>4, <1>5, <1>6, <1>7 DEF Drain

(* The calls of the surface. *)
LEMMA SurfaceLife ==
  ASSUME KernelInv, LifeInv, Surface
  PROVE  LifeInv' /\ LifeStep(kern, kern')
<1>1. /\ up = "up" /\ up' = "up" /\ queue' = queue /\ batch' = batch /\ worker' = worker
  BY DEF Surface, Start, ContinueRun, CancelRun, ResolveQuestions, DecideApproval, OwnerIdle,
         Continuable
<1>2. TypeOK /\ HeldHere
  BY <1>1 DEF KernelInv, HeldHere, TypeOK, AuthorityInv, Good, ProtocolInv, LifeInv, Held
<1>3. Lives(kern, kern')
  BY <1>2, StartLives, ContinueLives, CancelLives, DecideLives, ResolveLives DEF Surface
<1> QED
  BY <1>1, <1>2, <1>3, OwnerLife

(* Every step keeps LifeInv, and is a step of the lifecycle. *)
LEMMA LifeKept ==
  ASSUME KernelInv, FlightInv, LifeInv, [Next]_vars
  PROVE  LifeInv' /\ LifeStep(kern, kern')
<1>0. TypeOK /\ AskedOnce
  BY DEF KernelInv, LifeInv
<1>q. Quiescent' => AskedOnce'
  BY QuiescentAsks, PTL
<1>1. CASE BackendWorker \/ ToolWorker \/ DeadlineWorker
  BY <1>0, <1>1, WorkersAsk, IdleLife
<1>2. CASE Drain
  BY <1>2, DrainLife
<1>3. CASE Surface
  BY <1>3, SurfaceLife
<1>4. ASSUME NEW how \in {"down", "unusable"}, KernelStops(how)
      PROVE  LifeInv' /\ LifeStep(kern, kern')
  <2>1. up = "up" /\ up' # "up"
    BY <1>4 DEF KernelStops
  <2>2. HeldHere
    BY <2>1 DEF KernelInv, HeldHere, TypeOK, AuthorityInv, Good, ProtocolInv, LifeInv, Held
  <2>3. InFlight' = {}
    BY <1>4, EmptyRange DEF KernelStops, InFlight
  <2>4. Quiescent'
    BY <1>4, <2>3 DEF KernelStops, Quiescent, IdleBackend, IdleWorker
  <2>5. LogHeld(kern') /\ LifeStep(kern, kern')
    BY <1>4, <2>2, StopsHeld
  <2> QED
    BY <1>q, <2>1, <2>4, <2>5 DEF LifeInv
<1>5. CASE Reopen
  <2>1. ~kern.active.live
    BY <1>5 DEF Reopen, KernelInv, ProtocolInv, OwnerKept
  <2>2. Quiescent
    BY <2>1, OwnerQuiescent
  <2>3. UNCHANGED <<queue, batch, backend, worker, deadline>>
    BY <1>5 DEF Reopen
  <2>4. AskedOnce'
    BY <1>q, <2>2, <2>3, QuiescentStays
  <2>5. kern.state = NoInvocations
    BY <2>1 DEF KernelInv, ProtocolInv, Kept, ActiveKept, Stopped
  <2>6. DownHere
    BY <2>1, <2>5
       DEF DownHere, KernelInv, TypeOK, AuthorityInv, Good, ProtocolInv, LifeInv, NoInvocations
  <2>7. LogHeld(kern') /\ LifeStep(kern, kern') /\ (up' = "up" => RunHeld(kern'))
    BY <1>5, <2>6, ReopenHeld
  <2> QED
    BY <2>4, <2>7 DEF LifeInv
<1>6. CASE UNCHANGED vars
  <2>1. kern' = kern /\ queue' = queue /\ batch' = batch /\ worker' = worker /\ up' = up
    BY <1>6 DEF vars
  <2>2. AskedOnce'
    BY <1>0, <2>1, StepAsks DEF AsksNothing
  <2> QED
    BY <2>1, <2>2, IdleLife
<1> QED
  BY <1>1, <1>2, <1>3, <1>4, <1>5, <1>6 DEF Next

(* A new session. *)
LEMMA LifeInit == Init => LifeInv /\ Lifecycle!Init
<1> SUFFICES ASSUME Init
             PROVE  LifeInv /\ Lifecycle!Init
  OBVIOUS
<1>1. /\ kern.proj.status = "not_started" /\ kern.question = None /\ kern.order = <<>>
      /\ kern.active = NoActive
      /\ \A c \in Calls : kern.log[c] = Unproposed /\ kern.state[c] = "absent"
  BY DEF Init, EmptyLog, NotStarted, NoInvocations
<1>2. \A c \in Calls : /\ ~kern.log[c].started /\ kern.log[c].done = "no"
                       /\ kern.log[c].spend = "none" /\ ~kern.log[c].proposed
                       /\ kern.log[c].policy = "none" /\ kern.log[c].approval = "none"
  BY <1>1 DEF Unproposed
<1>3. LogHeld(kern)
  BY <1>1, <1>2, KernelAssumption DEF LogHeld, QuestionHeld, ReservedHeld, RequireRunning
<1>4. RunHeld(kern)
  BY <1>1, <1>2 DEF RunHeld, Reserves, NoActive
<1>5. AskedOnce
  <2>1. InFlight = {}
    BY EmptyRange DEF Init, InFlight
  <2>2. Quiescent
    BY <2>1 DEF Init, Quiescent, IdleBackend, IdleWorker
  <2> QED
    BY <2>2, QuiescentAsks
<1>6. \A c \in Calls : Phase(c) = "idle"
  BY <1>2 DEF Phase
<1> QED
  BY <1>3, <1>4, <1>5, <1>6 DEF LifeInv, Lifecycle!Init

(* ToolLifecycle is implemented: whatever the provider, the executors, the user,
   the policy, failed threads and restarts do, a tool call of the session is
   proposed once, is executed only after a policy or the user has allowed it,
   executes at most once and alone, and is closed once; after a restart only an
   approval that no executor has used is asked for again. *)
THEOREM LifecycleIsImplemented == Spec => ImplementsLifecycle
<1>1. Spec => [](KernelInv /\ FlightInv)
  BY FlightInvariant
<1>2. Init => LifeInv /\ Lifecycle!Init
  BY LifeInit
<1>3. KernelInv /\ FlightInv /\ LifeInv /\ [Next]_vars =>
        LifeInv' /\ [Lifecycle!Next]_[c \in Calls |-> Phase(c)]
  BY LifeKept, LifeStepIsStep
<1> QED
  BY <1>1, <1>2, <1>3, PTL DEF Spec, ImplementsLifecycle, Lifecycle!Spec
===============================================================================
