-------------------------- MODULE RunKernelProtocol --------------------------
(***************************************************************************)
(* Proofs about the protocol of the run kernel: its flags agree with the   *)
(* projection of its events, tools run in the order the provider asked for *)
(* them, what is recorded is accepted, and nothing a worker said reaches a *)
(* later inference or tool.                                                *)
(***************************************************************************)
EXTENDS RunKernelProofs, RunKernelApprovals

(***************************************************************************)
(* The inductive invariant.                                                *)
(***************************************************************************)
(* What the session log says by itself, also between a stop and open_durable:
   a batch names each call once, in an order that its tools keep, and nothing was
   recorded of a call before it was proposed; the batch comes after its inference; and the approvals of a run that is not over are those its
   batch has asked for and not closed. *)
Decidable(f) == f.approval = "requested" /\ f.done = "no"
OrderKept(t) ==
  \A i, j \in DOMAIN t.order :
    /\ i # j => t.order[i] # t.order[j]
    /\ i < j /\ t.log[t.order[j]].started => t.log[t.order[i]].done # "no"
ProjectionKept(t) ==
  /\ t.proj.inferring => t.order = <<>> /\ t.proj.status = "running"
  /\ t.proj.status = "not_started" => \A c \in Calls : ~t.log[c].proposed
  /\ RequireRunning(t.proj) =>
       \A c \in Calls : c \in t.proj.pending <=>
                          c \in Range(t.order) /\ Decidable(t.log[c])
ProposalsKept(t) ==
  /\ \A i \in DOMAIN t.order : t.log[t.order[i]].proposed
  /\ \A c \in Calls : ~t.log[c].proposed => t.log[c].done = "no" /\ t.log[c].spend = "none"
BatchKept(t) == OrderKept(t) /\ ProposalsKept(t)
LogKept(t) == BatchKept(t) /\ ProjectionKept(t)

(* What the active run adds. *)
Stopped(t) == t.active = NoActive /\ t.state = NoInvocations
RunIsOver(t) ==
  /\ t.proj.status \in RunOver
  /\ t.active.inference => t.active.backendDone
  /\ t.active.tool \in Calls => t.state[t.active.tool] = "terminal"
FlagsAgree(t) ==
  /\ RequireRunning(t.proj)
  /\ t.proj.inferring <=> (t.active.inference /\ ~t.active.backendDone)
  /\ ~t.active.inference => ~t.active.backendDone
  /\ t.active.tool \in Calls =>
       t.state[t.active.tool] \in {"running", "awaiting_input", "terminal"}
CallAgrees(t, c) ==
  /\ t.state[c] # "absent" <=> c \in Range(t.order)
  /\ t.state[c] = "terminal" <=> (c \in Range(t.order) /\ t.log[c].done # "no")
  /\ t.state[c] = "awaiting_approval" <=> (c \in Range(t.order) /\ Decidable(t.log[c]))
  /\ t.state[c] = "running" => t.active.tool = c /\ t.log[c].started
  /\ t.state[c] = "awaiting_input" => t.log[c].started
RunIsOpen(t) == FlagsAgree(t) /\ \A c \in Calls : CallAgrees(t, c)
ActiveKept(t) ==
  /\ t.active.inference => t.active.tool = None
  /\ ~t.active.live => Stopped(t)
  /\ t.active.live /\ t.active.over => RunIsOver(t)
  /\ t.active.live /\ ~t.active.over => RunIsOpen(t)

(* The calls being streamed are different from each other. *)
StreamKept(t) ==
  \A i, j \in DOMAIN t.active.calls : i # j => t.active.calls[i] # t.active.calls[j]

Kept(t) == LogKept(t) /\ ActiveKept(t) /\ StreamKept(t)

(* Where the owner thread is. *)
OwnerKept ==
  /\ up # "up" => ~kern.active.live /\ pc = "ready"
  /\ pc = "spawn" => /\ kern.active.live /\ ~kern.active.over
                     /\ kern.active.tool \in Calls
                     /\ kern.state[kern.active.tool] = "running"
  /\ pc = "backend" => /\ kern.active.live /\ ~kern.active.over
                       /\ kern.active.inference /\ ~kern.active.backendDone

ProtocolInv == Kept(kern) /\ OwnerKept

(***************************************************************************)
(* Transactions that leave the order alone.                                *)
(***************************************************************************)
(* Nothing starts, and what is closed stays closed. *)
LogGrows(t, u) ==
  /\ u.order = t.order
  /\ \A c \in Calls : /\ u.log[c].started = t.log[c].started
                      /\ t.log[c].done # "no" => u.log[c].done # "no"
                      /\ u.log[c].proposed = t.log[c].proposed
                      /\ ~t.log[c].proposed =>
                           u.log[c].done = t.log[c].done /\ u.log[c].spend = t.log[c].spend

(* A batch consists of calls. *)
LEMMA OrderType ==
  ASSUME NEW t \in Transactions
  PROVE  /\ t.order \in Seq(Calls) /\ Range(t.order) \subseteq Calls
         /\ \A i \in DOMAIN t.order : t.order[i] \in Calls /\ t.order[i] \in Range(t.order)
         /\ t.active.calls \in Seq(Calls) /\ Range(t.active.calls) \subseteq Calls
         /\ DOMAIN t.order \subseteq Nat
<1>1. t.order \in Seq(Calls) /\ t.active.calls \in Seq(Calls)
  BY DEF Transactions, ActiveRuns
<1> QED
  BY <1>1 DEF Range

(* The order of a batch survives what only closes calls. *)
LEMMA OrderStays ==
  ASSUME NEW t \in Transactions, BatchKept(t), NEW u, LogGrows(t, u)
  PROVE  BatchKept(u)
<1>1. OrderKept(u)
  BY OrderType DEF BatchKept, OrderKept, LogGrows
<1>2. ProposalsKept(u)
  BY OrderType DEF BatchKept, ProposalsKept, LogGrows
<1> QED
  BY <1>1, <1>2 DEF BatchKept

(* active.reset() keeps what the log says. *)
LEMMA ResetKept ==
  ASSUME NEW t \in Transactions, LogKept(t)
  PROVE  Kept(ResetActive(t)) /\ LogGrows(t, ResetActive(t))
<1> DEFINE u == ResetActive(t)
<1>1. /\ u.active = NoActive /\ u.state = NoInvocations /\ u.proj = t.proj
      /\ u.log = t.log /\ u.order = t.order
  BY DEF ResetActive, Transactions
<1> HIDE DEF u
<1>2. LogKept(u) /\ LogGrows(t, u)
  BY <1>1 DEF LogKept, BatchKept, OrderKept, ProposalsKept, ProjectionKept, LogGrows
<1>3. u.active.calls = <<>> /\ ~u.active.live /\ u.active.tool = None
  BY <1>1 DEF NoActive
<1>4. ActiveKept(u) /\ StreamKept(u)
  BY <1>1, <1>3 DEF ActiveKept, StreamKept, Stopped
<1>5. Kept(u) /\ LogGrows(t, u)
  BY <1>2, <1>4 DEF Kept
<1> QED
  BY <1>5 DEF u

(* A run whose last event is a terminal one. *)
LEMMA OverKept ==
  ASSUME NEW t \in Transactions, BatchKept(t), StreamKept(t),
         NEW u, LogGrows(t, u), u.active.calls = t.active.calls,
         u.active.live, u.active.over, RunIsOver(u), ~u.proj.inferring,
         u.active.inference => u.active.tool = None
  PROVE  Kept(u)
<1>1. BatchKept(u)
  BY OrderStays
<1>2. ~RequireRunning(u.proj)
  BY DEF RunIsOver, RunOver, RequireRunning
<1>3. LogKept(u)
  BY <1>1, <1>2 DEF LogKept, ProjectionKept, RunIsOver, RunOver
<1> QED
  BY <1>3 DEF Kept, ActiveKept, StreamKept

(* fail_live_run ends the run. *)
LEMMA FailKept ==
  ASSUME NEW t \in Transactions, BatchKept(t), StreamKept(t), t.active.live,
         t.active.inference => t.active.tool = None
  PROVE  /\ Kept(FailLiveRun(t)) /\ LogGrows(t, FailLiveRun(t))
         /\ FailLiveRun(t).active.live /\ FailLiveRun(t).active.over
<1> DEFINE u == FailLiveRun(t)
<1>1. /\ u.proj = RunEnded(t.proj, "failed") /\ u.order = t.order
      /\ u.active = [t.active EXCEPT !.backendDone = TRUE, !.ackExpected = TRUE, !.over = TRUE]
      /\ \A c \in Calls : /\ u.log[c] = IF c = t.active.tool THEN Reconciled(t.log[c])
                                        ELSE t.log[c]
                          /\ u.state[c] = IF c = t.active.tool THEN "terminal"
                                          ELSE t.state[c]
  BY DEF FailLiveRun, Transactions
<1>2. \A c \in Calls : /\ Reconciled(t.log[c]).started = t.log[c].started
                       /\ Reconciled(t.log[c]).done = t.log[c].done
                       /\ Reconciled(t.log[c]).proposed = t.log[c].proposed
                       /\ ~t.log[c].proposed =>
                            Reconciled(t.log[c]).spend = t.log[c].spend
  BY DEF Reconciled, Transactions, CallFacts, BatchKept, ProposalsKept
<1>3. /\ u.active.live /\ u.active.over /\ u.active.backendDone
      /\ u.active.tool = t.active.tool /\ u.active.inference = t.active.inference
      /\ u.active.calls = t.active.calls
  BY <1>1 DEF Transactions, ActiveRuns
<1>4. u.proj.status \in RunOver /\ ~u.proj.inferring
  BY <1>1 DEF RunEnded, RunOver
<1> HIDE DEF u
<1>5. LogGrows(t, u)
  BY <1>1, <1>2 DEF LogGrows
<1>6. RunIsOver(u)
  BY <1>1, <1>3, <1>4 DEF RunIsOver
<1>7. Kept(u)
  BY <1>3, <1>4, <1>5, <1>6, OverKept
<1> QED
  BY <1>3, <1>5, <1>7 DEF u

(* A handler that fails the run or is dropped. *)
LEMMA FailOrDropKept ==
  ASSUME kern \in Transactions, Kept(kern),
         NEW t \in Transactions, BatchKept(t), StreamKept(t), LogGrows(kern, t),
         t.active.inference => t.active.tool = None
  PROVE  Kept(FailOrDrop(t)) /\ LogGrows(kern, FailOrDrop(t))
<1>1. LogGrows(kern, kern)
  BY DEF LogGrows
<1>2. CASE t.active.live /\ ~t.active.over
  <2>1. Kept(FailLiveRun(t)) /\ LogGrows(t, FailLiveRun(t))
    BY <1>2, FailKept
  <2> QED
    BY <1>2, <2>1 DEF FailOrDrop, LogGrows
<1> QED
  BY <1>1, <1>2 DEF FailOrDrop

(* A failed handler of the active run. *)
LEMMA FailOrDropHere ==
  ASSUME kern \in Transactions, Kept(kern)
  PROVE  Kept(FailOrDrop(kern)) /\ LogGrows(kern, FailOrDrop(kern))
  BY FailOrDropKept DEF Kept, LogKept, ActiveKept, LogGrows
(***************************************************************************)
(* Transactions of an open run.                                            *)
(***************************************************************************)
OpenRun(t) == Kept(t) /\ t.active.live /\ ~t.active.over

(* Closing calls that are not waiting for an approval. *)
LEMMA ClosedKept ==
  ASSUME NEW t \in Transactions, OpenRun(t), NEW u, NEW C \in SUBSET Range(t.order),
         u.proj = t.proj, u.order = t.order, u.active = t.active,
         \A c \in C : ~Decidable(t.log[c]),
         \A c \in Calls : IF c \in C THEN /\ u.state[c] = "terminal"
                                          /\ u.log[c].done # "no"
                                          /\ u.log[c].started = t.log[c].started
                                          /\ u.log[c].proposed = t.log[c].proposed
                                     ELSE u.state[c] = t.state[c] /\ u.log[c] = t.log[c]
  PROVE  OpenRun(u) /\ LogGrows(t, u)
<1>0. \A c \in C : t.log[c].proposed
  BY OrderType DEF OpenRun, Kept, LogKept, BatchKept, ProposalsKept, Range
<1>1. LogGrows(t, u)
  BY <1>0 DEF LogGrows
<1>2. BatchKept(u)
  BY <1>1, OrderStays DEF OpenRun, Kept, LogKept
<1>3. Range(t.order) \subseteq Calls
  BY OrderType
<1>4. ProjectionKept(u)
  BY <1>3 DEF ProjectionKept, OpenRun, Kept, LogKept, Decidable
<1>5. FlagsAgree(t) /\ \A c \in Calls : CallAgrees(t, c)
  BY DEF OpenRun, Kept, ActiveKept, RunIsOpen
<1>6. FlagsAgree(u)
  BY <1>5 DEF FlagsAgree
<1>7. \A c \in Calls : CallAgrees(u, c)
  BY <1>3, <1>5 DEF CallAgrees, Decidable
<1> QED
  BY <1>1, <1>2, <1>4, <1>6, <1>7
     DEF OpenRun, Kept, LogKept, ActiveKept, RunIsOpen, StreamKept

(* record_tool_error. *)
LEMMA ErrorKept ==
  ASSUME NEW t \in Transactions, OpenRun(t), NEW C \in SUBSET Range(t.order),
         \A c \in C : ~Decidable(t.log[c])
  PROVE  OpenRun(RecordToolError(t, C)) /\ LogGrows(t, RecordToolError(t, C))
<1> DEFINE u == RecordToolError(t, C)
           e(c) == [Reconciled(t.log[c]) EXCEPT !.done = "error"]
<1>1. /\ u.proj = t.proj /\ u.order = t.order /\ u.active = t.active
      /\ \A c \in Calls : /\ u.log[c] = IF c \in C THEN e(c) ELSE t.log[c]
                          /\ u.state[c] = IF c \in C THEN "terminal" ELSE t.state[c]
  BY DEF RecordToolError, Transactions
<1>2. \A c \in Calls : e(c).done # "no" /\ e(c).started = t.log[c].started
                       /\ e(c).proposed = t.log[c].proposed
  BY DEF Reconciled, Transactions, CallFacts
<1> HIDE DEF u, e
<1>4. \A c \in Calls : IF c \in C THEN /\ u.state[c] = "terminal"
                                        /\ u.log[c].done # "no"
                                        /\ u.log[c].started = t.log[c].started
                                        /\ u.log[c].proposed = t.log[c].proposed
                        ELSE u.state[c] = t.state[c] /\ u.log[c] = t.log[c]
  BY <1>1, <1>2
<1>3. OpenRun(u) /\ LogGrows(t, u)
  BY <1>1, <1>4, ClosedKept
<1> QED
  BY <1>3 DEF u

(* The running tool is closed with its result. *)
LEMMA ResultKept ==
  ASSUME NEW t \in Transactions, OpenRun(t), NEW c \in Range(t.order),
         ~Decidable(t.log[c]), NEW d
  PROVE  OpenRun(RecordToolResult(t, c, d)) /\ LogGrows(t, RecordToolResult(t, c, d))
<1> DEFINE u == RecordToolResult(t, c, d)
           r == [t.log[c] EXCEPT !.spend = d, !.done = "result"]
<1>0. c \in Calls
  BY OrderType
<1>1. /\ u.proj = t.proj /\ u.order = t.order /\ u.active = t.active
      /\ \A x \in Calls : /\ u.log[x] = IF x = c THEN r ELSE t.log[x]
                          /\ u.state[x] = IF x = c THEN "terminal" ELSE t.state[x]
  BY <1>0 DEF RecordToolResult, Transactions
<1>2. r.done # "no" /\ r.started = t.log[c].started /\ r.proposed = t.log[c].proposed
  BY <1>0 DEF Transactions, CallFacts
<1> HIDE DEF u, r
<1>3. {c} \in SUBSET Range(t.order) /\ \A x \in {c} : ~Decidable(t.log[x])
  OBVIOUS
<1>4. \A x \in Calls : IF x \in {c} THEN /\ u.state[x] = "terminal"
                                          /\ u.log[x].done # "no"
                                          /\ u.log[x].started = t.log[x].started
                                          /\ u.log[x].proposed = t.log[x].proposed
                        ELSE u.state[x] = t.state[x] /\ u.log[x] = t.log[x]
  BY <1>1, <1>2
<1>5. OpenRun(u) /\ LogGrows(t, u)
  BY <1>1, <1>3, <1>4, ClosedKept
<1> QED
  BY <1>5 DEF u

(* The active tool of an open run is a call of its batch that waits for no
   approval. *)
LEMMA ToolIsOfBatch ==
  ASSUME NEW t \in Transactions, OpenRun(t), t.active.tool \in Calls
  PROVE  t.active.tool \in Range(t.order) /\ ~Decidable(t.log[t.active.tool])
<1>1. FlagsAgree(t) /\ CallAgrees(t, t.active.tool)
  BY DEF OpenRun, Kept, ActiveKept, RunIsOpen
<1> QED
  BY <1>1 DEF FlagsAgree, CallAgrees

(* A spend disposition changes no more. *)
LEMMA SpendKept ==
  ASSUME NEW t \in Transactions, OpenRun(t), NEW c \in Range(t.order), NEW d
  PROVE  LET u == [t EXCEPT !.log[c].spend = d] IN
         /\ OpenRun(u) /\ LogGrows(t, u) /\ u.order = t.order
         /\ \A x \in Calls : Decidable(u.log[x]) <=> Decidable(t.log[x])
<1> DEFINE u == [t EXCEPT !.log[c].spend = d]
           r == [t.log[c] EXCEPT !.spend = d]
<1>0. c \in Calls /\ t.log[c].proposed
  BY OrderType DEF OpenRun, Kept, LogKept, BatchKept, ProposalsKept, Range
<1>1. /\ u.proj = t.proj /\ u.order = t.order /\ u.active = t.active /\ u.state = t.state
      /\ \A x \in Calls : u.log[x] = IF x = c THEN r ELSE t.log[x]
  BY <1>0 DEF Transactions
<1>2. /\ r.done = t.log[c].done /\ r.started = t.log[c].started
      /\ r.approval = t.log[c].approval /\ r.proposed = t.log[c].proposed
  BY <1>0 DEF Transactions, CallFacts
<1> HIDE DEF u, r
<1>3. LogGrows(t, u) /\ \A x \in Calls : Decidable(u.log[x]) <=> Decidable(t.log[x])
  BY <1>0, <1>1, <1>2 DEF LogGrows, Decidable
<1>4. BatchKept(u)
  BY <1>3, OrderStays DEF OpenRun, Kept, LogKept
<1>5. ProjectionKept(u)
  BY <1>1, <1>3 DEF ProjectionKept, OpenRun, Kept, LogKept, LogGrows
<1>6. FlagsAgree(u)
  BY <1>1 DEF FlagsAgree, OpenRun, Kept, ActiveKept, RunIsOpen
<1>7. ASSUME NEW x \in Calls
      PROVE  CallAgrees(u, x)
  <2>1. CallAgrees(t, x)
    BY DEF OpenRun, Kept, ActiveKept, RunIsOpen
  <2>2. u.log[x].done = t.log[x].done /\ u.log[x].started = t.log[x].started
    BY <1>1, <1>2
  <2> QED
    BY <1>1, <1>3, <2>1, <2>2 DEF CallAgrees
<1>8. OpenRun(u)
  BY <1>1, <1>4, <1>5, <1>6, <1>7
     DEF OpenRun, Kept, LogKept, ActiveKept, RunIsOpen, StreamKept
<1> QED
  BY <1>1, <1>3, <1>8 DEF u
(* A terminal event of the inference ends the run. *)
LEMMA StopsKept ==
  ASSUME kern \in Transactions, OpenRun(kern), Streaming, NEW o \in RunOver
  PROVE  Kept(RunStops(o)) /\ LogGrows(kern, RunStops(o))
<1> DEFINE u == RunStops(o)
<1>1. /\ u.proj = RunEnded(kern.proj, o) /\ u.order = kern.order /\ u.log = kern.log
      /\ u.active = [kern.active EXCEPT !.backendDone = TRUE, !.over = TRUE]
      /\ u.state = kern.state
  BY DEF RunStops, Transactions
<1>2. /\ u.active.live /\ u.active.over /\ u.active.backendDone
      /\ u.active.tool = kern.active.tool /\ u.active.inference = kern.active.inference
      /\ u.active.calls = kern.active.calls
  BY <1>1 DEF Transactions, ActiveRuns, OpenRun
<1>3. u.proj.status \in RunOver /\ ~u.proj.inferring
  BY <1>1 DEF RunEnded
<1> HIDE DEF u
<1>4. LogGrows(kern, u)
  BY <1>1 DEF LogGrows
<1>5. kern.active.tool = None /\ None \notin Calls
  BY KernelAssumption DEF Streaming, Inferring, OpenRun, Kept, ActiveKept
<1>6. RunIsOver(u)
  BY <1>2, <1>3, <1>5 DEF RunIsOver
<1>7. Kept(u)
  BY <1>2, <1>3, <1>4, <1>5, <1>6, OverKept DEF OpenRun, Kept, LogKept
<1> QED
  BY <1>4, <1>7 DEF u

(* The calls of a response become the batch. *)
LEMMA ProposedKept ==
  ASSUME kern \in Transactions, Good(kern), OpenRun(kern), Streaming
  PROVE  LET u == Proposed(Range(kern.active.calls)) IN
         /\ OpenRun(u) /\ Range(u.order) = Range(kern.active.calls)
         /\ \A c \in Range(u.order) : ~Decidable(u.log[c])
<1> DEFINE new == Range(kern.active.calls)
           u == Proposed(new)
           g(c) == [kern.log[c] EXCEPT !.proposed = TRUE]
<1>1. /\ u.proj = InferenceEnded(kern.proj) /\ u.order = kern.active.calls
      /\ u.active = [kern.active EXCEPT !.backendDone = TRUE]
      /\ \A c \in Calls : /\ u.log[c] = IF c \in new THEN g(c) ELSE kern.log[c]
                          /\ u.state[c] = IF c \in new THEN "proposed" ELSE kern.state[c]
  BY DEF Proposed, Transactions
<1>2. /\ u.active.live /\ ~u.active.over /\ u.active.inference /\ u.active.backendDone
      /\ u.active.tool = kern.active.tool /\ u.active.calls = kern.active.calls
  BY <1>1 DEF Transactions, ActiveRuns, OpenRun, Streaming, Inferring
<1>3. /\ u.proj.status = kern.proj.status /\ ~u.proj.inferring
      /\ u.proj.pending = kern.proj.pending
  BY <1>1 DEF InferenceEnded, Transactions, Projections
<1>4. \A c \in Calls : /\ g(c).proposed /\ g(c).started = kern.log[c].started
                       /\ g(c).done = kern.log[c].done /\ g(c).approval = kern.log[c].approval
                       /\ g(c).spend = kern.log[c].spend
  BY DEF Transactions, CallFacts
<1> HIDE DEF u, g
<1>5. new \subseteq Calls /\ kern.active.calls \in Seq(Calls)
  BY OrderType
<1>6. \A c \in new : ~kern.log[c].proposed /\ ~kern.log[c].started /\ kern.log[c].done = "no"
                     /\ kern.log[c].approval = "none"
  BY <1>5 DEF Good, LogAgrees, FactsAgree, StreamedCallsAreNew, Streaming, OpenRun, Kept,
              LogKept, BatchKept, ProposalsKept
<1>7. RunIsOpen(kern) /\ FlagsAgree(kern) /\ kern.proj.inferring /\ kern.order = <<>>
      /\ kern.active.tool = None
  BY DEF OpenRun, Kept, ActiveKept, RunIsOpen, FlagsAgree, Streaming, Inferring, LogKept,
         ProjectionKept
<1>8. Range(kern.order) = {}
  BY <1>7 DEF Range
<1>9. BatchKept(u)
  <2>1. \A i \in DOMAIN u.order : u.order[i] \in new
    BY <1>1 DEF Range
  <2>2. OrderKept(u)
    BY <1>1, <1>4, <1>5, <1>6, <2>1 DEF OrderKept, OpenRun, Kept, StreamKept
  <2>3. ProposalsKept(u)
    BY <1>1, <1>4, <1>5, <2>1 DEF ProposalsKept, OpenRun, Kept, LogKept, BatchKept
  <2> QED
    BY <2>2, <2>3 DEF BatchKept
<1>10. \A c \in new : ~Decidable(u.log[c])
  BY <1>1, <1>4, <1>5, <1>6 DEF Decidable
<1>11. kern.proj.pending = {}
  BY <1>7, <1>8 DEF OpenRun, Kept, LogKept, ProjectionKept, FlagsAgree, Transactions,
                    Projections
<1>12. ProjectionKept(u)
  BY <1>1, <1>3, <1>7, <1>10, <1>11 DEF ProjectionKept, FlagsAgree, RequireRunning
<1>13. FlagsAgree(u)
  BY <1>2, <1>3, <1>7, KernelAssumption DEF FlagsAgree, RequireRunning
<1>14. ASSUME NEW c \in Calls
       PROVE  CallAgrees(u, c)
  <2>1. CallAgrees(kern, c) /\ kern.state[c] = "absent"
    BY <1>7, <1>8 DEF RunIsOpen, CallAgrees
  <2>2. CASE c \in new
    BY <1>1, <1>4, <1>6, <1>10, <2>2 DEF CallAgrees
  <2>3. CASE c \notin new
    BY <1>1, <2>1, <2>3 DEF CallAgrees
  <2> QED
    BY <2>2, <2>3
<1>15. OpenRun(u)
  BY <1>1, <1>2, <1>7, <1>9, <1>12, <1>13, <1>14
     DEF OpenRun, Kept, LogKept, ActiveKept, RunIsOpen, StreamKept
<1> QED
  BY <1>1, <1>10, <1>15 DEF u

(* The end of the inference, once its response is complete. *)
LEMMA BetweenKept ==
  ASSUME NEW t \in Transactions, OpenRun(t), t.active.inference, t.active.backendDone
  PROVE  /\ OpenRun(BetweenInferences(t)) /\ LogGrows(t, BetweenInferences(t))
         /\ ~BetweenInferences(t).active.inference
<1> DEFINE u == BetweenInferences(t)
<1>1. /\ u.proj = t.proj /\ u.order = t.order /\ u.log = t.log /\ u.state = t.state
      /\ u.active = [t.active EXCEPT !.inference = FALSE, !.response = FALSE,
                                     !.backendDone = FALSE, !.ackExpected = FALSE,
                                     !.calls = <<>>]
  BY DEF BetweenInferences, Transactions
<1>2. /\ u.active.live /\ ~u.active.over /\ ~u.active.inference /\ ~u.active.backendDone
      /\ u.active.tool = t.active.tool /\ u.active.calls = <<>>
  BY <1>1 DEF Transactions, ActiveRuns, OpenRun
<1> HIDE DEF u
<1>3. LogGrows(t, u) /\ LogKept(u)
  BY <1>1 DEF LogGrows, OpenRun, Kept, LogKept, BatchKept, OrderKept, ProposalsKept,
              ProjectionKept
<1>4. FlagsAgree(u)
  BY <1>1, <1>2 DEF FlagsAgree, OpenRun, Kept, ActiveKept, RunIsOpen
<1>5. \A c \in Calls : CallAgrees(u, c)
  BY <1>1, <1>2 DEF CallAgrees, OpenRun, Kept, ActiveKept, RunIsOpen
<1>6. StreamKept(u)
  BY <1>2 DEF StreamKept
<1>7. OpenRun(u)
  BY <1>2, <1>3, <1>4, <1>5, <1>6 DEF OpenRun, Kept, ActiveKept, RunIsOpen
<1> QED
  BY <1>2, <1>3, <1>7 DEF u
(* The outcome of policy for calls that were proposed. *)
LEMMA PolicyKept ==
  ASSUME NEW t \in Transactions, Good(t), OpenRun(t), ~t.active.inference,
         NEW C \in SUBSET Calls, NEW out,
         \A c \in C : t.state[c] = "proposed" /\ out[c] \in Outcomes \ {"malformed"}
  PROVE  OpenRun(ApplyPolicy(t, C, out)) /\ LogGrows(t, ApplyPolicy(t, C, out))
<1> DEFINE requested == {c \in C : out[c] = "require"}
           closed == {c \in C : out[c] \in {"deny", "error", "unpresentable"}}
           u == [t EXCEPT
                   !.proj = ApprovalRequested(t.proj, requested),
                   !.log = [c \in Calls |-> IF c \in C THEN Judged(t.log[c], out[c])
                                            ELSE t.log[c]],
                   !.state = [c \in Calls |-> IF c \in requested THEN "awaiting_approval"
                                             ELSE IF c \in C /\ out[c] = "allow" THEN "allowed"
                                             ELSE t.state[c]]]
<1>1. ApplyPolicy(t, C, out) = RecordToolError(u, closed)
  BY DEF ApplyPolicy
<1>2. /\ u.order = t.order /\ u.active = t.active
      /\ u.proj = ApprovalRequested(t.proj, requested)
      /\ \A c \in Calls :
           /\ u.log[c] = IF c \in C THEN Judged(t.log[c], out[c]) ELSE t.log[c]
           /\ u.state[c] = IF c \in requested THEN "awaiting_approval"
                           ELSE IF c \in C /\ out[c] = "allow" THEN "allowed"
                           ELSE t.state[c]
  BY DEF Transactions
<1>3. u \in Transactions
  <2>1. ApprovalRequested(t.proj, requested) \in Projections(Calls)
    BY RequestedType DEF Transactions
  <2>2. [c \in Calls |-> IF c \in C THEN Judged(t.log[c], out[c]) ELSE t.log[c]]
          \in [Calls -> CallFacts]
    BY JudgedType DEF Transactions
  <2>3. [c \in Calls |-> IF c \in requested THEN "awaiting_approval"
                         ELSE IF c \in C /\ out[c] = "allow" THEN "allowed"
                         ELSE t.state[c]] \in [Calls -> InvocationStates]
    BY DEF Transactions, InvocationStates
  <2> QED
    BY <2>1, <2>2, <2>3 DEF Transactions
<1>4. /\ u.proj.pending = t.proj.pending \cup requested
      /\ u.proj.inferring = t.proj.inferring
      /\ RequireRunning(t.proj) => RequireRunning(u.proj)
  BY <1>2 DEF ApprovalRequested, Transactions, Projections, RequireRunning
<1> HIDE DEF u
<1>5. ASSUME NEW c \in C
      PROVE  LET g == Judged(t.log[c], out[c]) IN
             /\ g.started = t.log[c].started /\ g.done = t.log[c].done
             /\ g.proposed = t.log[c].proposed /\ g.spend = t.log[c].spend
             /\ g.approval = IF out[c] = "require" THEN "requested" ELSE "none"
  <2>1. t.log[c] \in CallFacts /\ FactsAgree(t.log[c], "proposed")
    BY DEF Transactions, Good, LogAgrees
  <2> QED
    BY <2>1 DEF Judged, CallFacts, FactsAgree
<1>6. FlagsAgree(t) /\ \A c \in Calls : CallAgrees(t, c)
  BY DEF OpenRun, Kept, ActiveKept, RunIsOpen
<1>7. \A c \in C : c \in Range(t.order) /\ t.log[c].done = "no" /\ ~Decidable(t.log[c])
  BY <1>6 DEF CallAgrees
<1>8. LogGrows(t, u)
  BY <1>2, <1>5 DEF LogGrows
<1>9. BatchKept(u)
  BY <1>8, OrderStays DEF OpenRun, Kept, LogKept
<1>10. \A c \in Calls : Decidable(u.log[c]) <=> (Decidable(t.log[c]) \/ c \in requested)
  BY <1>2, <1>5, <1>7 DEF Decidable
<1>11. ~t.proj.inferring
  BY <1>6 DEF FlagsAgree
<1>12. ProjectionKept(u)
  BY <1>2, <1>4, <1>6, <1>7, <1>10, <1>11
     DEF ProjectionKept, OpenRun, Kept, LogKept, FlagsAgree, RequireRunning
<1>13. FlagsAgree(u)
  BY <1>2, <1>4, <1>6 DEF FlagsAgree
<1>14. ASSUME NEW c \in Calls
       PROVE  CallAgrees(u, c)
  <2>1. CASE c \in C
    <3>1. CallAgrees(t, c) /\ t.state[c] = "proposed" /\ c \in Range(t.order)
      BY <1>6, <1>7, <2>1
    <3>2. u.log[c].done = "no" /\ u.state[c] \in {"awaiting_approval", "allowed", "proposed"}
          /\ (u.state[c] = "awaiting_approval" <=> c \in requested)
      BY <1>2, <1>5, <1>7, <2>1
    <3> QED
      BY <1>2, <1>7, <1>10, <2>1, <3>1, <3>2 DEF CallAgrees
  <2>2. CASE c \notin C
    BY <1>2, <1>6, <2>2 DEF CallAgrees
  <2> QED
    BY <2>1, <2>2
<1>15. OpenRun(u)
  BY <1>2, <1>9, <1>12, <1>13, <1>14
     DEF OpenRun, Kept, LogKept, ActiveKept, RunIsOpen, StreamKept
<1>16. closed \in SUBSET Range(u.order) /\ \A c \in closed : ~Decidable(u.log[c])
  BY <1>2, <1>7, <1>10
<1>17. OpenRun(RecordToolError(u, closed)) /\ LogGrows(u, RecordToolError(u, closed))
  BY <1>3, <1>15, <1>16, ErrorKept
<1> QED
  BY <1>1, <1>8, <1>17 DEF LogGrows

(* evaluate_pending_policies, after the inference. *)
LEMMA EvaluateKept ==
  ASSUME kern \in Transactions, Kept(kern), NEW t \in Transactions, Good(t), OpenRun(t),
         LogGrows(kern, t), ~t.active.inference, NEW out \in [Calls -> Outcomes]
  PROVE  Kept(EvaluatePolicies(t, out)) /\ LogGrows(kern, EvaluatePolicies(t, out))
<1> DEFINE proposed == {i \in DOMAIN t.order : t.state[t.order[i]] = "proposed"}
           malformed == {i \in proposed : out[t.order[i]] = "malformed"}
           before == {t.order[i] : i \in {j \in proposed : \A m \in malformed : j < m}}
           p == ApplyPolicy(t, before, out)
<1>1. before \in SUBSET Calls
  BY OrderType
<1>2. \A c \in before : t.state[c] = "proposed" /\ out[c] \in Outcomes \ {"malformed"}
  BY OrderType
<1> HIDE DEF before
<1>3. p \in Transactions /\ OpenRun(p) /\ LogGrows(t, p)
  BY <1>1, <1>2, PolicyType, PolicyKept
<1> HIDE DEF p
<1>4. Kept(FailLiveRun(p)) /\ LogGrows(p, FailLiveRun(p))
  BY <1>3, FailKept DEF OpenRun, Kept, LogKept, ActiveKept
<1>5. EvaluatePolicies(t, out) \in {p, kern, FailLiveRun(p)}
  BY DEF EvaluatePolicies, p, before
<1>6. LogGrows(kern, kern) /\ LogGrows(kern, p) /\ LogGrows(kern, FailLiveRun(p))
  BY <1>3, <1>4 DEF LogGrows
<1> QED
  BY <1>3, <1>4, <1>5, <1>6 DEF OpenRun
(***************************************************************************)
(* The updates of the workers.                                             *)
(***************************************************************************)
(* A step that leaves the log, the batch and the flags of the run alone. *)
LEMMA FlagKept ==
  ASSUME NEW t \in Transactions, Kept(t), NEW u,
         u.proj = t.proj, u.order = t.order, u.log = t.log, u.state = t.state,
         u.active.live = t.active.live, u.active.over = t.active.over,
         u.active.inference = t.active.inference, u.active.tool = t.active.tool,
         u.active.backendDone = t.active.backendDone, StreamKept(u), t.active.live
  PROVE  Kept(u) /\ LogGrows(t, u)
<1>1. LogKept(u) /\ LogGrows(t, u)
  BY DEF Kept, LogKept, BatchKept, OrderKept, ProposalsKept, ProjectionKept, LogGrows
<1>2. ActiveKept(u)
  BY DEF Kept, ActiveKept, RunIsOver, RunIsOpen, FlagsAgree, CallAgrees
<1> QED
  BY <1>1, <1>2 DEF Kept

(* A response that streams is of a run that is not over. *)
LEMMA StreamingIsOpen ==
  ASSUME Kept(kern), Streaming
  PROVE  OpenRun(kern)
  BY DEF Kept, ActiveKept, RunIsOver, OpenRun, Streaming, Inferring

(* A call that is new to the stream. *)
LEMMA StreamGrows ==
  ASSUME NEW q \in Seq(Calls), \A i, j \in DOMAIN q : i # j => q[i] # q[j],
         NEW c \in Calls \ Range(q)
  PROVE  \A i, j \in DOMAIN Append(q, c) : i # j => Append(q, c)[i] # Append(q, c)[j]
<1>1. /\ DOMAIN q = 1..Len(q) /\ DOMAIN Append(q, c) = 1..(Len(q) + 1)
      /\ Len(q) \in Nat /\ Append(q, c)[Len(q) + 1] = c
      /\ \A i \in 1..Len(q) : Append(q, c)[i] = q[i]
  OBVIOUS
<1>2. \A i \in 1..Len(q) : q[i] # c
  BY <1>1 DEF Range
<1> QED
  BY <1>1, <1>2

(* The events of a response. *)
LEMMA BackendEventKept ==
  ASSUME TypeOK, Kept(kern), ProcessBackendEvent
  PROVE  Kept(kern') /\ LogGrows(kern, kern')
<1>0. kern \in Transactions /\ LogGrows(kern, kern)
  BY DEF TypeOK, LogGrows
<1>1. Kept(FailOrDrop(kern)) /\ LogGrows(kern, FailOrDrop(kern))
  BY <1>0, FailOrDropHere
<1>2. CASE kern' \in {kern, FailOrDrop(kern)}
  BY <1>0, <1>1, <1>2
<1>3. CASE Streaming /\ kern' = RunStops("completed")
  BY <1>0, <1>3, StreamingIsOpen, StopsKept DEF RunOver
<1>4. CASE Streaming /\ kern' = [kern EXCEPT !.active.response = TRUE]
  <2> DEFINE a == [kern.active EXCEPT !.response = TRUE]
  <2>1. /\ kern'.proj = kern.proj /\ kern'.order = kern.order /\ kern'.log = kern.log
        /\ kern'.state = kern.state /\ kern'.active = a
    BY <1>0, <1>4 DEF Transactions
  <2>2. /\ a.live = kern.active.live /\ a.over = kern.active.over
        /\ a.inference = kern.active.inference /\ a.tool = kern.active.tool
        /\ a.backendDone = kern.active.backendDone /\ a.calls = kern.active.calls
    BY <1>0 DEF Transactions, ActiveRuns
  <2> HIDE DEF a
  <2>3. StreamKept(kern') /\ kern.active.live
    <3>1. kern.active.live
      BY <1>4 DEF Streaming, Inferring
    <3> QED
      BY <2>1, <2>2, <3>1 DEF Kept, StreamKept
  <2> QED
    BY <1>0, <2>1, <2>2, <2>3, FlagKept
<1>5. CASE Streaming /\ FreshCall(Update1.call)
           /\ kern' = [kern EXCEPT !.active.calls = Append(@, Update1.call)]
  <2> DEFINE a == [kern.active EXCEPT !.calls = Append(kern.active.calls, Update1.call)]
  <2>1. /\ kern'.proj = kern.proj /\ kern'.order = kern.order /\ kern'.log = kern.log
        /\ kern'.state = kern.state /\ kern'.active = a
    BY <1>0, <1>5 DEF Transactions
  <2>2. /\ a.live = kern.active.live /\ a.over = kern.active.over
        /\ a.inference = kern.active.inference /\ a.tool = kern.active.tool
        /\ a.backendDone = kern.active.backendDone
        /\ a.calls = Append(kern.active.calls, Update1.call)
    BY <1>0 DEF Transactions, ActiveRuns
  <2> HIDE DEF a
  <2>3. kern.active.calls \in Seq(Calls)
    BY <1>0, OrderType
  <2>4. Update1.call \in Calls \ Range(kern.active.calls)
    BY <1>5 DEF FreshCall
  <2>5. StreamKept(kern') /\ kern.active.live
    <3>1. kern.active.live
      BY <1>5 DEF Streaming, Inferring
    <3>2. kern'.active.calls = Append(kern.active.calls, Update1.call)
      BY <2>1, <2>2
    <3>3. \A i, j \in DOMAIN kern.active.calls :
            i # j => kern.active.calls[i] # kern.active.calls[j]
      BY DEF Kept, StreamKept
    <3> QED
      BY <2>3, <2>4, <3>1, <3>2, <3>3, StreamGrows DEF StreamKept
  <2> QED
    BY <1>0, <2>1, <2>2, <2>5, FlagKept
<1> QED
  BY <1>2, <1>3, <1>4, <1>5 DEF ProcessBackendEvent

(* The calls of a response are proposed, those with bad arguments closed. *)
LEMMA ToolCallFinishKept ==
  ASSUME TypeOK, AuthorityInv, Kept(kern), ProcessToolCallFinish
  PROVE  Kept(kern')
<1>0. kern \in Transactions /\ Good(kern)
  BY DEF TypeOK, AuthorityInv, Good
<1>1. Kept(FailOrDrop(kern))
  BY <1>0, FailOrDropHere
<1>2. CASE kern' \in {kern, FailOrDrop(kern)}
  BY <1>1, <1>2
<1>3. ASSUME Streaming, NEW bad \in SUBSET Range(kern.active.calls),
             kern' = RecordToolError(Proposed(Range(kern.active.calls)), bad)
      PROVE  Kept(kern')
  <2> DEFINE u == Proposed(Range(kern.active.calls))
  <2>1. /\ OpenRun(u) /\ Range(u.order) = Range(kern.active.calls)
        /\ \A c \in Range(u.order) : ~Decidable(u.log[c])
    BY <1>0, <1>3, StreamingIsOpen, ProposedKept
  <2>2. u \in Transactions
    BY <1>0, ProposedType
  <2> HIDE DEF u
  <2>3. OpenRun(RecordToolError(u, bad))
    BY <1>3, <2>1, <2>2, ErrorKept
  <2> QED
    BY <1>3, <2>3 DEF OpenRun, u
<1> QED
  BY <1>2, <1>3 DEF ProcessToolCallFinish

(* A response or a stream that was cancelled or failed. *)
LEMMA BackendStopKept ==
  ASSUME TypeOK, Kept(kern), ProcessBackendStop
  PROVE  Kept(kern') /\ LogGrows(kern, kern')
<1>0. kern \in Transactions /\ LogGrows(kern, kern)
  BY DEF TypeOK, LogGrows
<1>1. Kept(FailOrDrop(kern)) /\ LogGrows(kern, FailOrDrop(kern))
  BY <1>0, FailOrDropHere
<1>2. CASE kern' \in {kern, FailOrDrop(kern)}
  BY <1>0, <1>1, <1>2
<1>3. CASE Streaming /\ kern' = RunStops("cancelled")
  BY <1>0, <1>3, StreamingIsOpen, StopsKept DEF RunOver
<1>4. CASE Inferring /\ kern' = Acknowledged
  <2> DEFINE a == [kern.active EXCEPT !.ackExpected = FALSE]
  <2>1. /\ kern'.proj = kern.proj /\ kern'.order = kern.order /\ kern'.log = kern.log
        /\ kern'.state = kern.state /\ kern'.active = a
    BY <1>0, <1>4 DEF Transactions, Acknowledged
  <2>2. /\ a.live = kern.active.live /\ a.over = kern.active.over
        /\ a.inference = kern.active.inference /\ a.tool = kern.active.tool
        /\ a.backendDone = kern.active.backendDone /\ a.calls = kern.active.calls
    BY <1>0 DEF Transactions, ActiveRuns
  <2> HIDE DEF a
  <2>3. StreamKept(kern') /\ kern.active.live
    BY <1>4, <2>1, <2>2 DEF Kept, StreamKept, Inferring
  <2> QED
    BY <1>0, <2>1, <2>2, <2>3, FlagKept
<1> QED
  BY <1>2, <1>3, <1>4 DEF ProcessBackendStop

(* The end of the backend's stream. *)
LEMMA BackendEndedKept ==
  ASSUME TypeOK, AuthorityInv, Kept(kern), ProcessBackendEnded
  PROVE  Kept(kern') /\ LogGrows(kern, kern')
<1>0. kern \in Transactions /\ LogGrows(kern, kern) /\ Good(kern)
  BY DEF TypeOK, LogGrows, AuthorityInv, Good
<1>1. CASE ~Inferring
  BY <1>0, <1>1 DEF ProcessBackendEnded, Streaming
<1>2. CASE Streaming
  <2> DEFINE t == FailLiveRun(kern)
  <2>1. /\ Kept(t) /\ LogGrows(kern, t) /\ t.active.over /\ t \in Transactions
    BY <1>0, <1>2, FailKept, FailType DEF Streaming, Inferring, Kept, LogKept, ActiveKept
  <2>2. kern' = ResetActive(t)
    BY <1>2, <2>1 DEF ProcessBackendEnded, Streaming
  <2> HIDE DEF t
  <2>3. Kept(ResetActive(t)) /\ LogGrows(t, ResetActive(t))
    BY <2>1, ResetKept DEF Kept
  <2> QED
    BY <2>1, <2>2, <2>3 DEF LogGrows
<1>3. CASE Inferring /\ ~Streaming /\ kern.active.over
  <2>1. kern' = ResetActive(kern)
    BY <1>3 DEF ProcessBackendEnded
  <2> QED
    BY <1>0, <2>1, ResetKept DEF Kept
<1>4. CASE Inferring /\ ~Streaming /\ ~kern.active.over
  <2> DEFINE t == BetweenInferences(kern)
  <2>1. PICK out \in [Calls -> PolicyOutcomes] : kern' = EvaluatePolicies(t, out)
    BY <1>4 DEF ProcessBackendEnded
  <2>2. out \in [Calls -> Outcomes]
    BY KernelAssumption
  <2>3. OpenRun(kern) /\ kern.active.inference /\ kern.active.backendDone
    BY <1>4 DEF OpenRun, Inferring, Streaming
  <2>4. OpenRun(t) /\ LogGrows(kern, t) /\ ~t.active.inference
    BY <1>0, <2>3, BetweenKept
  <2>5. t \in Transactions /\ Good(t)
    BY <1>0, BetweenType, BetweenGood
  <2> HIDE DEF t
  <2> QED
    BY <1>0, <2>1, <2>2, <2>4, <2>5, EvaluateKept
<1> QED
  BY <1>1, <1>2, <1>3, <1>4 DEF Streaming
(***************************************************************************)
(* The calls that updates name.                                            *)
(***************************************************************************)
InFlight == Range(batch) \cup Range(queue)
InFlightIsNamed == \A u \in InFlight : ~BackendUpdate(u) => u.call \in Calls
Named == (worker.at # "off" \/ deadline # "off" => worker.call \in Calls) /\ InFlightIsNamed

(* The members of a nonempty sequence are its head and those of its tail. *)
LEMMA TailRange ==
  ASSUME NEW S, NEW q \in Seq(S), q # <<>>
  PROVE  Head(q) \in Range(q) /\ Range(q) = {Head(q)} \cup Range(Tail(q))
<1>1. /\ Len(q) \in Nat \ {0} /\ DOMAIN q = 1..Len(q) /\ Head(q) = q[1]
      /\ Tail(q) \in Seq(S) /\ Len(Tail(q)) = Len(q) - 1
      /\ \A i \in 1..(Len(q) - 1) : Tail(q)[i] = q[i + 1]
  OBVIOUS
<1>2. DOMAIN Tail(q) = 1..(Len(q) - 1)
  BY <1>1
<1>3. ASSUME NEW i \in 2..Len(q)
      PROVE  q[i] \in Range(Tail(q))
  <2>1. i - 1 \in DOMAIN Tail(q) /\ Tail(q)[i - 1] = q[i]
    BY <1>1, <1>2
  <2> QED
    BY <2>1 DEF Range
<1>4. ASSUME NEW i \in DOMAIN Tail(q)
      PROVE  Tail(q)[i] \in Range(q)
  <2>1. i + 1 \in DOMAIN q /\ Tail(q)[i] = q[i + 1]
    BY <1>1, <1>2
  <2> QED
    BY <2>1 DEF Range
<1>5. Range(q) \subseteq {Head(q)} \cup Range(Tail(q))
  <2>1. 1..Len(q) = {1} \cup 2..Len(q)
    BY <1>1
  <2> QED
    BY <1>1, <1>3, <2>1 DEF Range
<1> QED
  BY <1>1, <1>4, <1>5 DEF Range

(* A push adds its update to those in flight. *)
LEMMA PushFlight ==
  ASSUME TypeOK, NEW u \in Updates, Push(u), batch' = batch
  PROVE  InFlight' = InFlight \cup {u}
<1>1. Range(queue') = Range(queue) \cup {u}
  BY AppendRange DEF Push, TypeOK
<1> QED
  BY <1>1 DEF InFlight

(* Processing an update takes it out of flight, and a swap changes nothing. *)
LEMMA ProcessingFlight ==
  ASSUME TypeOK, NEW K, Processing(K)
  PROVE  Update1 \in InFlight /\ InFlight = {Update1} \cup InFlight'
<1>1. batch # <<>> /\ batch' = Tail(batch) /\ queue' = queue /\ batch \in Seq(Updates)
  BY DEF Processing, TypeOK
<1>2. Head(batch) \in Range(batch) /\ Range(batch) = {Head(batch)} \cup Range(Tail(batch))
  BY <1>1, TailRange
<1> QED
  BY <1>1, <1>2 DEF InFlight, Update1

(* The empty sequence has no members. *)
LEMMA EmptyRange == Range(<<>>) = {}
  BY DEF Range

(* The steps of the workers name calls. *)
LEMMA WorkersNamed ==
  ASSUME TypeOK, Named, BackendWorker \/ ToolWorker \/ DeadlineWorker
  PROVE  Named'
<1>0. /\ "call" \in BackendEvents
      /\ \A c : \A k \in BackendEvents \cup BackendFailures \cup {"backend_ended"} :
           BackendUpdate(Update(k, c))
      /\ \A k, c : Update(k, c).call = c
      /\ worker.call \in Calls \cup {None}
  BY DEF BackendEvents, BackendUpdate, Update, TypeOK
<1>1. ASSUME NEW k \in BackendEvents \cup BackendFailures \cup {"backend_ended"},
             NEW c \in Calls \cup {None}, Push(Update(k, c)),
             batch' = batch, worker' = worker, deadline' = deadline
      PROVE  Named'
  <2>1. Update(k, c) \in Updates
    BY UpdateType
  <2>2. InFlight' = InFlight \cup {Update(k, c)}
    BY <1>1, <2>1, PushFlight
  <2>3. InFlightIsNamed'
    BY <1>0, <2>2 DEF Named, InFlightIsNamed, BackendUpdate
  <2> QED
    BY <1>1, <2>3 DEF Named
<1>2. ASSUME NEW k \in ToolEvents \cup {"tool_failure", "tool_ended", "deadline"},
             Push(Update(k, worker.call)), worker.at # "off" \/ deadline # "off",
             batch' = batch, worker'.call = worker.call
      PROVE  Named'
  <2>1. Update(k, worker.call) \in Updates
    BY <1>0, UpdateType
  <2>2. InFlight' = InFlight \cup {Update(k, worker.call)}
    BY <1>2, <2>1, PushFlight
  <2>3. worker.call \in Calls
    BY <1>2 DEF Named
  <2>4. InFlightIsNamed'
    BY <1>0, <2>2, <2>3 DEF Named, InFlightIsNamed, BackendUpdate
  <2> QED
    BY <1>2, <2>3, <2>4 DEF Named
<1>3. CASE BackendWorker
  BY <1>0, <1>1, <1>3, Zenon DEF BackendWorker, BackendDelivers, BackendFails, BackendEnds
<1>4. CASE ToolWorker
  <2>1. ASSUME NEW k \in ToolEvents, ToolDelivers(k)
        PROVE  Named'
    <3>1. worker'.call = worker.call /\ worker.at # "off"
      BY <2>1 DEF ToolDelivers, TypeOK
    <3> QED
      BY <1>2, <2>1, <3>1 DEF ToolDelivers
  <2>2. ASSUME ToolFails
        PROVE  Named'
    <3>1. worker'.call = worker.call /\ worker.at # "off"
      BY <2>2 DEF ToolFails, TypeOK
    <3> QED
      BY <1>2, <2>2, <3>1 DEF ToolFails
  <2>3. ASSUME ToolEnds
        PROVE  Named'
    <3>1. worker'.call = worker.call /\ worker.at # "off"
      BY <2>3 DEF ToolEnds, TypeOK
    <3> QED
      BY <1>2, <2>3, <3>1 DEF ToolEnds
  <2> QED
    BY <1>4, <2>1, <2>2, <2>3 DEF ToolWorker
<1>5. CASE DeadlinePasses
  BY <1>5 DEF DeadlinePasses, Named, InFlightIsNamed, InFlight
<1>6. CASE DeadlinePushes
  BY <1>2, <1>6 DEF DeadlinePushes
<1> QED
  BY <1>3, <1>4, <1>5, <1>6 DEF DeadlineWorker

(* No step of the owner makes an update name anything else. *)
LEMMA NamedStep == TypeOK /\ AuthorityInv /\ Named /\ [Next]_vars => Named'
<1> SUFFICES ASSUME TypeOK, AuthorityInv, Named, [Next]_vars
             PROVE  Named'
  OBVIOUS
<1>1. CASE worker' = worker /\ deadline' = deadline /\ InFlight' \subseteq InFlight
  BY <1>1 DEF Named, InFlightIsNamed, BackendUpdate
<1>2. CASE BackendWorker \/ ToolWorker \/ DeadlineWorker
  BY <1>2, WorkersNamed
<1>3. CASE Drain
  <2>1. ASSUME NEW m \in DrainModes, DrainSwap(m)
        PROVE  Named'
    BY <1>1, <2>1, EmptyRange DEF DrainSwap, OwnerIdle, InFlight
  <2>2. CASE DrainLaunch \/ LaunchNextTool \/ SpawnToolFails \/ SpawnBackend
             \/ SpawnBackendFails
    BY <1>1, <2>2 DEF DrainLaunch, LaunchNextTool, SpawnToolFails, SpawnBackend,
                      SpawnBackendFails, InFlight
  <2>3. CASE ProcessUpdate
    <3>1. ASSUME NEW K, Processing(K), deadline' = deadline \/ deadline' = "off"
          PROVE  Named'
      <4>1. InFlight' \subseteq InFlight /\ worker' = worker
        BY <3>1, ProcessingFlight DEF Processing
      <4> QED
        BY <3>1, <4>1 DEF Named, InFlightIsNamed, BackendUpdate
    <3> QED
      BY <2>3, <3>1, Zenon DEF ProcessUpdate, ProcessBackendEvent, ProcessToolCallFinish,
           ProcessBackendStop, ProcessBackendEnded, ProcessToolUpdate, ProcessToolResult,
           ProcessToolFailure, ProcessDeadline, ProcessToolEnded
  <2>4. CASE SpawnTool
    <3>1. kern.active.tool \in Calls
      BY <2>4 DEF SpawnTool, AuthorityInv, StartsAreLogged
    <3> QED
      BY <2>4, <3>1 DEF SpawnTool, Named, InFlightIsNamed, InFlight, BackendUpdate
  <2> QED
    BY <1>3, <2>1, <2>2, <2>3, <2>4 DEF Drain
<1>4. CASE Surface
  BY <1>1, <1>4 DEF Surface, Start, ContinueRun, CancelRun, ResolveQuestions,
                    DecideApproval, InFlight
<1>5. ASSUME NEW how \in {"down", "unusable"}, KernelStops(how)
      PROVE  Named'
  BY <1>5, EmptyRange DEF KernelStops, IdleWorker, Named, InFlightIsNamed, InFlight
<1>6. CASE Reopen
  BY <1>1, <1>6 DEF Reopen, InFlight
<1>7. CASE UNCHANGED vars
  BY <1>1, <1>7 DEF vars, InFlight
<1> QED
  BY <1>2, <1>3, <1>4, <1>5, <1>6, <1>7 DEF Next
(***************************************************************************)
(* Updates of the running tool.                                            *)
(***************************************************************************)
(* A tool that is still open belongs to an open run, and to its batch. *)
LEMMA OpenToolIsOpen ==
  ASSUME TypeOK, Kept(kern), ForOpenTool, Update1.call \in Calls
  PROVE  /\ OpenRun(kern) /\ kern.active.tool = Update1.call
         /\ Update1.call \in Range(kern.order) /\ ~Decidable(kern.log[Update1.call])
         /\ {Update1.call} \in SUBSET Range(kern.order)
         /\ \A c \in {Update1.call} : ~Decidable(kern.log[c])
<1>1. kern \in Transactions
  BY DEF TypeOK
<1>2. OpenRun(kern) /\ kern.active.tool = Update1.call
  BY DEF Kept, ActiveKept, RunIsOver, OpenRun, ForOpenTool, ForActiveTool
<1>3. Update1.call \in Range(kern.order) /\ ~Decidable(kern.log[Update1.call])
  BY <1>1, <1>2, ToolIsOfBatch
<1> QED
  BY <1>2, <1>3

(* Every update of a tool names a call. *)
LEMMA UpdateIsNamed ==
  ASSUME TypeOK, Named, NEW K, Processing(K), ~BackendUpdate(Update1)
  PROVE  Update1.call \in Calls
  BY ProcessingFlight DEF Named, InFlightIsNamed

(* The running tool's call is closed with an error, and the run may fail. *)
LEMMA ToolErrorKept ==
  ASSUME TypeOK, Kept(kern), ForOpenTool, Update1.call \in Calls
  PROVE  LET t == RecordToolError(kern, {Update1.call}) IN
         /\ Kept(t) /\ LogGrows(kern, t)
         /\ Kept(FailOrDrop(t)) /\ LogGrows(kern, FailOrDrop(t))
<1> DEFINE t == RecordToolError(kern, {Update1.call})
<1>1. kern \in Transactions
  BY DEF TypeOK
<1>2. OpenRun(t) /\ LogGrows(kern, t) /\ t \in Transactions
  BY <1>1, OpenToolIsOpen, ErrorKept, ToolErrorType
<1> HIDE DEF t
<1>3. BatchKept(t) /\ StreamKept(t) /\ (t.active.inference => t.active.tool = None)
  BY <1>2 DEF OpenRun, Kept, LogKept, ActiveKept
<1>4. Kept(FailOrDrop(t)) /\ LogGrows(kern, FailOrDrop(t))
  BY <1>1, <1>2, <1>3, FailOrDropKept
<1>5. /\ Kept(t) /\ LogGrows(kern, t)
      /\ Kept(FailOrDrop(t)) /\ LogGrows(kern, FailOrDrop(t))
  BY <1>2, <1>4 DEF OpenRun
<1> QED
  BY <1>5 DEF t

(* ask_user's questions make the run wait. *)
LEMMA QuestionKept ==
  ASSUME kern \in Transactions, OpenRun(kern), NEW c \in Calls, kern.active.tool = c,
         kern.state[c] = "running", AcceptsRunAwaitingInput(kern.proj),
         kern' = [kern EXCEPT !.proj = RunAwaitingInput(kern.proj), !.question = c,
                              !.state[c] = "awaiting_input"]
  PROVE  OpenRun(kern') /\ LogGrows(kern, kern')
<1>1. /\ kern'.proj = RunAwaitingInput(kern.proj) /\ kern'.order = kern.order
      /\ kern'.log = kern.log /\ kern'.active = kern.active
      /\ \A x \in Calls : kern'.state[x] = IF x = c THEN "awaiting_input" ELSE kern.state[x]
  BY DEF Transactions
<1>2. /\ kern'.proj.status = "awaiting_input" /\ kern'.proj.pending = kern.proj.pending
      /\ ~kern'.proj.inferring /\ ~kern.proj.inferring
  BY <1>1 DEF RunAwaitingInput, AcceptsRunAwaitingInput, Transactions, Projections
<1>3. FlagsAgree(kern) /\ \A x \in Calls : CallAgrees(kern, x)
  BY DEF OpenRun, Kept, ActiveKept, RunIsOpen
<1>4. LogGrows(kern, kern') /\ BatchKept(kern')
  BY <1>1 DEF LogGrows, OpenRun, Kept, LogKept, BatchKept, OrderKept, ProposalsKept
<1>5. ProjectionKept(kern')
  BY <1>1, <1>2, <1>3 DEF ProjectionKept, OpenRun, Kept, LogKept, FlagsAgree, RequireRunning
<1>6. FlagsAgree(kern')
  BY <1>1, <1>2, <1>3 DEF FlagsAgree, RequireRunning
<1>7. \A x \in Calls : CallAgrees(kern', x)
  BY <1>1, <1>3 DEF CallAgrees
<1> QED
  BY <1>1, <1>4, <1>5, <1>6, <1>7
     DEF OpenRun, Kept, LogKept, ActiveKept, RunIsOpen, StreamKept

(* Progress, questions and what goes wrong with them. *)
LEMMA ToolUpdateKept ==
  ASSUME TypeOK, Kept(kern), Named, ProcessToolUpdate
  PROVE  Kept(kern') /\ LogGrows(kern, kern')
<1>0. kern \in Transactions /\ LogGrows(kern, kern)
  BY DEF TypeOK, LogGrows
<1>1. Kept(FailOrDrop(kern)) /\ LogGrows(kern, FailOrDrop(kern))
  BY <1>0, FailOrDropHere
<1>2. Update1.call \in Calls
  BY UpdateIsNamed DEF ProcessToolUpdate, Processing, BackendUpdate, BackendEvents,
                       BackendFailures
<1>3. CASE kern' \in {kern, FailOrDrop(kern)}
  BY <1>0, <1>1, <1>3
<1>4. CASE ForOpenTool /\ kern' \in {RecordToolError(kern, {Update1.call}),
                                     FailOrDrop(RecordToolError(kern, {Update1.call}))}
  BY <1>2, <1>4, ToolErrorKept
<1>5. CASE /\ ForOpenTool /\ kern.state[Update1.call] = "running"
           /\ AcceptsRunAwaitingInput(kern.proj)
           /\ kern' = [kern EXCEPT !.proj = RunAwaitingInput(kern.proj),
                                   !.question = Update1.call,
                                   !.state[Update1.call] = "awaiting_input"]
  <2>1. OpenRun(kern) /\ kern.active.tool = Update1.call
    BY <1>2, <1>5, OpenToolIsOpen
  <2> QED
    BY <1>0, <1>2, <1>5, <2>1, QuestionKept DEF OpenRun
<1> QED
  BY <1>3, <1>4, <1>5 DEF ProcessToolUpdate

(* The result of the running tool. *)
LEMMA ToolResultKept ==
  ASSUME TypeOK, Kept(kern), Named, ProcessToolResult
  PROVE  Kept(kern') /\ LogGrows(kern, kern')
<1>0. kern \in Transactions /\ LogGrows(kern, kern)
  BY DEF TypeOK, LogGrows
<1>1. Kept(FailOrDrop(kern)) /\ LogGrows(kern, FailOrDrop(kern))
  BY <1>0, FailOrDropHere
<1>2. Update1.call \in Calls
  BY UpdateIsNamed DEF ProcessToolResult, Processing, BackendUpdate, BackendEvents,
                       BackendFailures
<1>3. CASE ~ForOpenTool
  BY <1>0, <1>1, <1>3 DEF ProcessToolResult
<1>4. CASE ForOpenTool
  <2>1. PICK d : kern' = RecordToolResult(kern, Update1.call, d)
    BY <1>4 DEF ProcessToolResult
  <2>2. OpenRun(RecordToolResult(kern, Update1.call, d))
        /\ LogGrows(kern, RecordToolResult(kern, Update1.call, d))
    BY <1>0, <1>2, <1>4, OpenToolIsOpen, ResultKept
  <2> QED
    BY <2>1, <2>2 DEF OpenRun
<1> QED
  BY <1>3, <1>4

(* The failure of the running tool. *)
LEMMA ToolFailureKept ==
  ASSUME TypeOK, Kept(kern), Named, ProcessToolFailure
  PROVE  Kept(kern') /\ LogGrows(kern, kern')
<1>0. kern \in Transactions /\ LogGrows(kern, kern)
  BY DEF TypeOK, LogGrows
<1>2. Update1.call \in Calls
  BY UpdateIsNamed DEF ProcessToolFailure, Processing, BackendUpdate, BackendEvents,
                       BackendFailures
<1>3. CASE kern' = kern
  BY <1>0, <1>3
<1>4. CASE ForOpenTool /\ kern' = FailOrDrop(RecordToolError(kern, {Update1.call}))
  BY <1>2, <1>4, ToolErrorKept
<1>5. ASSUME ForOpenTool, NEW d \in Dispositions(Update1.call),
             kern' = RecordToolError([kern EXCEPT !.log[Update1.call].spend = d],
                                     {Update1.call})
      PROVE  Kept(kern') /\ LogGrows(kern, kern')
  <2> DEFINE c == Update1.call
             t == [kern EXCEPT !.log[c].spend = d]
  <2>1. OpenRun(kern) /\ c \in Range(kern.order) /\ ~Decidable(kern.log[c]) /\ c \in Calls
    BY <1>2, <1>5, OpenToolIsOpen
  <2> HIDE DEF c
  <2>2. /\ OpenRun(t) /\ LogGrows(kern, t) /\ t.order = kern.order
        /\ \A x \in Calls : Decidable(t.log[x]) <=> Decidable(kern.log[x])
    BY <1>0, <2>1, SpendKept
  <2>3. t \in Transactions
    BY <1>0, <1>5, DispositionType DEF c
  <2> HIDE DEF t
  <2>4. {c} \in SUBSET Range(t.order) /\ \A x \in {c} : ~Decidable(t.log[x])
    BY <2>1, <2>2
  <2>5. OpenRun(RecordToolError(t, {c})) /\ LogGrows(t, RecordToolError(t, {c}))
    BY <2>2, <2>3, <2>4, ErrorKept
  <2>6. kern' = RecordToolError(t, {c})
    BY <1>5 DEF t, c
  <2> QED
    BY <2>2, <2>5, <2>6 DEF OpenRun, LogGrows
<1> QED
  BY <1>3, <1>4, <1>5 DEF ProcessToolFailure

(* The deadline of the running tool. *)
LEMMA DeadlineKept ==
  ASSUME TypeOK, Kept(kern), Named, ProcessDeadline
  PROVE  Kept(kern') /\ LogGrows(kern, kern')
<1>1. Update1.call \in Calls
  BY UpdateIsNamed DEF ProcessDeadline, Processing, BackendUpdate, BackendEvents,
                       BackendFailures
<1>2. LogGrows(kern, kern)
  BY DEF LogGrows
<1> QED
  BY <1>1, <1>2, ToolErrorKept DEF ProcessDeadline
(* The tool's worker is gone, and its call no longer runs. *)
LEMMA ToolLeavesKept ==
  ASSUME NEW t \in Transactions, OpenRun(t), NEW u,
         u.proj = t.proj, u.order = t.order, u.log = t.log, u.state = t.state,
         u.active.live = t.active.live, u.active.over = t.active.over,
         u.active.inference = t.active.inference, u.active.tool = None,
         u.active.backendDone = t.active.backendDone, u.active.calls = t.active.calls,
         t.active.tool \in Calls, t.state[t.active.tool] # "running"
  PROVE  OpenRun(u) /\ LogGrows(t, u)
<1>1. LogKept(u) /\ LogGrows(t, u)
  BY DEF OpenRun, Kept, LogKept, BatchKept, OrderKept, ProposalsKept, ProjectionKept, LogGrows
<1>2. FlagsAgree(t) /\ \A c \in Calls : CallAgrees(t, c)
  BY DEF OpenRun, Kept, ActiveKept, RunIsOpen
<1>3. FlagsAgree(u)
  BY <1>2, KernelAssumption DEF FlagsAgree
<1>4. \A c \in Calls : CallAgrees(u, c)
  BY <1>2 DEF CallAgrees
<1> QED
  BY <1>1, <1>3, <1>4 DEF OpenRun, Kept, ActiveKept, RunIsOpen, StreamKept

(* process_tool_end. *)
LEMMA ToolEndedKept ==
  ASSUME TypeOK, Kept(kern), Named, ProcessToolEnded
  PROVE  Kept(kern') /\ LogGrows(kern, kern')
<1>0. kern \in Transactions /\ LogGrows(kern, kern)
  BY DEF TypeOK, LogGrows
<1>1. Update1.call \in Calls
  BY UpdateIsNamed DEF ProcessToolEnded, Processing, BackendUpdate, BackendEvents,
                       BackendFailures
<1> DEFINE c == Update1.call
           t == IF kern.state[c] \in {"terminal", "awaiting_input"} THEN kern
                ELSE RecordToolError(kern, {c})
           u == [t EXCEPT !.active.tool = None]
<1>2. CASE ~ForActiveTool
  BY <1>0, <1>2 DEF ProcessToolEnded
<1>3. CASE ForActiveTool
  <2>1. /\ t \in Transactions /\ t.active = kern.active
        /\ t.state[c] \in {"terminal", "awaiting_input"}
    <3>1. RecordToolError(kern, {c}) \in Transactions
      BY <1>0, ToolErrorType
    <3>2. /\ RecordToolError(kern, {c}).active = kern.active
          /\ RecordToolError(kern, {c}).state[c] = "terminal"
      BY <1>0, <1>1 DEF RecordToolError, Transactions
    <3> QED
      BY <1>0, <3>1, <3>2
  <2>2. LogKept(t) /\ LogGrows(kern, t) /\ (~kern.active.over => OpenRun(t))
    <3>1. CASE kern.state[c] \in {"terminal", "awaiting_input"}
      BY <1>0, <1>3, <3>1 DEF OpenRun, Kept, ForActiveTool
    <3>2. CASE kern.state[c] \notin {"terminal", "awaiting_input"}
      <4>1. ForOpenTool
        BY <1>3, <3>2 DEF ForOpenTool
      <4>2. OpenRun(RecordToolError(kern, {c})) /\ LogGrows(kern, RecordToolError(kern, {c}))
        BY <1>0, <1>1, <4>1, OpenToolIsOpen, ErrorKept
      <4> QED
        BY <3>2, <4>2 DEF OpenRun, Kept
    <3> QED
      BY <3>1, <3>2
  <2>3. kern' = IF u.active.over THEN ResetActive(u) ELSE u
    BY <1>3 DEF ProcessToolEnded
  <2> HIDE DEF t
  <2> DEFINE a == [t.active EXCEPT !.tool = None]
  <2>4. /\ u.proj = t.proj /\ u.order = t.order /\ u.log = t.log /\ u.state = t.state
        /\ u.active = a /\ u \in Transactions
    BY <2>1 DEF Transactions, ActiveRuns
  <2>5. /\ a.live = t.active.live /\ a.over = t.active.over
        /\ a.inference = t.active.inference /\ a.tool = None
        /\ a.backendDone = t.active.backendDone /\ a.calls = t.active.calls
    BY <2>1 DEF Transactions, ActiveRuns
  <2> HIDE DEF u, a
  <2>6. CASE kern.active.over
    <3>1. LogKept(u) /\ LogGrows(t, u)
      BY <2>2, <2>4 DEF LogKept, BatchKept, OrderKept, ProposalsKept, ProjectionKept, LogGrows
    <3>2. Kept(ResetActive(u)) /\ LogGrows(u, ResetActive(u))
      BY <2>4, <3>1, ResetKept
    <3>3. kern' = ResetActive(u)
      BY <2>1, <2>3, <2>4, <2>5, <2>6
    <3> QED
      BY <2>2, <3>1, <3>2, <3>3 DEF LogGrows
  <2>7. CASE ~kern.active.over
    <3>1. t.active.tool = c /\ t.state[t.active.tool] # "running"
      BY <1>3, <2>1 DEF ForActiveTool
    <3>2. OpenRun(u) /\ LogGrows(t, u)
      BY <1>1, <2>1, <2>2, <2>4, <2>5, <2>7, <3>1, ToolLeavesKept
    <3>3. kern' = u
      BY <2>1, <2>3, <2>4, <2>5, <2>7
    <3> QED
      BY <2>2, <3>2, <3>3 DEF LogGrows, OpenRun
  <2> QED
    BY <2>6, <2>7
<1> QED
  BY <1>2, <1>3

(***************************************************************************)
(* Launching.                                                              *)
(***************************************************************************)
(* The tool that is ready is the first of its batch that is still open. *)
LEMMA ReadyToolIsFirst ==
  ASSUME NEW t \in Transactions, ReadyTool(t) # None
  PROVE  /\ t.active.live /\ ~t.active.over /\ ~t.active.inference
         /\ ReadyTool(t) \in Range(t.order)
         /\ OrderKept(t) => \A i, j \in DOMAIN t.order :
              i < j /\ t.order[j] = ReadyTool(t) => t.state[t.order[i]] = "terminal"
<1>1. /\ t.active.live /\ ~t.active.over /\ ~t.active.inference
      /\ \E i \in Open(t) : t.state[t.order[i]] = "allowed" /\ \A j \in Open(t) : i <= j
      /\ ReadyTool(t) = t.order[CHOOSE i \in Open(t) : \A j \in Open(t) : i <= j]
  BY DEF ReadyTool
<1>2. PICK m \in Open(t) : ReadyTool(t) = t.order[m] /\ \A j \in Open(t) : m <= j
  BY <1>1
<1>3. ASSUME OrderKept(t), NEW i \in DOMAIN t.order, NEW j \in DOMAIN t.order, i < j,
             t.order[j] = ReadyTool(t)
      PROVE  t.state[t.order[i]] = "terminal"
  <2>1. m \in DOMAIN t.order /\ DOMAIN t.order \subseteq Nat
    BY <1>2, OrderType DEF Open
  <2>2. j = m
    BY <1>2, <1>3, <2>1 DEF OrderKept
  <2>3. i \notin Open(t)
    BY <1>2, <1>3, <2>1, <2>2
  <2> QED
    BY <1>3, <2>3 DEF Open
<1>4. ReadyTool(t) \in Range(t.order)
  BY <1>2 DEF Range, Open
<1> QED
  BY <1>1, <1>3, <1>4

(* ToolStarted keeps the order of the batch. *)
LEMMA LaunchedKept ==
  ASSUME kern \in Transactions, OpenRun(kern), NEW c, c = ReadyTool(kern), c # None
  PROVE  LET u == Launched(kern, c) IN
         OpenRun(u) /\ u.active.tool = c /\ u.state[c] = "running" /\ c \in Calls
<1> DEFINE u == Launched(kern, c)
           r == [kern.log[c] EXCEPT
                   !.started = TRUE,
                   !.spend = IF c \in Paid THEN "reserved" ELSE kern.log[c].spend]
           a == [kern.active EXCEPT !.tool = c]
<1>1. /\ c \in Calls /\ kern.state[c] = "allowed" /\ kern.active.tool = None
      /\ ~kern.active.inference /\ c \in Range(kern.order)
  BY ReadyToolIsAllowed, ReadyToolIsFirst
<1>2. \A i, j \in DOMAIN kern.order :
        i < j /\ kern.order[j] = c => kern.state[kern.order[i]] = "terminal"
  BY ReadyToolIsFirst DEF OpenRun, Kept, LogKept, BatchKept
<1>3. /\ u.proj = kern.proj /\ u.order = kern.order /\ u.active = a
      /\ \A x \in Calls : /\ u.log[x] = IF x = c THEN r ELSE kern.log[x]
                          /\ u.state[x] = IF x = c THEN "running" ELSE kern.state[x]
  BY <1>1 DEF Launched, Transactions
<1>4. /\ r.proposed = kern.log[c].proposed /\ r.done = kern.log[c].done
      /\ r.approval = kern.log[c].approval /\ r.started
  BY <1>1 DEF Transactions, CallFacts
<1>5. /\ a.live = kern.active.live /\ a.over = kern.active.over
      /\ a.inference = kern.active.inference /\ a.tool = c
      /\ a.backendDone = kern.active.backendDone /\ a.calls = kern.active.calls
  BY DEF Transactions, ActiveRuns
<1> HIDE DEF u, r, a
<1>6. FlagsAgree(kern) /\ \A x \in Calls : CallAgrees(kern, x)
  BY DEF OpenRun, Kept, ActiveKept, RunIsOpen
<1>7. kern.log[c].done = "no" /\ ~Decidable(kern.log[c]) /\ kern.log[c].proposed
  <2>1. kern.log[c].proposed
    BY <1>1 DEF OpenRun, Kept, LogKept, BatchKept, ProposalsKept, Range
  <2> QED
    BY <1>1, <1>6, <2>1 DEF CallAgrees
<1>8. \A x \in Calls : /\ u.log[x].done = kern.log[x].done
                       /\ u.log[x].proposed = kern.log[x].proposed
                       /\ Decidable(u.log[x]) <=> Decidable(kern.log[x])
                       /\ x # c => u.log[x] = kern.log[x]
  BY <1>3, <1>4 DEF Decidable
<1>9. OrderKept(u)
  <2>1. ASSUME NEW i \in DOMAIN kern.order, NEW j \in DOMAIN kern.order, i < j,
               u.log[kern.order[j]].started
        PROVE  u.log[kern.order[i]].done # "no"
    <3>1. kern.order[i] \in Calls /\ kern.order[j] \in Calls
      BY OrderType
    <3>2. CASE kern.order[j] = c
      BY <1>2, <1>6, <1>8, <2>1, <3>1, <3>2 DEF CallAgrees
    <3>3. CASE kern.order[j] # c
      BY <1>8, <2>1, <3>1, <3>3 DEF OpenRun, Kept, LogKept, BatchKept, OrderKept
    <3> QED
      BY <3>2, <3>3
  <2>2. \A i, j \in DOMAIN kern.order : i # j => kern.order[i] # kern.order[j]
    BY DEF OpenRun, Kept, LogKept, BatchKept, OrderKept
  <2> QED
    BY <1>3, <2>1, <2>2 DEF OrderKept
<1>10. ProposalsKept(u)
  BY <1>3, <1>7, <1>8, OrderType DEF ProposalsKept, OpenRun, Kept, LogKept, BatchKept
<1>11. ProjectionKept(u)
  BY <1>3, <1>8 DEF ProjectionKept, OpenRun, Kept, LogKept
<1>12. FlagsAgree(u)
  BY <1>3, <1>5, <1>6 DEF FlagsAgree
<1>13. ASSUME NEW x \in Calls
       PROVE  CallAgrees(u, x)
  <2>1. CASE x = c
    BY <1>1, <1>3, <1>4, <1>5, <1>7, <1>8, <2>1 DEF CallAgrees
  <2>2. CASE x # c
    BY <1>1, <1>3, <1>6, <1>8, <2>2, KernelAssumption DEF CallAgrees
  <2> QED
    BY <2>1, <2>2
<1>14. OpenRun(u)
  BY <1>1, <1>3, <1>5, <1>9, <1>10, <1>11, <1>12, <1>13
     DEF OpenRun, Kept, LogKept, BatchKept, ActiveKept, RunIsOpen, StreamKept
<1> QED
  BY <1>1, <1>3, <1>5, <1>14 DEF u
(* launch_next_tool. *)
LEMMA LaunchKept ==
  ASSUME TypeOK, Kept(kern), LaunchNextTool
  PROVE  /\ Kept(kern')
         /\ pc' = "spawn" => /\ OpenRun(kern') /\ kern'.active.tool \in Calls
                             /\ kern'.state[kern'.active.tool] = "running"
<1>0. kern \in Transactions
  BY DEF TypeOK
<1> DEFINE c == ReadyTool(kern)
<1>1. CASE c = None /\ pc' = "ready" /\ kern' = kern
  BY <1>1
<1>2. CASE c # None
  <2>1. OpenRun(kern) /\ c \in Range(kern.order) /\ kern.state[c] = "allowed" /\ c \in Calls
    BY <1>0, <1>2, ReadyToolIsFirst, ReadyToolIsAllowed DEF OpenRun
  <2>2. CASE pc' = "ready" /\ kern' = RecordToolError(kern, {c})
    <3>1. CallAgrees(kern, c)
      BY <2>1 DEF OpenRun, Kept, ActiveKept, RunIsOpen
    <3>2. {c} \in SUBSET Range(kern.order) /\ \A x \in {c} : ~Decidable(kern.log[x])
      BY <2>1, <3>1 DEF CallAgrees
    <3>3. OpenRun(RecordToolError(kern, {c}))
      BY <1>0, <2>1, <3>2, ErrorKept
    <3> QED
      BY <2>2, <3>3 DEF OpenRun
  <2>3. CASE kern' = Launched(kern, c)
    BY <1>0, <1>2, <2>1, <2>3, LaunchedKept DEF OpenRun
  <2> QED
    BY <1>2, <2>2, <2>3, KernelAssumption DEF LaunchNextTool
<1> QED
  BY <1>1, <1>2, KernelAssumption DEF LaunchNextTool

(* The executor's thread could not be created. *)
LEMMA SpawnFailedKept ==
  ASSUME TypeOK, ProtocolInv, SpawnToolFails
  PROVE  Kept(kern') /\ LogGrows(kern, kern')
<1> DEFINE c == kern.active.tool
           d == IF kern.log[c].spend = "reserved" THEN "released" ELSE kern.log[c].spend
           t == [kern EXCEPT !.log[c].spend = d]
           u == RecordToolError(t, {c})
           v == [kern EXCEPT !.log[c].spend = d, !.active.tool = None]
<1>1. kern \in Transactions /\ OpenRun(kern) /\ c \in Calls /\ kern' = RecordToolError(v, {c})
  BY DEF TypeOK, ProtocolInv, OwnerKept, SpawnToolFails, OpenRun
<1>2. c \in Range(kern.order) /\ ~Decidable(kern.log[c])
  BY <1>1, ToolIsOfBatch
<1> HIDE DEF c, d
<1>3. /\ OpenRun(t) /\ LogGrows(kern, t) /\ t.order = kern.order
      /\ \A x \in Calls : Decidable(t.log[x]) <=> Decidable(kern.log[x])
  BY <1>1, <1>2, SpendKept
<1>4. t \in Transactions /\ v \in Transactions
  <2>1. kern.log[c] \in CallFacts
    BY <1>1 DEF Transactions
  <2>2. d \in {"none", "reserved", "released", "finalized", "reconcile"}
    BY <2>1 DEF CallFacts, d
  <2>3. [kern.log[c] EXCEPT !.spend = d] \in CallFacts
    BY <2>1, <2>2 DEF CallFacts
  <2> QED
    BY <1>1, <2>3 DEF Transactions, ActiveRuns
<1>5. {c} \in SUBSET Range(t.order) /\ \A x \in {c} : ~Decidable(t.log[x])
  BY <1>1, <1>2, <1>3
<1>6. OpenRun(u) /\ LogGrows(t, u)
  BY <1>3, <1>4, <1>5, ErrorKept
<1>7. u \in Transactions
  BY <1>4, ToolErrorType
<1> DEFINE a == [kern.active EXCEPT !.tool = None]
<1>8. /\ v.proj = t.proj /\ v.order = t.order /\ v.log = t.log /\ v.state = t.state
      /\ v.active = a /\ t.active = kern.active
  BY <1>1 DEF Transactions
<1>9. /\ a.live = kern.active.live /\ a.over = kern.active.over
      /\ a.inference = kern.active.inference /\ a.tool = None
      /\ a.backendDone = kern.active.backendDone /\ a.calls = kern.active.calls
  BY <1>1 DEF Transactions, ActiveRuns
<1> HIDE DEF t, v, a
<1>10. /\ kern'.proj = u.proj /\ kern'.order = u.order /\ kern'.log = u.log
       /\ kern'.state = u.state /\ kern'.active = a /\ u.active = kern.active
       /\ u.state[c] = "terminal"
  BY <1>1, <1>4, <1>8 DEF RecordToolError, Transactions
<1> HIDE DEF u
<1>11. u.active.tool \in Calls /\ u.state[u.active.tool] # "running"
  BY <1>1, <1>10 DEF c
<1>12. OpenRun(kern') /\ LogGrows(u, kern')
  BY <1>6, <1>7, <1>9, <1>10, <1>11, ToolLeavesKept
<1> QED
  BY <1>3, <1>6, <1>12 DEF OpenRun, LogGrows

(***************************************************************************)
(* Calls of the surface.                                                   *)
(***************************************************************************)
(* An inference begins with an empty batch and nothing pending. *)
LEMMA BeginKept ==
  ASSUME NEW t \in Transactions, t.active.live, ~t.active.over, ~t.active.backendDone,
         t.active.tool = None, StreamKept(t), ProposalsKept(t),
         t.proj.status = "running", t.proj.pending = {}
  PROVE  /\ OpenRun(BeginInference(t))
         /\ BeginInference(t).active.inference /\ ~BeginInference(t).active.backendDone
<1> DEFINE u == BeginInference(t)
           a == [t.active EXCEPT !.inference = TRUE, !.cancelRequested = FALSE]
<1>1. /\ u.proj = InferenceStarted(t.proj) /\ u.order = <<>> /\ u.log = t.log
      /\ u.state = NoInvocations /\ u.active = a
  BY DEF BeginInference, Transactions
<1>2. /\ a.live /\ ~a.over /\ a.inference /\ ~a.backendDone /\ a.tool = None
      /\ a.calls = t.active.calls
  BY DEF Transactions, ActiveRuns
<1>3. u.proj.status = "running" /\ u.proj.inferring /\ u.proj.pending = {}
  BY <1>1 DEF InferenceStarted, Transactions, Projections
<1> HIDE DEF u, a
<1>4. Range(u.order) = {} /\ DOMAIN u.order = {}
  BY <1>1, EmptyRange
<1>5. BatchKept(u) /\ ProjectionKept(u)
  BY <1>1, <1>3, <1>4 DEF BatchKept, OrderKept, ProposalsKept, ProjectionKept
<1>6. FlagsAgree(u)
  BY <1>1, <1>2, <1>3, KernelAssumption DEF FlagsAgree, RequireRunning
<1>7. \A c \in Calls : CallAgrees(u, c)
  BY <1>1, <1>4 DEF CallAgrees, NoInvocations
<1>8. OpenRun(u)
  BY <1>1, <1>2, <1>5, <1>6, <1>7
     DEF OpenRun, Kept, LogKept, ActiveKept, RunIsOpen, StreamKept
<1> QED
  BY <1>1, <1>2, <1>8 DEF u

(* start. *)
LEMMA StartKept ==
  ASSUME TypeOK, Kept(kern), Start
  PROVE  OpenRun(kern') /\ kern'.active.inference /\ ~kern'.active.backendDone
<1> DEFINE t == [kern EXCEPT !.proj = RunStarted, !.question = None,
                             !.active = [NoActive EXCEPT !.live = TRUE]]
<1>1. kern \in Transactions /\ kern' = BeginInference(t) /\ t \in Transactions
  BY StartedType DEF TypeOK, Start
<1>2. /\ t.proj = RunStarted /\ t.order = kern.order /\ t.log = kern.log
      /\ t.active = [NoActive EXCEPT !.live = TRUE]
  BY <1>1 DEF Transactions
<1> HIDE DEF t
<1>3. /\ t.active.live /\ ~t.active.over /\ ~t.active.backendDone /\ t.active.tool = None
      /\ t.active.calls = <<>>
  BY <1>2 DEF NoActive
<1>4. t.proj.status = "running" /\ t.proj.pending = {}
  BY <1>2 DEF RunStarted, NotStarted
<1>5. StreamKept(t) /\ ProposalsKept(t)
  BY <1>2, <1>3 DEF StreamKept, ProposalsKept, Kept, LogKept, BatchKept
<1> QED
  BY <1>1, <1>3, <1>4, <1>5, BeginKept

(* A batch whose calls are all closed has nothing pending. *)
LEMMA ClosedBatch ==
  ASSUME kern \in Transactions, Kept(kern), Continuable
  PROVE  /\ OpenRun(kern) /\ kern.proj.pending = {}
         /\ \A c \in Range(kern.order) : kern.log[c].done # "no"
<1>1. OpenRun(kern) /\ RequireRunning(kern.proj) /\ \A c \in Calls : CallAgrees(kern, c)
  BY DEF OpenRun, Kept, ActiveKept, RunIsOpen, FlagsAgree, Continuable
<1>2. \A c \in Range(kern.order) : kern.state[c] = "terminal" /\ c \in Calls
  BY OrderType DEF Continuable, Open, Range
<1>3. \A c \in Range(kern.order) : kern.log[c].done # "no"
  BY <1>1, <1>2 DEF CallAgrees
<1>4. \A c \in Calls : c \notin kern.proj.pending
  BY <1>1, <1>3 DEF Kept, LogKept, ProjectionKept, Decidable
<1>5. kern.proj.pending \subseteq Calls
  BY DEF Transactions, Projections
<1> QED
  BY <1>1, <1>3, <1>4, <1>5

(* continue_run. *)
LEMMA ContinueKept ==
  ASSUME TypeOK, Kept(kern), ContinueRun
  PROVE  OpenRun(kern') /\ kern'.active.inference /\ ~kern'.active.backendDone
<1>1. /\ kern \in Transactions /\ Continuable /\ kern' = BeginInference(kern)
      /\ AcceptsInferenceStarted(kern.proj)
  BY DEF TypeOK, ContinueRun
<1>2. OpenRun(kern) /\ kern.proj.pending = {}
  BY <1>1, ClosedBatch
<1>3. kern.active.tool = None /\ ~kern.active.inference
  BY <1>1 DEF Continuable
<1>4. ~kern.active.backendDone
  BY <1>2, <1>3 DEF OpenRun, Kept, ActiveKept, RunIsOpen, FlagsAgree
<1>5. StreamKept(kern) /\ ProposalsKept(kern) /\ kern.proj.status = "running"
  BY <1>1 DEF Kept, LogKept, BatchKept, AcceptsInferenceStarted
<1> QED
  BY <1>1, <1>2, <1>3, <1>4, <1>5, BeginKept DEF OpenRun
(* cancel_run closes what is open, and ends the run or asks the backend to. *)
LEMMA CancelKept ==
  ASSUME TypeOK, Kept(kern), CancelRun
  PROVE  Kept(kern') /\ LogGrows(kern, kern')
<1>0. /\ kern \in Transactions /\ OpenRun(kern)
  BY DEF TypeOK, CancelRun, OpenRun
<1> DEFINE requested == [kern EXCEPT !.active.cancelRequested = TRUE]
           open == {kern.order[i] : i \in Open(kern)}
           e == RecordToolError(requested, open)
           ended == [e EXCEPT !.proj = RunEnded(kern.proj, "cancelled"),
                              !.active = [requested.active EXCEPT !.over = TRUE]]
           a == [kern.active EXCEPT !.cancelRequested = TRUE]
           b == [a EXCEPT !.over = TRUE]
<1>1. kern' = IF kern.active.inference THEN requested
              ELSE IF kern.active.tool = None THEN ResetActive(ended) ELSE ended
  BY DEF CancelRun
<1>2. /\ requested.proj = kern.proj /\ requested.order = kern.order
      /\ requested.log = kern.log /\ requested.state = kern.state /\ requested.active = a
      /\ requested \in Transactions
  BY <1>0 DEF Transactions, ActiveRuns
<1>3. /\ a.live = kern.active.live /\ a.over = kern.active.over
      /\ a.inference = kern.active.inference /\ a.tool = kern.active.tool
      /\ a.backendDone = kern.active.backendDone /\ a.calls = kern.active.calls
      /\ b.live = kern.active.live /\ b.over /\ b.calls = kern.active.calls
      /\ b.inference = kern.active.inference /\ b.tool = kern.active.tool
      /\ b \in ActiveRuns
  BY <1>0 DEF Transactions, ActiveRuns
<1>4. open \subseteq Range(kern.order) /\ Range(kern.order) \subseteq Calls
      /\ \A c \in Range(kern.order) : kern.log[c].proposed
  BY <1>0, OrderType DEF Open, OpenRun, Kept, LogKept, BatchKept, ProposalsKept, Range
<1>5. \A c \in Range(kern.order) : c \in open \/ kern.state[c] = "terminal"
  BY DEF Open, Range
<1> HIDE DEF requested, open
<1> DEFINE g(c) == [Reconciled(kern.log[c]) EXCEPT !.done = "error"]
<1>6. /\ e \in Transactions /\ e.order = kern.order
      /\ \A c \in Calls : /\ e.log[c] = IF c \in open THEN g(c) ELSE kern.log[c]
                          /\ e.state[c] = IF c \in open THEN "terminal" ELSE kern.state[c]
  <2>1. e \in Transactions
    BY <1>2, ToolErrorType
  <2>2. /\ e.order = requested.order
        /\ \A c \in Calls :
             /\ e.log[c] = IF c \in open
                           THEN [Reconciled(requested.log[c]) EXCEPT !.done = "error"]
                           ELSE requested.log[c]
             /\ e.state[c] = IF c \in open THEN "terminal" ELSE requested.state[c]
    BY <1>2 DEF RecordToolError, Transactions
  <2> QED
    BY <1>2, <2>1, <2>2
<1> HIDE DEF e
<1>7. /\ ended.order = kern.order /\ ended.log = e.log /\ ended.state = e.state
      /\ ended.proj = RunEnded(kern.proj, "cancelled") /\ ended.active = b
      /\ ended \in Transactions
  <2>1. RunEnded(kern.proj, "cancelled") \in Projections(Calls)
    BY EndedType DEF RunOver
  <2> QED
    BY <1>2, <1>3, <1>6, <2>1 DEF Transactions
<1>8. \A c \in Calls : /\ g(c).started = kern.log[c].started /\ g(c).done # "no"
                       /\ g(c).proposed = kern.log[c].proposed
  BY <1>0 DEF Reconciled, Transactions, CallFacts
<1> HIDE DEF ended, a, b, g
<1>9. CASE kern.active.inference
  <2>1. kern' = requested /\ StreamKept(kern') /\ kern.active.live
    BY <1>0, <1>1, <1>2, <1>3, <1>9 DEF OpenRun, Kept, StreamKept
  <2> QED
    BY <1>0, <1>2, <1>3, <2>1, FlagKept DEF OpenRun
<1>10. CASE ~kern.active.inference
  <2>1. LogGrows(kern, ended)
    BY <1>4, <1>6, <1>7, <1>8 DEF LogGrows
  <2>2. ended.proj.status \in RunOver /\ ~ended.proj.inferring
    BY <1>7 DEF RunEnded, RunOver
  <2>3. kern.active.tool \in Calls => ended.state[kern.active.tool] = "terminal"
    BY <1>0, <1>5, <1>6, <1>7, ToolIsOfBatch
  <2>4. RunIsOver(ended)
    BY <1>3, <1>7, <1>10, <2>2, <2>3 DEF RunIsOver
  <2>5. Kept(ended)
    BY <1>0, <1>3, <1>7, <1>10, <2>1, <2>2, <2>4, OverKept DEF OpenRun, Kept, LogKept
  <2>6. Kept(ResetActive(ended)) /\ LogGrows(ended, ResetActive(ended))
    BY <1>7, <2>5, ResetKept DEF Kept
  <2> QED
    BY <1>1, <1>10, <2>1, <2>5, <2>6 DEF LogGrows
<1> QED
  BY <1>9, <1>10

(* A call that waited for the user goes on, or is closed. *)
LEMMA AnsweredKept ==
  ASSUME NEW t \in Transactions, OpenRun(t), NEW u, NEW c \in Range(t.order),
         u.order = t.order, u.active = t.active, ~t.proj.inferring,
         ~u.proj.inferring, RequireRunning(u.proj), u.proj.pending = t.proj.pending \ {c},
         \A x \in Calls \ {c} : u.log[x] = t.log[x] /\ u.state[x] = t.state[x],
         u.log[c].proposed = t.log[c].proposed, u.log[c].started = t.log[c].started,
         ~Decidable(u.log[c]), t.log[c].done = "no", u.state[c] \in {"allowed", "terminal"},
         u.state[c] = "terminal" <=> u.log[c].done # "no", t.active.tool = c => u.state[c] = "terminal"
  PROVE  OpenRun(u) /\ LogGrows(t, u)
<1>1. c \in Calls /\ t.log[c].proposed
  BY OrderType DEF OpenRun, Kept, LogKept, BatchKept, ProposalsKept, Range
<1>2. LogGrows(t, u)
  BY <1>1 DEF LogGrows
<1>3. BatchKept(u)
  BY <1>2, OrderStays DEF OpenRun, Kept, LogKept
<1>4. FlagsAgree(t) /\ \A x \in Calls : CallAgrees(t, x)
  BY DEF OpenRun, Kept, ActiveKept, RunIsOpen
<1>5. ProjectionKept(u)
  <2>1. \A x \in Calls : x \in t.proj.pending <=> x \in Range(t.order) /\ Decidable(t.log[x])
    BY <1>4 DEF OpenRun, Kept, LogKept, ProjectionKept, FlagsAgree
  <2> QED
    BY <1>1, <2>1 DEF ProjectionKept, RequireRunning
<1>6. FlagsAgree(u)
  BY <1>1, <1>4 DEF FlagsAgree
<1>7. ASSUME NEW x \in Calls
      PROVE  CallAgrees(u, x)
  <2>1. CASE x = c
    BY <1>1, <2>1 DEF CallAgrees
  <2>2. CASE x # c
    BY <1>4, <2>2 DEF CallAgrees
  <2> QED
    BY <2>1, <2>2
<1> QED
  BY <1>2, <1>3, <1>5, <1>6, <1>7
     DEF OpenRun, Kept, LogKept, ActiveKept, RunIsOpen, StreamKept

(* A run that waits for the user is open. *)
LEMMA WaitingIsOpen ==
  ASSUME kern \in Transactions, Kept(kern), kern.active.live,
         kern.proj.status \in {"awaiting_approval", "awaiting_input"}
  PROVE  /\ OpenRun(kern) /\ ~kern.proj.inferring
         /\ \A c \in Calls : CallAgrees(kern, c)
  BY DEF OpenRun, Kept, ActiveKept, RunIsOver, RunOver, RunIsOpen, LogKept, ProjectionKept
(* decide_approval. *)
LEMMA DecideKept ==
  ASSUME TypeOK, Kept(kern), NEW c \in Calls, NEW b \in BOOLEAN, DecideApproval(c, b)
  PROVE  Kept(kern') /\ LogGrows(kern, kern')
<1>0. /\ kern \in Transactions /\ kern.active.live /\ kern.state[c] = "awaiting_approval"
      /\ AcceptsApprovalDecided(kern.proj, c)
  BY DEF TypeOK, DecideApproval
<1>1. /\ OpenRun(kern) /\ ~kern.proj.inferring /\ CallAgrees(kern, c) /\ FlagsAgree(kern)
  BY <1>0, WaitingIsOpen
     DEF AcceptsApprovalDecided, OpenRun, Kept, ActiveKept, RunIsOpen
<1>2. c \in Range(kern.order) /\ Decidable(kern.log[c]) /\ kern.active.tool # c
  BY <1>0, <1>1 DEF CallAgrees, FlagsAgree
<1> DEFINE p == ApprovalDecided(kern.proj, c)
           t(v) == [kern EXCEPT !.proj = p, !.log[c].approval = v]
           g(v) == [kern.log[c] EXCEPT !.approval = v]
<1>3. p.pending = kern.proj.pending \ {c} /\ ~p.inferring /\ RequireRunning(p)
  BY <1>0, <1>1 DEF ApprovalDecided, AcceptsApprovalDecided, Transactions, Projections,
                    RequireRunning
<1> HIDE DEF p
<1>4. \A v \in {"approved", "refused"} :
        /\ t(v).proj = p /\ t(v).order = kern.order /\ t(v).active = kern.active
        /\ t(v).state = kern.state
        /\ \A x \in Calls : t(v).log[x] = IF x = c THEN g(v) ELSE kern.log[x]
  BY <1>0 DEF Transactions
<1>5. \A v \in {"approved", "refused"} :
        /\ g(v).approval = v /\ g(v).done = kern.log[c].done
        /\ g(v).started = kern.log[c].started /\ g(v).proposed = kern.log[c].proposed
  BY <1>0 DEF Transactions, CallFacts
<1>6. CASE b
  <2>1. kern' = [t("approved") EXCEPT !.state[c] = "allowed"]
    BY <1>6 DEF DecideApproval, p
  <2>2. /\ kern'.proj = p /\ kern'.order = kern.order /\ kern'.active = kern.active
        /\ \A x \in Calls : /\ kern'.log[x] = IF x = c THEN g("approved") ELSE kern.log[x]
                            /\ kern'.state[x] = IF x = c THEN "allowed" ELSE kern.state[x]
    BY <1>0, <2>1 DEF Transactions
  <2> HIDE DEF t, g
  <2>3. ~Decidable(kern'.log[c]) /\ kern'.log[c].done = "no" /\ kern.log[c].done = "no"
    BY <1>2, <1>5, <2>2 DEF Decidable
  <2>4. OpenRun(kern') /\ LogGrows(kern, kern')
    BY <1>0, <1>1, <1>2, <1>3, <1>5, <2>2, <2>3, AnsweredKept
  <2> QED
    BY <2>4 DEF OpenRun
<1>7. CASE ~b
  <2> DEFINE h == [Reconciled(g("refused")) EXCEPT !.done = "error"]
  <2>1. kern' = RecordToolError(t("refused"), {c})
    BY <1>7 DEF DecideApproval, p
  <2>2. /\ kern'.proj = t("refused").proj /\ kern'.order = t("refused").order
        /\ kern'.active = t("refused").active
        /\ \A x \in Calls :
             /\ kern'.log[x] = IF x = c
                               THEN [Reconciled(t("refused").log[c]) EXCEPT !.done = "error"]
                               ELSE t("refused").log[x]
             /\ kern'.state[x] = IF x = c THEN "terminal" ELSE t("refused").state[x]
    <3>1. t("refused") \in Transactions
      BY <1>0, DecidedType DEF p
    <3> HIDE DEF t
    <3> QED
      BY <2>1, <3>1 DEF RecordToolError, Transactions
  <2>3. h.done = "error" /\ h.started = kern.log[c].started /\ h.proposed = kern.log[c].proposed
    BY <1>0 DEF Reconciled, Transactions, CallFacts
  <2> HIDE DEF t
  <2>4. /\ kern'.proj = p /\ kern'.order = kern.order /\ kern'.active = kern.active
        /\ \A x \in Calls : /\ kern'.log[x] = IF x = c THEN h ELSE kern.log[x]
                            /\ kern'.state[x] = IF x = c THEN "terminal" ELSE kern.state[x]
    BY <1>4, <2>2
  <2> HIDE DEF h, g
  <2>5. ~Decidable(kern'.log[c]) /\ kern'.log[c].done # "no" /\ kern.log[c].done = "no"
    BY <1>2, <2>3, <2>4 DEF Decidable
  <2>6. OpenRun(kern') /\ LogGrows(kern, kern')
    BY <1>0, <1>1, <1>2, <1>3, <2>3, <2>4, <2>5, AnsweredKept
  <2> QED
    BY <2>6 DEF OpenRun
<1> QED
  BY <1>6, <1>7

(* answer_questions and cancel_questions. *)
LEMMA ResolveKept ==
  ASSUME TypeOK, Kept(kern), NEW c \in Calls, ResolveQuestions(c)
  PROVE  Kept(kern') /\ LogGrows(kern, kern')
<1>0. /\ kern \in Transactions /\ kern.active.live /\ kern.state[c] = "awaiting_input"
      /\ kern.proj.status = "awaiting_input"
      /\ kern' = [kern EXCEPT !.proj = RunResumed(kern.proj), !.log[c].done = "result",
                              !.state[c] = "terminal"]
  BY DEF TypeOK, ResolveQuestions, AcceptsRunResumed
<1>1. OpenRun(kern) /\ ~kern.proj.inferring /\ CallAgrees(kern, c)
  BY <1>0, WaitingIsOpen
<1>2. c \in Range(kern.order) /\ ~Decidable(kern.log[c]) /\ kern.log[c].done = "no"
      /\ RequireRunning(kern.proj)
  BY <1>0, <1>1 DEF CallAgrees, RequireRunning
<1> DEFINE p == RunResumed(kern.proj)
           g == [kern.log[c] EXCEPT !.done = "result"]
<1>3. p.pending = kern.proj.pending /\ ~p.inferring /\ RequireRunning(p)
  BY <1>0, <1>1 DEF RunResumed, Transactions, Projections, RequireRunning
<1>4. c \notin kern.proj.pending
  BY <1>1, <1>2 DEF OpenRun, Kept, LogKept, ProjectionKept
<1>5. /\ kern'.proj = p /\ kern'.order = kern.order /\ kern'.active = kern.active
      /\ \A x \in Calls : /\ kern'.log[x] = IF x = c THEN g ELSE kern.log[x]
                          /\ kern'.state[x] = IF x = c THEN "terminal" ELSE kern.state[x]
  BY <1>0 DEF Transactions
<1>6. /\ g.done = "result" /\ g.started = kern.log[c].started
      /\ g.proposed = kern.log[c].proposed
  BY <1>0 DEF Transactions, CallFacts
<1> HIDE DEF p, g
<1>7. ~Decidable(kern'.log[c]) /\ kern'.log[c].done # "no" /\ kern'.state[c] = "terminal"
      /\ kern'.proj.pending = kern.proj.pending \ {c} /\ ~kern'.proj.inferring
      /\ RequireRunning(kern'.proj) /\ kern'.log[c].started = kern.log[c].started
      /\ kern'.log[c].proposed = kern.log[c].proposed
  BY <1>3, <1>4, <1>5, <1>6 DEF Decidable
<1>8. /\ kern'.order = kern.order /\ kern'.active = kern.active
      /\ \A x \in Calls \ {c} : kern'.log[x] = kern.log[x] /\ kern'.state[x] = kern.state[x]
  BY <1>5
<1>9. OpenRun(kern') /\ LogGrows(kern, kern')
  <2>1. kern \in Transactions
    BY <1>0
  <2> QED
    BY <1>1, <1>2, <1>7, <1>8, <2>1, AnsweredKept
<1> QED
  BY <1>9 DEF OpenRun
(***************************************************************************)
(* Restart.                                                                *)
(***************************************************************************)
(* Settling the paid tools that were cut off keeps the log. *)
LEMMA SettleKept ==
  ASSUME kern \in Transactions, Kept(kern), ~kern.active.live, ~SettleRefused
  PROVE  Kept(SettleInterrupted(kern)) /\ LogGrows(kern, SettleInterrupted(kern))
<1> DEFINE u == SettleInterrupted(kern)
           g(c) == [kern.log[c] EXCEPT
                      !.spend = IF kern.log[c].started THEN "reconcile" ELSE "released",
                      !.done = "error"]
<1>1. /\ u.order = kern.order /\ u.active = kern.active /\ u.state = kern.state
      /\ u.proj = IF Interrupted(kern) = {} THEN kern.proj ELSE RunEnded(kern.proj, "failed")
      /\ \A c \in Calls : u.log[c] = IF c \in Interrupted(kern) THEN g(c) ELSE kern.log[c]
  BY DEF SettleInterrupted, Transactions
<1>2. \A c \in Calls : /\ g(c).done = "error" /\ g(c).started = kern.log[c].started
                       /\ g(c).proposed = kern.log[c].proposed
  BY DEF Transactions, CallFacts
<1>3. \A c \in Interrupted(kern) : kern.log[c].proposed
  BY DEF Interrupted, Kept, LogKept, BatchKept, ProposalsKept
<1> HIDE DEF u, g
<1>4. LogGrows(kern, u)
  BY <1>1, <1>2, <1>3 DEF LogGrows
<1>5. BatchKept(u)
  BY <1>4, OrderStays DEF Kept, LogKept
<1>6. ProjectionKept(u)
  <2>1. CASE Interrupted(kern) = {}
    BY <1>1, <2>1 DEF ProjectionKept, Kept, LogKept
  <2>2. CASE Interrupted(kern) # {}
    BY <1>1, <2>2 DEF ProjectionKept, RunEnded, RequireRunning
  <2> QED
    BY <2>1, <2>2
<1>7. ActiveKept(u) /\ StreamKept(u)
  BY <1>1 DEF Kept, ActiveKept, Stopped, StreamKept
<1>8. Kept(u) /\ LogGrows(kern, u)
  BY <1>4, <1>5, <1>6, <1>7 DEF Kept, LogKept
<1> QED
  BY <1>8 DEF u

(* What open_durable makes of the calls of the last batch agrees with the log. *)
LEMMA RecoveredAgrees ==
  ASSUME NEW t \in Transactions, Good(t), ~ReplayRejects(t), NEW c \in Range(t.order)
  PROVE  LET s == RecoveredState(t, c)
             f == t.log[c] IN
         /\ s \in {"terminal", "awaiting_input", "awaiting_approval", "allowed"}
         /\ s = "terminal" <=> f.done # "no"
         /\ s = "awaiting_approval" <=> (f.done = "no" /\ (c \in Renewed(t) \/ Decidable(f)))
         /\ s = "awaiting_input" => f.started /\ c = t.question
<1>1. c \in Calls /\ t.log[c] \in CallFacts /\ FactsAgree(t.log[c], t.state[c])
  BY OrderType DEF Transactions, Good, LogAgrees
<1>2. RecoveredState(t, c) # "none" /\ (c = t.question => t.log[c].started)
  BY <1>1, KernelAssumption DEF ReplayRejects
<1>3. c \in Renewed(t) => ~t.log[c].started
  BY DEF Renewed, Unstarted
<1>4. CASE t.log[c].done # "no"
  BY <1>4 DEF RecoveredState
<1>5. CASE t.log[c].done = "no" /\ c = t.question
  <2>1. RecoveredState(t, c) = IF t.log[c].policy = "allow" THEN "awaiting_input" ELSE "none"
    BY <1>5 DEF RecoveredState
  <2>2. ~Decidable(t.log[c])
    BY <1>1, <1>2, <2>1 DEF FactsAgree, Decidable
  <2> QED
    BY <1>2, <1>3, <1>5, <2>1, <2>2
<1>6. CASE t.log[c].done = "no" /\ c # t.question
  <2>1. ~BeyondRecovery(t.log[c])
    BY <1>2, <1>6 DEF RecoveredState
  <2>2. RecoveredState(t, c) =
          IF c \in Renewed(t) THEN "awaiting_approval"
          ELSE IF t.log[c].approval = "approved" \/ t.log[c].policy = "allow" THEN "allowed"
          ELSE IF t.log[c].policy = "require" /\ t.log[c].approval = "requested"
               THEN "awaiting_approval"
          ELSE "none"
    BY <1>6, <2>1 DEF RecoveredState
  <2> QED
    BY <1>1, <1>2, <1>6, <2>2 DEF FactsAgree, Decidable
<1> QED
  BY <1>4, <1>5, <1>6

(* A run that is taken up again is open. *)
LEMMA RecoverKept ==
  ASSUME NEW t \in Transactions, Good(t), Kept(t), Recoverable(t), ~ReplayRejects(t)
  PROVE  OpenRun(Recover(t)) /\ LogGrows(t, Recover(t))
<1> DEFINE u == Recover(t)
           states == [c \in Calls |-> IF c \in Range(t.order) THEN RecoveredState(t, c)
                                      ELSE "absent"]
           a == [NoActive EXCEPT !.live = TRUE,
                                 !.recovered = UnstartedAuthority(t)
                                   /\ \E c \in Range(t.order) : states[c] = "allowed"]
           g(c) == [t.log[c] EXCEPT !.approval = "requested"]
<1>1. /\ u.order = t.order /\ u.active = a /\ u.state = states
      /\ u.proj = ApprovalRequested(t.proj, Renewed(t))
      /\ \A c \in Calls : u.log[c] = IF c \in Renewed(t) THEN g(c) ELSE t.log[c]
  BY DEF Recover, Transactions
<1>2. /\ a.live /\ ~a.over /\ ~a.inference /\ ~a.backendDone /\ a.tool = None
      /\ a.calls = <<>>
  BY DEF NoActive
<1>3. \A c \in Calls : /\ g(c).approval = "requested" /\ g(c).done = t.log[c].done
                       /\ g(c).started = t.log[c].started
                       /\ g(c).proposed = t.log[c].proposed /\ g(c).spend = t.log[c].spend
  BY DEF Transactions, CallFacts
<1>4. Range(t.order) \subseteq Calls /\ (t.order = <<>> => Range(t.order) = {})
  BY OrderType, EmptyRange
<1>5. RequireRunning(t.proj) /\ ~t.proj.inferring
  BY <1>4 DEF Recoverable, UnstartedAuthority, RequireRunning, Kept, LogKept, ProjectionKept
<1>6. /\ u.proj.pending = t.proj.pending \cup Renewed(t) /\ ~u.proj.inferring
      /\ RequireRunning(u.proj)
  BY <1>1, <1>5 DEF ApprovalRequested, Transactions, Projections, RequireRunning
<1>7. Renewed(t) \subseteq Range(t.order) /\ \A c \in Renewed(t) : t.log[c].done = "no"
  BY DEF Renewed, Unstarted
<1>8. \A c \in Calls : u.state[c] = IF c \in Range(t.order) THEN RecoveredState(t, c)
                                    ELSE "absent"
  BY <1>1
<1> HIDE DEF u, a, g, states
<1>9. LogGrows(t, u)
  BY <1>1, <1>3 DEF LogGrows
<1>10. BatchKept(u)
  BY <1>9, OrderStays DEF Kept, LogKept
<1>11. \A c \in Range(t.order) :
         Decidable(u.log[c]) <=> (t.log[c].done = "no" /\ (c \in Renewed(t) \/ Decidable(t.log[c])))
  BY <1>1, <1>3, <1>4, <1>7 DEF Decidable
<1>12. ProjectionKept(u)
  BY <1>1, <1>4, <1>5, <1>6, <1>7, <1>11
     DEF ProjectionKept, Kept, LogKept, Decidable, RequireRunning
<1>13. FlagsAgree(u)
  BY <1>1, <1>2, <1>6, KernelAssumption DEF FlagsAgree
<1>14. ASSUME NEW c \in Calls
       PROVE  CallAgrees(u, c)
  <2>1. CASE c \in Range(t.order)
    <3>1. u.log[c].done = t.log[c].done /\ u.log[c].started = t.log[c].started
      BY <1>1, <1>3
    <3>2. /\ u.state[c] \in {"terminal", "awaiting_input", "awaiting_approval", "allowed"}
          /\ u.state[c] = "terminal" <=> t.log[c].done # "no"
          /\ u.state[c] = "awaiting_approval" <=> Decidable(u.log[c])
          /\ u.state[c] = "awaiting_input" => t.log[c].started
      BY <1>8, <1>11, <2>1, RecoveredAgrees
    <3> QED
      BY <1>1, <2>1, <3>1, <3>2 DEF CallAgrees
  <2>2. CASE c \notin Range(t.order)
    BY <1>1, <1>8, <2>2 DEF CallAgrees
  <2> QED
    BY <2>1, <2>2
<1>15. OpenRun(u)
  BY <1>1, <1>2, <1>10, <1>12, <1>13, <1>14
     DEF OpenRun, Kept, LogKept, ActiveKept, RunIsOpen, StreamKept
<1> QED
  BY <1>9, <1>15 DEF u

(* open_durable. *)
LEMMA ReopenKept ==
  ASSUME TypeOK, AuthorityInv, ProtocolInv, Reopen
  PROVE  Kept(kern') /\ LogGrows(kern, kern')
<1> DEFINE t == SettleInterrupted(kern)
<1>0. kern \in Transactions /\ Good(kern) /\ ~kern.active.live /\ Kept(kern)
  BY DEF TypeOK, AuthorityInv, Good, ProtocolInv, OwnerKept, Reopen
<1>1. CASE kern' = kern
  BY <1>0, <1>1 DEF LogGrows
<1>2. CASE ~SettleRefused
  <2>1. Kept(t) /\ LogGrows(kern, t) /\ t \in Transactions /\ Good(t)
    BY <1>0, <1>2, SettleKept, SettleType, SettleGood
  <2>2. kern' = t \/ (Recoverable(t) /\ ~ReplayRejects(t) /\ kern' = Recover(t))
    BY <1>2 DEF Reopen
  <2> HIDE DEF t
  <2>3. CASE Recoverable(t) /\ ~ReplayRejects(t) /\ kern' = Recover(t)
    <3>1. OpenRun(Recover(t)) /\ LogGrows(t, Recover(t))
      BY <2>1, <2>3, RecoverKept
    <3> QED
      BY <2>1, <2>3, <3>1 DEF OpenRun, LogGrows
  <2> QED
    BY <2>1, <2>2, <2>3
<1> QED
  BY <1>1, <1>2 DEF Reopen
(***************************************************************************)
(* Every step keeps the protocol.                                          *)
(***************************************************************************)
(* Processing an update. *)
LEMMA ProcessUpdateKept ==
  ASSUME TypeOK, AuthorityInv, Named, Kept(kern), ProcessUpdate
  PROVE  Kept(kern') /\ pc' \in {"ready", "launch"} /\ up' = up
<1>1. Kept(kern')
  BY BackendEventKept, ToolCallFinishKept, BackendStopKept, BackendEndedKept, ToolUpdateKept,
     ToolResultKept, ToolFailureKept, DeadlineKept, ToolEndedKept DEF ProcessUpdate
<1>2. \A K : Processing(K) => pc = "ready" /\ up' = up
  BY DEF Processing
<1>3. pc' \in {"ready", "launch"} /\ up' = up
  BY <1>2, Zenon DEF ProcessUpdate, ProcessBackendEvent, ProcessToolCallFinish,
       ProcessBackendStop, ProcessBackendEnded, ProcessToolUpdate, ProcessToolResult,
       ProcessToolFailure, ProcessDeadline, ProcessToolEnded, LaunchIfDispatching
<1> QED
  BY <1>1, <1>3

(* The owner's steps on its own account. *)
LEMMA DrainKept ==
  ASSUME TypeOK, AuthorityInv, Named, ProtocolInv, Drain
  PROVE  ProtocolInv'
<1>0. Kept(kern) /\ OwnerKept /\ kern \in Transactions
  BY DEF ProtocolInv, TypeOK
<1>1. CASE \E m \in DrainModes : DrainSwap(m)
  BY <1>0, <1>1 DEF ProtocolInv, OwnerKept, DrainSwap, OwnerIdle
<1>2. CASE DrainLaunch
  <2> DEFINE a == [kern.active EXCEPT !.recovered = FALSE]
  <2>1. /\ kern'.proj = kern.proj /\ kern'.order = kern.order /\ kern'.log = kern.log
        /\ kern'.state = kern.state /\ kern'.active = a
    BY <1>0, <1>2 DEF DrainLaunch, Transactions
  <2>2. /\ a.live = kern.active.live /\ a.over = kern.active.over
        /\ a.inference = kern.active.inference /\ a.tool = kern.active.tool
        /\ a.backendDone = kern.active.backendDone /\ a.calls = kern.active.calls
    BY <1>0 DEF Transactions, ActiveRuns
  <2> HIDE DEF a
  <2>3. kern.active.live /\ up = "up" /\ up' = up /\ pc' = "launch"
    BY <1>2 DEF DrainLaunch, OwnerIdle
  <2>4. StreamKept(kern')
    BY <1>0, <2>1, <2>2 DEF Kept, StreamKept
  <2>5. Kept(kern')
    BY <1>0, <2>1, <2>2, <2>3, <2>4, FlagKept
  <2> QED
    BY <2>3, <2>5 DEF ProtocolInv, OwnerKept
<1>3. CASE ProcessUpdate
  <2>1. up = "up"
    BY <1>3 DEF ProcessUpdate, ProcessBackendEvent, ProcessToolCallFinish,
       ProcessBackendStop, ProcessBackendEnded, ProcessToolUpdate, ProcessToolResult,
       ProcessToolFailure, ProcessDeadline, ProcessToolEnded, Processing
  <2>2. Kept(kern') /\ pc' \in {"ready", "launch"} /\ up' = up
    BY <1>0, <1>3, ProcessUpdateKept
  <2> QED
    BY <2>1, <2>2 DEF ProtocolInv, OwnerKept
<1>4. CASE LaunchNextTool
  <2>1. up' = "up" /\ pc' \in {"ready", "spawn"}
    BY <1>4 DEF LaunchNextTool
  <2>2. /\ Kept(kern')
        /\ pc' = "spawn" => /\ OpenRun(kern') /\ kern'.active.tool \in Calls
                            /\ kern'.state[kern'.active.tool] = "running"
    BY <1>0, <1>4, LaunchKept
  <2> QED
    BY <2>1, <2>2 DEF ProtocolInv, OwnerKept, OpenRun
<1>5. CASE SpawnTool
  BY <1>0, <1>5 DEF SpawnTool, ProtocolInv, OwnerKept
<1>6. CASE SpawnToolFails
  <2>1. Kept(kern')
    BY <1>6, SpawnFailedKept
  <2>2. up' = "up" /\ pc' = "ready"
    BY <1>6 DEF SpawnToolFails
  <2> QED
    BY <2>1, <2>2 DEF ProtocolInv, OwnerKept
<1>7. CASE SpawnBackend
  BY <1>0, <1>7 DEF SpawnBackend, ProtocolInv, OwnerKept
<1>8. CASE SpawnBackendFails
  <2>1. up' = "up" /\ pc' = "ready" /\ kern' = FailLiveRun(kern) /\ kern.active.live
    BY <1>0, <1>8 DEF SpawnBackendFails, OwnerKept
  <2>2. Kept(FailLiveRun(kern))
    BY <1>0, <2>1, FailKept DEF Kept, LogKept, ActiveKept
  <2> QED
    BY <2>1, <2>2 DEF ProtocolInv, OwnerKept
<1> QED
  BY <1>1, <1>2, <1>3, <1>4, <1>5, <1>6, <1>7, <1>8 DEF Drain

(* The calls of the surface. *)
LEMMA SurfaceKept ==
  ASSUME TypeOK, ProtocolInv, Surface
  PROVE  ProtocolInv'
<1>0. Kept(kern) /\ OwnerKept
  BY DEF ProtocolInv
<1>1. CASE Start
  <2>1. up' = "up" /\ pc' = "backend"
    BY <1>1 DEF Start, OwnerIdle
  <2> QED
    BY <1>0, <1>1, <2>1, StartKept DEF ProtocolInv, OwnerKept, OpenRun
<1>2. CASE ContinueRun
  <2>1. up' = "up" /\ pc' = "backend"
    BY <1>2 DEF ContinueRun, OwnerIdle
  <2> QED
    BY <1>0, <1>2, <2>1, ContinueKept DEF ProtocolInv, OwnerKept, OpenRun
<1>3. CASE CancelRun
  <2>1. up' = "up" /\ pc' = "ready"
    BY <1>3 DEF CancelRun, OwnerIdle
  <2> QED
    BY <1>0, <1>3, <2>1, CancelKept DEF ProtocolInv, OwnerKept
<1>4. ASSUME NEW c \in Calls, ResolveQuestions(c)
      PROVE  ProtocolInv'
  <2>1. up' = "up" /\ pc' = "launch"
    BY <1>4 DEF ResolveQuestions, OwnerIdle
  <2> QED
    BY <1>0, <1>4, <2>1, ResolveKept DEF ProtocolInv, OwnerKept
<1>5. ASSUME NEW c \in Calls, NEW b \in BOOLEAN, DecideApproval(c, b)
      PROVE  ProtocolInv'
  <2>1. up' = "up" /\ pc' = "launch"
    BY <1>5 DEF DecideApproval, OwnerIdle
  <2> QED
    BY <1>0, <1>5, <2>1, DecideKept DEF ProtocolInv, OwnerKept
<1> QED
  BY <1>1, <1>2, <1>3, <1>4, <1>5 DEF Surface

(* What is proved of every reachable state so far. *)
KernelInv == TypeOK /\ AuthorityInv /\ Named /\ ProtocolInv

(* Every step of the kernel, its workers, the user and restarts. *)
LEMMA ProtocolStep == KernelInv /\ [Next]_vars => ProtocolInv'
<1> SUFFICES ASSUME KernelInv, [Next]_vars
             PROVE  ProtocolInv'
  OBVIOUS
<1>0. TypeOK /\ AuthorityInv /\ Named /\ ProtocolInv /\ kern \in Transactions
  BY DEF KernelInv, TypeOK
<1>1. CASE BackendWorker \/ ToolWorker \/ DeadlineWorker \/ UNCHANGED vars
  <2>1. kern' = kern /\ up' = up /\ pc' = pc
    BY <1>1, Zenon DEF BackendWorker, BackendDelivers, BackendFails, BackendEnds, ToolWorker,
                ToolDelivers, ToolFails, ToolEnds, DeadlineWorker, DeadlinePasses,
                DeadlinePushes, vars
  <2> QED
    BY <1>0, <2>1 DEF ProtocolInv, OwnerKept
<1>2. CASE Drain
  BY <1>0, <1>2, DrainKept
<1>3. CASE Surface
  BY <1>0, <1>3, SurfaceKept
<1>4. ASSUME NEW how \in {"down", "unusable"}, KernelStops(how)
      PROVE  ProtocolInv'
  <2>1. kern' = ResetActive(kern) /\ pc' = "ready" /\ Kept(ResetActive(kern))
    BY <1>0, <1>4, ResetKept DEF KernelStops, ProtocolInv, Kept
  <2>2. ~kern'.active.live
    BY <1>0, <2>1 DEF ResetActive, Transactions, NoActive
  <2> QED
    BY <2>1, <2>2 DEF ProtocolInv, OwnerKept
<1>5. CASE Reopen
  <2>1. Kept(kern')
    BY <1>0, <1>5, ReopenKept
  <2>2. pc' = "ready" /\ (up' = "up" \/ kern' = kern \/ kern' = SettleInterrupted(kern))
        /\ ~kern.active.live
    BY <1>0, <1>5 DEF Reopen, ProtocolInv, OwnerKept
  <2>3. SettleInterrupted(kern).active = kern.active
    BY <1>0 DEF SettleInterrupted, Transactions
  <2> QED
    BY <2>1, <2>2, <2>3 DEF ProtocolInv, OwnerKept
<1> QED
  BY <1>1, <1>2, <1>3, <1>4, <1>5 DEF Next

(* Nothing has happened yet. *)
LEMMA ProtocolInit == Init => ProtocolInv /\ Named
<1> SUFFICES ASSUME Init
             PROVE  ProtocolInv /\ Named
  OBVIOUS
<1>1. /\ kern = EmptyLog /\ up = "up" /\ pc = "ready" /\ queue = <<>> /\ batch = <<>>
      /\ worker = IdleWorker /\ deadline = "off"
  BY DEF Init
<1>2. /\ kern.order = <<>> /\ kern.proj = NotStarted /\ kern.active = NoActive
      /\ kern.state = NoInvocations /\ \A c \in Calls : kern.log[c] = Unproposed
  BY <1>1 DEF EmptyLog
<1>3. LogKept(kern)
  BY <1>2 DEF LogKept, BatchKept, OrderKept, ProposalsKept, ProjectionKept, NotStarted,
              Unproposed, RequireRunning
<1>4. ActiveKept(kern) /\ StreamKept(kern)
  <2>1. kern.active.calls = <<>> /\ ~kern.active.live /\ kern.active.tool = None
    BY <1>2 DEF NoActive
  <2> QED
    BY <1>2, <2>1 DEF ActiveKept, Stopped, StreamKept
<1>5. Named
  BY <1>1, EmptyRange DEF Named, InFlightIsNamed, InFlight, IdleWorker
<1> QED
  BY <1>1, <1>3, <1>4, <1>5 DEF ProtocolInv, Kept, OwnerKept

(* KernelInv is an invariant of the kernel. *)
LEMMA KernelInvariant == Spec => []KernelInv
<1>1. Init => KernelInv
  BY TypeInit, AuthorityInit, ProtocolInit DEF KernelInv
<1>2. KernelInv /\ [Next]_vars => KernelInv'
  BY TypeStep, AuthorityStep, NamedStep, ProtocolStep DEF KernelInv
<1> QED
  BY <1>1, <1>2, PTL DEF Spec

(* The flags of the active run agree with the projection of its events, after any
   updates, decisions, cancellations and restarts: over says that a terminal event
   is recorded, the inference is the projection's, and the calls that wait for an
   approval are those the projection has pending. *)
THEOREM FlagsMatchProjection == Spec => []KernelMatchesProjection
<1>1. KernelInv => KernelMatchesProjection
  <2> SUFFICES ASSUME KernelInv, kern.active.live, ~kern.active.over
               PROVE  /\ RequireRunning(kern.proj)
                      /\ kern.proj.inferring
                           <=> (kern.active.inference /\ ~kern.active.backendDone)
                      /\ kern.proj.pending
                           = {c \in Calls : kern.state[c] = "awaiting_approval"}
    BY DEF KernelInv, ProtocolInv, Kept, ActiveKept, RunIsOver, KernelMatchesProjection
  <2>1. FlagsAgree(kern) /\ (\A c \in Calls : CallAgrees(kern, c)) /\ ProjectionKept(kern)
    BY DEF KernelInv, ProtocolInv, Kept, ActiveKept, RunIsOpen, LogKept
  <2>2. kern.proj.pending \subseteq Calls
    BY DEF KernelInv, TypeOK, Transactions, Projections
  <2>3. \A c \in Calls : c \in kern.proj.pending <=> kern.state[c] = "awaiting_approval"
    BY <2>1 DEF FlagsAgree, CallAgrees, ProjectionKept
  <2> QED
    BY <2>1, <2>2, <2>3 DEF FlagsAgree
<1> QED
  BY <1>1, KernelInvariant, PTL

(* Tools run in the order the provider asked for them: launch_next_tool starts a
   call only when every earlier one of its batch has its result or error, and no
   restart, cancellation or late update undoes that. *)
THEOREM ToolsKeepOrder == Spec => []ProviderOrder
<1>1. KernelInv => ProviderOrder
  BY DEF KernelInv, ProtocolInv, Kept, LogKept, BatchKept, OrderKept, ProviderOrder
<1> QED
  BY <1>1, KernelInvariant, PTL

(* continue_run sends the model a result or an error for every call it made. *)
THEOREM EveryCallIsAnswered == Spec => ContinuationComplete
<1>1. KernelInv /\ [Next]_vars
        => [count'.inferences # count.inferences /\ count'.runs = count.runs
              => \A c \in Range(kern.order) : kern.log[c].done # "no"]_vars
  <2> SUFFICES ASSUME KernelInv, Next, count'.inferences # count.inferences,
                      count'.runs = count.runs
               PROVE  \A c \in Range(kern.order) : kern.log[c].done # "no"
    BY DEF vars
  <2>0. TypeOK /\ kern \in Transactions /\ Kept(kern)
    BY DEF KernelInv, TypeOK, ProtocolInv
  <2>1. CASE ContinueRun
    BY <2>0, <2>1, ClosedBatch DEF ContinueRun
  <2>2. CASE Start
    BY <2>0, <2>2 DEF Start, TypeOK
  <2>3. CASE Reopen \/ BackendWorker \/ ToolWorker \/ DeadlineWorker \/ Drain
    <3>1. \A K : Processing(K) => count' = count
      BY DEF Processing
    <3>2. count' = count
      BY <2>3, <3>1, Zenon DEF Reopen, BackendWorker, BackendDelivers, BackendFails, BackendEnds,
           ToolWorker, ToolDelivers, ToolFails, ToolEnds, DeadlineWorker, DeadlinePasses,
           DeadlinePushes, Drain, DrainSwap, DrainLaunch, LaunchNextTool, SpawnTool,
           SpawnToolFails, SpawnBackend, SpawnBackendFails, ProcessUpdate,
           ProcessBackendEvent, ProcessToolCallFinish, ProcessBackendStop,
           ProcessBackendEnded, ProcessToolUpdate, ProcessToolResult, ProcessToolFailure,
           ProcessDeadline, ProcessToolEnded
    <3> QED
      BY <3>2
  <2>4. CASE CancelRun \/ \E c \in Calls : ResolveQuestions(c) \/ \E b \in BOOLEAN : DecideApproval(c, b)
    BY <2>4 DEF CancelRun, ResolveQuestions, DecideApproval
  <2>5. ASSUME NEW how, KernelStops(how)
        PROVE  count'.inferences = count.inferences
    BY <2>0, <2>5 DEF KernelStops, TypeOK
  <2> QED
    BY <2>1, <2>2, <2>3, <2>4, <2>5 DEF Next, Surface
<1> QED
  BY <1>1, KernelInvariant, PTL DEF Spec, ContinuationComplete
(***************************************************************************)
(* What is recorded is accepted.                                           *)
(***************************************************************************)
(* Nothing is recorded, or the run is open, what is recorded does not complete it
   outside an inference, and no approval is asked for during one. *)
Quiet(t, u) == u.proj = t.proj /\ u.log = t.log
Accepted(t, u) ==
  \/ Quiet(t, u)
  \/ /\ RequireRunning(t.proj)
     /\ u.proj.status = "completed" => t.proj.inferring
     /\ t.proj.inferring => u.proj.pending \subseteq t.proj.pending

(* That is what the projection asks. *)
LEMMA AcceptedIsAccepted ==
  ASSUME KernelInv, Accepted(kern, kern')
  PROVE  LET p == kern.proj
             q == kern'.proj IN
         /\ p.inferring /\ ~q.inferring => AcceptsInferenceEnded(p)
         /\ q.status = "completed" /\ p # q => AcceptsRunCompleted(InferenceEnded(p))
         /\ q.status \in RunOver /\ p # q => RequireRunning(p)
         /\ AcceptsApprovalRequested(p, q.pending \ p.pending)
         /\ p.status \in RunOver => q = p /\ kern'.log = kern.log
<1>1. /\ kern \in Transactions /\ ProjectionKept(kern) /\ kern.proj \in Projections(Calls)
  BY DEF KernelInv, TypeOK, ProtocolInv, Kept, LogKept, Transactions
<1>2. kern.proj.inferring => RequireRunning(kern.proj) /\ kern.proj.pending = {}
  <2>1. ASSUME kern.proj.inferring
        PROVE  RequireRunning(kern.proj) /\ kern.order = <<>>
    BY <1>1, <2>1 DEF ProjectionKept, RequireRunning
  <2>2. ASSUME kern.proj.inferring
        PROVE  \A c \in Calls : c \notin kern.proj.pending
    BY <1>1, <2>1, <2>2, EmptyRange DEF ProjectionKept
  <2> QED
    BY <1>1, <2>1, <2>2 DEF Projections
<1>3. CASE Quiet(kern, kern')
  BY <1>2, <1>3 DEF Quiet, AcceptsInferenceEnded, AcceptsApprovalRequested
<1>4. CASE ~Quiet(kern, kern')
  <2>1. /\ RequireRunning(kern.proj)
        /\ kern'.proj.status = "completed" => kern.proj.inferring
        /\ kern.proj.inferring => kern'.proj.pending \subseteq kern.proj.pending
    BY <1>4 DEF Accepted
  <2>2. kern.proj.status \notin RunOver
    BY <2>1 DEF RequireRunning, RunOver
  <2>3. kern.proj.inferring => AcceptsRunCompleted(InferenceEnded(kern.proj))
    BY <1>1, <1>2 DEF AcceptsRunCompleted, InferenceEnded, RequireRunning, Projections
  <2> QED
    BY <2>1, <2>2, <2>3 DEF AcceptsInferenceEnded, AcceptsApprovalRequested
<1> QED
  BY <1>3, <1>4

(* An open run takes what does not complete it or ask for approvals. *)
LEMMA OpenAccepts ==
  ASSUME NEW t \in Transactions, OpenRun(t), NEW u, u.proj.status # "completed",
         u.proj.pending \subseteq t.proj.pending \/ ~t.proj.inferring
  PROVE  Accepted(t, u)
  BY DEF Accepted, OpenRun, Kept, ActiveKept, RunIsOpen, FlagsAgree

(* Closing calls, in particular. *)
LEMMA ClosingAccepted ==
  ASSUME NEW t \in Transactions, OpenRun(t), NEW u, u.proj = t.proj
  PROVE  Accepted(t, u)
<1>1. t.proj.status # "completed"
  BY DEF OpenRun, Kept, ActiveKept, RunIsOpen, FlagsAgree, RequireRunning
<1> QED
  BY <1>1, OpenAccepts

(* A run fails only while it is open. *)
LEMMA FailAccepted ==
  ASSUME NEW t \in Transactions, OpenRun(t), NEW u, u.proj = RunEnded(t.proj, "failed")
  PROVE  Accepted(t, u)
  BY OpenAccepts DEF RunEnded

(* The events that fail or drop a call are accepted. *)
LEMMA FailOrDropAccepted ==
  ASSUME kern \in Transactions, Kept(kern), NEW t \in Transactions,
         t.proj = kern.proj, t.active = kern.active
  PROVE  Accepted(kern, FailOrDrop(t))
<1>1. CASE t.active.live /\ ~t.active.over
  <2>1. OpenRun(kern) /\ FailOrDrop(t) = FailLiveRun(t)
    BY <1>1 DEF OpenRun, FailOrDrop
  <2>2. FailLiveRun(t).proj = RunEnded(kern.proj, "failed")
    BY DEF FailLiveRun, Transactions
  <2> QED
    BY <2>1, <2>2, FailAccepted
<1>2. CASE ~(t.active.live /\ ~t.active.over)
  BY <1>2 DEF FailOrDrop, Accepted, Quiet
<1> QED
  BY <1>1, <1>2

(* The updates of the backend. *)
LEMMA BackendAccepted ==
  ASSUME TypeOK, AuthorityInv, Kept(kern),
         ProcessBackendEvent \/ ProcessToolCallFinish \/ ProcessBackendStop
  PROVE  Accepted(kern, kern')
<1>0. kern \in Transactions /\ Accepted(kern, kern)
  BY DEF TypeOK, Accepted, Quiet
<1>1. CASE kern' \in {kern, FailOrDrop(kern)}
  BY <1>0, <1>1, FailOrDropAccepted
<1>2. ASSUME Streaming, NEW o, kern' = RunStops(o)
      PROVE  Accepted(kern, kern')
  <2>1. OpenRun(kern) /\ kern.proj.inferring
    BY <1>2, StreamingIsOpen
       DEF OpenRun, Kept, ActiveKept, RunIsOpen, FlagsAgree, Streaming, Inferring
  <2>2. kern'.proj = RunEnded(kern.proj, o)
    BY <1>0, <1>2 DEF RunStops, Transactions
  <2> QED
    BY <2>1, <2>2 DEF Accepted, RunEnded, OpenRun, Kept, ActiveKept, RunIsOpen, FlagsAgree
<1>3. ASSUME NEW a, kern' = [kern EXCEPT !.active = a]
      PROVE  Accepted(kern, kern')
  BY <1>0, <1>3 DEF Transactions, Accepted, Quiet
<1>4. ASSUME Streaming, NEW bad,
             kern' = RecordToolError(Proposed(Range(kern.active.calls)), bad)
      PROVE  Accepted(kern, kern')
  <2> DEFINE u == Proposed(Range(kern.active.calls))
  <2>1. u \in Transactions /\ OpenRun(kern)
    BY <1>0, <1>4, ProposedType, StreamingIsOpen
  <2>2. u.proj = InferenceEnded(kern.proj)
    BY <1>0 DEF Proposed, Transactions
  <2> HIDE DEF u
  <2>3. kern' = RecordToolError(u, bad)
    BY <1>4 DEF u
  <2>4. kern'.proj = InferenceEnded(kern.proj)
    BY <2>1, <2>2, <2>3 DEF RecordToolError, Transactions
  <2>5. kern.proj.status # "completed" /\ kern.proj \in Projections(Calls)
    BY <1>0, <2>1 DEF OpenRun, Kept, ActiveKept, RunIsOpen, FlagsAgree, RequireRunning,
                      Transactions
  <2>6. kern'.proj.status = kern.proj.status /\ kern'.proj.pending = kern.proj.pending
    BY <2>4, <2>5 DEF InferenceEnded, Projections
  <2> QED
    BY <1>0, <2>1, <2>5, <2>6, OpenAccepts
<1>5. CASE ProcessBackendEvent
  <2>1. \/ kern' \in {kern, FailOrDrop(kern)}
        \/ Streaming /\ kern' = RunStops("completed")
        \/ kern' = [kern EXCEPT !.active.response = TRUE]
        \/ kern' = [kern EXCEPT !.active.calls = Append(@, Update1.call)]
    BY <1>5 DEF ProcessBackendEvent
  <2> QED
    BY <1>1, <1>2, <1>3, <2>1
<1>6. CASE ProcessToolCallFinish
  BY <1>1, <1>4, <1>6 DEF ProcessToolCallFinish
<1>7. CASE ProcessBackendStop
  <2>1. \/ kern' \in {kern, FailOrDrop(kern)}
        \/ Streaming /\ kern' = RunStops("cancelled")
        \/ kern' = [kern EXCEPT !.active.ackExpected = FALSE]
    BY <1>7 DEF ProcessBackendStop, Acknowledged
  <2> QED
    BY <1>1, <1>2, <1>3, <2>1
<1> QED
  BY <1>5, <1>6, <1>7
(* The end of the backend's stream. *)
LEMMA BackendEndedAccepted ==
  ASSUME TypeOK, Kept(kern), ProcessBackendEnded
  PROVE  Accepted(kern, kern')
<1>0. kern \in Transactions /\ Accepted(kern, kern)
  BY DEF TypeOK, Accepted, Quiet
<1>1. CASE ~Inferring
  BY <1>0, <1>1 DEF ProcessBackendEnded, Streaming
<1>2. CASE Streaming
  <2> DEFINE t == FailLiveRun(kern)
  <2>1. /\ t.active.over /\ t \in Transactions /\ t.proj = RunEnded(kern.proj, "failed")
    BY <1>0, FailType DEF FailLiveRun, Transactions, ActiveRuns
  <2>2. kern' = ResetActive(t)
    BY <1>2, <2>1 DEF ProcessBackendEnded, Streaming
  <2> HIDE DEF t
  <2>3. kern'.proj = RunEnded(kern.proj, "failed")
    BY <2>1, <2>2 DEF ResetActive, Transactions
  <2> QED
    BY <1>0, <1>2, <2>3, StreamingIsOpen, FailAccepted
<1>3. CASE Inferring /\ ~Streaming /\ kern.active.over
  <2>1. kern' = ResetActive(kern)
    BY <1>3 DEF ProcessBackendEnded
  <2> QED
    BY <1>0, <2>1 DEF ResetActive, Transactions, Accepted, Quiet
<1>4. CASE Inferring /\ ~Streaming /\ ~kern.active.over
  <2> DEFINE t == BetweenInferences(kern)
  <2>1. PICK out \in [Calls -> PolicyOutcomes] : kern' = EvaluatePolicies(t, out)
    BY <1>4 DEF ProcessBackendEnded
  <2>2. out \in [Calls -> Outcomes]
    BY KernelAssumption
  <2>3. /\ OpenRun(kern) /\ ~kern.proj.inferring /\ kern.proj.status # "completed"
    BY <1>4 DEF OpenRun, Inferring, Streaming, Kept, ActiveKept, RunIsOpen, FlagsAgree,
                RequireRunning
  <2>4. t \in Transactions /\ t.proj = kern.proj
    BY <1>0, BetweenType DEF BetweenInferences, Transactions
  <2> HIDE DEF t
  <2> DEFINE proposed == {i \in DOMAIN t.order : t.state[t.order[i]] = "proposed"}
             malformed == {i \in proposed : out[t.order[i]] = "malformed"}
             before == {t.order[i] : i \in {j \in proposed : \A m \in malformed : j < m}}
             requested == {c \in before : out[c] = "require"}
             p == ApplyPolicy(t, before, out)
  <2>5. before \in SUBSET Calls
    BY <2>4, OrderType
  <2>6. \A c \in before : out[c] \in Outcomes \ {"malformed"}
    BY <2>2, <2>4, OrderType
  <2>7. EvaluatePolicies(t, out) \in {p, kern, FailLiveRun(p)}
    BY DEF EvaluatePolicies
  <2> HIDE DEF before
  <2>8. p \in Transactions
    BY <2>4, <2>5, <2>6, PolicyType
  <2>9. p.proj = ApprovalRequested(t.proj, requested)
    BY <2>4, <2>8 DEF ApplyPolicy, RecordToolError, Transactions
  <2> HIDE DEF p
  <2>10. p.proj.status # "completed"
    BY <1>0, <2>3, <2>4, <2>9 DEF ApprovalRequested, Transactions, Projections
  <2>11. FailLiveRun(p).proj.status # "completed"
    BY <2>8 DEF FailLiveRun, Transactions, RunEnded
  <2>12. kern'.proj.status # "completed"
    BY <2>1, <2>3, <2>7, <2>10, <2>11
  <2> QED
    BY <1>0, <2>3, <2>12, OpenAccepts
<1> QED
  BY <1>1, <1>2, <1>3, <1>4 DEF Streaming

(* The updates of a tool. *)
LEMMA ToolAccepted ==
  ASSUME TypeOK, Kept(kern), Named,
         ProcessToolUpdate \/ ProcessToolResult \/ ProcessToolFailure \/ ProcessDeadline
           \/ ProcessToolEnded
  PROVE  Accepted(kern, kern')
<1>0. kern \in Transactions /\ Accepted(kern, kern)
  BY DEF TypeOK, Accepted, Quiet
<1>1. Update1.call \in Calls
  BY UpdateIsNamed DEF ProcessToolUpdate, ProcessToolResult, ProcessToolFailure,
       ProcessDeadline, ProcessToolEnded, Processing, BackendUpdate, BackendEvents,
       BackendFailures
<1> DEFINE c == Update1.call
           e == RecordToolError(kern, {c})
<1>2. ForOpenTool => OpenRun(kern) /\ kern.active.tool = c
  BY <1>1, OpenToolIsOpen
<1>3. e \in Transactions /\ e.proj = kern.proj /\ e.active = kern.active
  <2>1. e \in Transactions
    BY <1>0, ToolErrorType
  <2>2. e.proj = kern.proj /\ e.active = kern.active
    BY <1>0 DEF RecordToolError, Transactions
  <2> QED
    BY <2>1, <2>2
<1>4. Accepted(kern, FailOrDrop(kern)) /\ Accepted(kern, FailOrDrop(e))
  BY <1>0, <1>3, FailOrDropAccepted
<1>5. ForOpenTool => Accepted(kern, e)
  BY <1>0, <1>2, <1>3, ClosingAccepted
<1>6. CASE ProcessToolUpdate
  <2>1. CASE kern' \in {kern, FailOrDrop(kern), FailOrDrop(e)} \/ (ForOpenTool /\ kern' = e)
    BY <1>0, <1>4, <1>5, <2>1
  <2>2. CASE /\ ForOpenTool
             /\ kern' = [kern EXCEPT !.proj = RunAwaitingInput(kern.proj), !.question = c,
                                     !.state[c] = "awaiting_input"]
    <3>1. /\ kern'.proj.status = "awaiting_input" /\ kern'.proj.pending = kern.proj.pending
      BY <1>0, <2>2 DEF RunAwaitingInput, Transactions, Projections
    <3> QED
      BY <1>0, <1>2, <2>2, <3>1, OpenAccepts
  <2> QED
    BY <1>6, <2>1, <2>2 DEF ProcessToolUpdate
<1>7. CASE ProcessToolResult
  <2>1. CASE kern' \in {kern, FailOrDrop(kern)}
    BY <1>0, <1>4, <2>1
  <2>2. ASSUME NEW d, ForOpenTool, kern' = RecordToolResult(kern, c, d)
        PROVE  Accepted(kern, kern')
    <3>1. kern'.proj = kern.proj
      BY <1>0, <2>2 DEF RecordToolResult, Transactions
    <3> QED
      BY <1>0, <1>2, <2>2, <3>1, ClosingAccepted
  <2> QED
    BY <1>7, <2>1, <2>2 DEF ProcessToolResult
<1>8. CASE ProcessToolFailure
  <2>1. CASE kern' \in {kern, FailOrDrop(e)}
    BY <1>0, <1>4, <2>1
  <2>2. ASSUME NEW d, ForOpenTool,
               kern' = RecordToolError([kern EXCEPT !.log[c].spend = d], {c})
        PROVE  Accepted(kern, kern')
    <3>1. kern'.proj = kern.proj
      BY <1>0, <2>2 DEF RecordToolError, Transactions
    <3> QED
      BY <1>0, <1>2, <2>2, <3>1, ClosingAccepted
  <2> QED
    BY <1>8, <2>1, <2>2 DEF ProcessToolFailure
<1>9. CASE ProcessDeadline
  BY <1>0, <1>5, <1>9 DEF ProcessDeadline
<1>10. CASE ProcessToolEnded
  <2> DEFINE t == IF kern.state[c] \in {"terminal", "awaiting_input"} THEN kern ELSE e
             u == [t EXCEPT !.active.tool = None]
  <2>1. kern' \in {kern, u, ResetActive(u)} /\ (kern' # kern => ForActiveTool)
    BY <1>10 DEF ProcessToolEnded
  <2>2. t \in Transactions /\ t.proj = kern.proj
    BY <1>0, <1>3
  <2>3. t.log = kern.log \/ (ForActiveTool => ForOpenTool)
    BY DEF ForOpenTool
  <2> HIDE DEF t
  <2>4. /\ u.proj = t.proj /\ u.log = t.log
        /\ ResetActive(u).proj = t.proj /\ ResetActive(u).log = t.log
    BY <2>2 DEF ResetActive, Transactions
  <2> HIDE DEF u
  <2>5. CASE t.log = kern.log
    BY <2>1, <2>2, <2>4, <2>5 DEF Accepted, Quiet
  <2>6. CASE ForOpenTool
    BY <1>0, <1>2, <2>1, <2>2, <2>4, <2>6, ClosingAccepted
  <2> QED
    BY <1>0, <2>1, <2>3, <2>5, <2>6
<1> QED
  BY <1>6, <1>7, <1>8, <1>9, <1>10

(* The owner's steps. *)
LEMMA DrainAccepted ==
  ASSUME KernelInv, Drain
  PROVE  Accepted(kern, kern')
<1>0. /\ TypeOK /\ AuthorityInv /\ Named /\ Kept(kern) /\ OwnerKept /\ kern \in Transactions
      /\ Accepted(kern, kern)
  BY DEF KernelInv, ProtocolInv, TypeOK, Accepted, Quiet
<1>1. CASE (\E m \in DrainModes : DrainSwap(m)) \/ SpawnTool \/ SpawnBackend
  BY <1>0, <1>1 DEF DrainSwap, SpawnTool, SpawnBackend
<1>2. CASE DrainLaunch
  <2>1. kern' = [kern EXCEPT !.active.recovered = FALSE]
    BY <1>2 DEF DrainLaunch
  <2>2. kern'.proj = kern.proj /\ kern'.log = kern.log
    BY <1>0, <2>1 DEF Transactions
  <2> QED
    BY <2>2 DEF Accepted, Quiet
<1>3. CASE ProcessUpdate
  BY <1>0, <1>3, BackendAccepted, BackendEndedAccepted, ToolAccepted DEF ProcessUpdate
<1>4. CASE LaunchNextTool
  <2> DEFINE c == ReadyTool(kern)
  <2>1. CASE kern' = kern
    BY <1>0, <2>1
  <2>2. CASE c # None /\ kern' \in {RecordToolError(kern, {c}), Launched(kern, c)}
    <3>1. OpenRun(kern)
      BY <1>0, <2>2, ReadyToolIsFirst DEF OpenRun
    <3>2. kern'.proj = kern.proj
      BY <1>0, <2>2 DEF RecordToolError, Launched, Transactions
    <3> QED
      BY <1>0, <3>1, <3>2, ClosingAccepted
  <2> QED
    BY <1>4, <2>1, <2>2, KernelAssumption DEF LaunchNextTool
<1>5. CASE SpawnToolFails
  <2>1. OpenRun(kern)
    BY <1>0, <1>5 DEF SpawnToolFails, OwnerKept, OpenRun
  <2>2. kern'.proj = kern.proj
    BY <1>0, <1>5 DEF SpawnToolFails, RecordToolError, Transactions
  <2> QED
    BY <1>0, <2>1, <2>2, ClosingAccepted
<1>6. CASE SpawnBackendFails
  <2>1. OpenRun(kern)
    BY <1>0, <1>6 DEF SpawnBackendFails, OwnerKept, OpenRun
  <2>2. kern'.proj = RunEnded(kern.proj, "failed")
    BY <1>0, <1>6 DEF SpawnBackendFails, FailLiveRun, Transactions
  <2> QED
    BY <1>0, <2>1, <2>2, FailAccepted
<1> QED
  BY <1>1, <1>2, <1>3, <1>4, <1>5, <1>6 DEF Drain
(* The calls of the surface that belong to a run. *)
LEMMA SurfaceAccepted ==
  ASSUME KernelInv, Surface, ~Start
  PROVE  Accepted(kern, kern')
<1>0. kern \in Transactions /\ Kept(kern) /\ kern.proj \in Projections(Calls)
  BY DEF KernelInv, ProtocolInv, TypeOK, Transactions
<1>1. CASE ContinueRun
  <2>1. OpenRun(kern) /\ kern.proj.status = "running" /\ kern' = BeginInference(kern)
    BY <1>0, <1>1, ClosedBatch DEF ContinueRun, AcceptsInferenceStarted
  <2>2. kern'.proj.status = "running" /\ kern'.proj.pending = kern.proj.pending
    BY <1>0, <2>1 DEF BeginInference, InferenceStarted, Transactions, Projections
  <2> QED
    BY <1>0, <2>1, <2>2, OpenAccepts
<1>2. CASE CancelRun
  <2> DEFINE requested == [kern EXCEPT !.active.cancelRequested = TRUE]
             open == {kern.order[i] : i \in Open(kern)}
             e == RecordToolError(requested, open)
             ended == [e EXCEPT !.proj = RunEnded(kern.proj, "cancelled"),
                                !.active = [requested.active EXCEPT !.over = TRUE]]
  <2>1. OpenRun(kern) /\ kern' \in {requested, ended, ResetActive(ended)}
    BY <1>0, <1>2 DEF CancelRun, OpenRun
  <2>2. requested.proj = kern.proj /\ requested.log = kern.log /\ requested \in Transactions
    BY <1>0 DEF Transactions, ActiveRuns
  <2> HIDE DEF requested, open
  <2>3. e \in Transactions
    BY <2>2, ToolErrorType
  <2> HIDE DEF e
  <2>4. /\ ended.proj = RunEnded(kern.proj, "cancelled")
        /\ ResetActive(ended).proj = RunEnded(kern.proj, "cancelled")
    BY <2>3 DEF ResetActive, Transactions
  <2> HIDE DEF ended
  <2>5. CASE kern' = requested
    BY <2>2, <2>5 DEF Accepted, Quiet
  <2>6. CASE kern' \in {ended, ResetActive(ended)}
    <3>1. kern'.proj.status = "cancelled" /\ kern'.proj.pending = {}
      BY <2>4, <2>6 DEF RunEnded
    <3> QED
      BY <1>0, <2>1, <3>1, OpenAccepts
  <2> QED
    BY <2>1, <2>5, <2>6
<1>3. ASSUME NEW c \in Calls, ResolveQuestions(c)
      PROVE  Accepted(kern, kern')
  <2>1. /\ kern.active.live /\ kern.proj.status = "awaiting_input"
        /\ kern' = [kern EXCEPT !.proj = RunResumed(kern.proj), !.log[c].done = "result",
                                !.state[c] = "terminal"]
    BY <1>3 DEF ResolveQuestions, AcceptsRunResumed
  <2>2. kern'.proj = RunResumed(kern.proj)
    BY <1>0, <2>1 DEF Transactions
  <2>3. kern'.proj.status # "completed" /\ kern'.proj.pending = kern.proj.pending
    BY <1>0, <2>2 DEF RunResumed, Projections
  <2>4. OpenRun(kern)
    BY <1>0, <2>1, WaitingIsOpen
  <2> QED
    BY <1>0, <2>3, <2>4, OpenAccepts
<1>4. ASSUME NEW c \in Calls, NEW b \in BOOLEAN, DecideApproval(c, b)
      PROVE  Accepted(kern, kern')
  <2> DEFINE t(v) == [kern EXCEPT !.proj = ApprovalDecided(kern.proj, c),
                                  !.log[c].approval = v]
  <2>1. kern.active.live /\ kern.proj.status \in {"awaiting_approval", "awaiting_input"}
    BY <1>4 DEF DecideApproval, AcceptsApprovalDecided
  <2>2. \/ kern' = [t("approved") EXCEPT !.state[c] = "allowed"]
        \/ kern' = RecordToolError(t("refused"), {c})
    BY <1>4 DEF DecideApproval
  <2>3. \A v \in {"approved", "refused"} :
          t(v) \in Transactions /\ t(v).proj = ApprovalDecided(kern.proj, c)
    <3>1. \A v \in {"approved", "refused"} : t(v) \in Transactions
      BY <1>0, DecidedType
    <3> QED
      BY <1>0, <3>1 DEF Transactions
  <2> HIDE DEF t
  <2>4. kern'.proj = ApprovalDecided(kern.proj, c)
    BY <2>2, <2>3 DEF RecordToolError, Transactions
  <2>5. kern'.proj.status # "completed" /\ kern'.proj.pending \subseteq kern.proj.pending
    BY <1>0, <2>1, <2>4 DEF ApprovalDecided, Projections
  <2>6. OpenRun(kern)
    BY <1>0, <2>1, WaitingIsOpen
  <2> QED
    BY <1>0, <2>5, <2>6, OpenAccepts
<1> QED
  BY <1>1, <1>2, <1>3, <1>4 DEF Surface

(* open_durable fails a run that is open, or asks again for its approvals. *)
LEMMA ReopenAccepted ==
  ASSUME KernelInv, Reopen
  PROVE  Accepted(kern, kern')
<1> DEFINE t == SettleInterrupted(kern)
<1>0. /\ kern \in Transactions /\ Kept(kern) /\ kern.proj \in Projections(Calls)
      /\ ~kern.active.live /\ t \in Transactions
  BY SettleType DEF KernelInv, ProtocolInv, TypeOK, Transactions, OwnerKept, Reopen
<1>1. CASE kern' = kern
  BY <1>1 DEF Accepted, Quiet
<1>2. CASE ~SettleRefused
  <2>1. /\ t.proj = IF Interrupted(kern) = {} THEN kern.proj ELSE RunEnded(kern.proj, "failed")
        /\ Interrupted(kern) = {} => \A c \in Calls : t.log[c] = kern.log[c]
    BY <1>0 DEF SettleInterrupted, Transactions
  <2>2. kern' = t \/ (Recoverable(t) /\ kern' = Recover(t))
    BY <1>2 DEF Reopen
  <2>3. Kept(t)
    BY <1>0, <1>2, SettleKept
  <2> HIDE DEF t
  <2>4. Interrupted(kern) # {} => RequireRunning(kern.proj)
    <3>1. Interrupted(kern) # {} => \E c \in Calls : kern.log[c].proposed
      BY <1>0 DEF Interrupted, Kept, LogKept, BatchKept, ProposalsKept
    <3>2. kern.proj.status \in Statuses
      BY <1>0 DEF Projections
    <3> QED
      BY <1>0, <1>2, <3>1, <3>2 DEF SettleRefused, Kept, LogKept, ProjectionKept, Statuses,
                                   RunOver, RequireRunning
  <2>5. CASE kern' = t /\ Interrupted(kern) = {}
    <3>1. kern.log \in [Calls -> CallFacts] /\ t.log \in [Calls -> CallFacts]
      BY <1>0 DEF Transactions
    <3>2. t.log = kern.log
      BY <2>1, <2>5, <3>1
    <3> QED
      BY <2>1, <2>5, <3>2 DEF Accepted, Quiet
  <2>6. CASE kern' = t /\ Interrupted(kern) # {}
    <3>1. kern'.proj.status = "failed" /\ kern'.proj.pending = {}
      BY <2>1, <2>6 DEF RunEnded
    <3> QED
      BY <2>4, <2>6, <3>1 DEF Accepted
  <2>7. CASE Recoverable(t) /\ kern' = Recover(t)
    <3>1. kern'.proj = ApprovalRequested(t.proj, Renewed(t))
      BY <1>0, <2>7 DEF Recover, Transactions
    <3>2. t.order = <<>> => Range(t.order) = {}
      BY EmptyRange
    <3>3. RequireRunning(t.proj) /\ ~t.proj.inferring
      BY <2>3, <2>7, <3>2
         DEF Recoverable, UnstartedAuthority, RequireRunning, Kept, LogKept, ProjectionKept
    <3>4. t.proj = kern.proj
      BY <2>1, <3>3 DEF RunEnded, RequireRunning
    <3>5. kern'.proj.status # "completed"
      BY <1>0, <3>1, <3>3, <3>4 DEF ApprovalRequested, RequireRunning, Projections
    <3> QED
      BY <3>3, <3>4, <3>5 DEF Accepted
  <2> QED
    BY <2>2, <2>5, <2>6, <2>7
<1> QED
  BY <1>1, <1>2 DEF Reopen

(* Every event a transaction records is one the projection accepts where the
   transaction records it, and a terminal event is the last of its run: record()
   never fails half way, whatever arrives late, fails or is cut off. *)
THEOREM RecordsAreAccepted == Spec => RecordedEventsAreAccepted
<1> DEFINE A == count'.runs = count.runs =>
       LET p == kern.proj
           q == kern'.proj IN
       /\ p.inferring /\ ~q.inferring => AcceptsInferenceEnded(p)
       /\ q.status = "completed" /\ p # q => AcceptsRunCompleted(InferenceEnded(p))
       /\ q.status \in RunOver /\ p # q => RequireRunning(p)
       /\ AcceptsApprovalRequested(p, q.pending \ p.pending)
       /\ p.status \in RunOver => q = p /\ kern'.log = kern.log
<1>1. KernelInv /\ [Next]_vars => [A]_vars
  <2> SUFFICES ASSUME KernelInv, Next, count'.runs = count.runs
               PROVE  Accepted(kern, kern')
    BY AcceptedIsAccepted
  <2>0. kern \in Transactions /\ Accepted(kern, kern) /\ count \in [runs: Nat, inferences: Nat, restarts: Nat]
    BY DEF KernelInv, TypeOK, Accepted, Quiet
  <2>1. CASE BackendWorker \/ ToolWorker \/ DeadlineWorker
    <3>1. kern' = kern
      BY <2>1, Zenon DEF BackendWorker, BackendDelivers, BackendFails, BackendEnds,
           ToolWorker, ToolDelivers, ToolFails, ToolEnds, DeadlineWorker, DeadlinePasses,
           DeadlinePushes
    <3> QED
      BY <2>0, <3>1
  <2>2. CASE Drain
    BY <2>2, DrainAccepted
  <2>3. CASE Surface
    <3>1. ASSUME Start
          PROVE  FALSE
      <4>1. count' = [count EXCEPT !.runs = @ + 1, !.inferences = @ + 1]
        BY <3>1 DEF Start
      <4>2. count'.runs = count.runs + 1
        BY <2>0, <4>1
      <4>3. count.runs \in Nat
        BY <2>0
      <4> QED
        BY <4>2, <4>3
    <3>2. ~Start
      BY <3>1
    <3> QED
      BY <2>3, <3>2, SurfaceAccepted
  <2>4. ASSUME NEW how, KernelStops(how)
        PROVE  Accepted(kern, kern')
    BY <2>0, <2>4 DEF KernelStops, ResetActive, Transactions, Accepted, Quiet
  <2>5. CASE Reopen
    BY <2>5, ReopenAccepted
  <2> QED
    BY <2>1, <2>2, <2>3, <2>4, <2>5 DEF Next
<1> HIDE DEF A
<1>2. RecordedEventsAreAccepted <=> [][A]_vars
  BY DEF RecordedEventsAreAccepted, A
<1> QED
  BY <1>1, <1>2, KernelInvariant, PTL DEF Spec

(***************************************************************************)
(* No tool without authority, with the history of the user's approvals.    *)
(***************************************************************************)
(* A transaction that approves nothing: every approval of the batch that is not
   used yet was there before. *)
ApprovesNothing(t, u) ==
  \A c \in Calls : c \in Range(u.order) /\ Unused(u.log[c])
                     => c \in Range(t.order) /\ Unused(t.log[c])

(* What is recorded only closes a call, starts it or asks for its approval. *)
FactsUsed(f, g) ==
  /\ g.approval = "approved" => f.approval = "approved"
  /\ f.started => g.started
  /\ f.done # "no" => g.done # "no"

(* Such steps approve nothing. *)
LEMMA UsesApprove ==
  ASSUME NEW t, NEW u, u.order = t.order,
         \A c \in Calls : FactsUsed(t.log[c], u.log[c])
  PROVE  ApprovesNothing(t, u)
BY DEF ApprovesNothing, FactsUsed, Unused

(* Neither do two such transactions in turn. *)
LEMMA ApproveTransitive ==
  ASSUME NEW t, NEW u, NEW v, ApprovesNothing(t, u), ApprovesNothing(u, v)
  PROVE  ApprovesNothing(t, v)
BY DEF ApprovesNothing

(* Closing a call, settling what it reserved and judging it use its facts. *)
LEMMA ClosingUses ==
  ASSUME NEW f \in CallFacts
  PROVE  /\ FactsUsed(f, [Reconciled(f) EXCEPT !.done = "error"])
         /\ FactsUsed(f, Reconciled(f)) /\ FactsUsed(f, f)
         /\ \A o \in Outcomes \ {"malformed"} : FactsUsed(f, Judged(f, o))
<1> DEFINE e == [Reconciled(f) EXCEPT !.done = "error"]
<1>1. e.approval = f.approval /\ e.started = f.started /\ e.done = "error"
  BY DEF Reconciled, CallFacts
<1>2. /\ Reconciled(f).approval = f.approval /\ Reconciled(f).started = f.started
      /\ Reconciled(f).done = f.done
  BY DEF Reconciled, CallFacts
<1>3. \A o \in Outcomes \ {"malformed"} :
        /\ Judged(f, o).approval \in {"requested", f.approval}
        /\ Judged(f, o).started = f.started /\ Judged(f, o).done = f.done
  BY DEF Judged, CallFacts, Outcomes
<1> HIDE DEF e
<1> QED
  BY <1>1, <1>2, <1>3 DEF FactsUsed, e

(* The operators that close calls. *)
LEMMA ErrorApproves ==
  ASSUME NEW t \in Transactions, NEW C
  PROVE  ApprovesNothing(t, RecordToolError(t, C))
<1> DEFINE u == RecordToolError(t, C)
<1>1. /\ u.order = t.order
      /\ \A c \in Calls : u.log[c] = IF c \in C THEN [Reconciled(t.log[c]) EXCEPT !.done = "error"]
                                     ELSE t.log[c]
  BY DEF RecordToolError, Transactions
<1>2. \A c \in Calls : t.log[c] \in CallFacts
  BY DEF Transactions
<1> HIDE DEF u
<1>3. \A c \in Calls : FactsUsed(t.log[c], u.log[c])
  BY <1>1, <1>2, ClosingUses
<1> QED
  BY <1>1, <1>3, UsesApprove DEF u

(* Nor does the end of the run, or none at all. *)
LEMMA EndApproves ==
  ASSUME NEW t \in Transactions
  PROVE  /\ ApprovesNothing(t, t) /\ ApprovesNothing(t, ResetActive(t))
         /\ ApprovesNothing(t, FailLiveRun(t))
<1>0. \A c \in Calls : t.log[c] \in CallFacts
  BY DEF Transactions
<1>1. ApprovesNothing(t, t)
  BY DEF ApprovesNothing
<1>2. ResetActive(t).order = t.order /\ ResetActive(t).log = t.log
  BY DEF ResetActive, Transactions
<1>3. ApprovesNothing(t, ResetActive(t))
  BY <1>2 DEF ApprovesNothing
<1> DEFINE u == FailLiveRun(t)
<1>4. /\ u.order = t.order
      /\ \A c \in Calls : u.log[c] = IF c = t.active.tool THEN Reconciled(t.log[c]) ELSE t.log[c]
  BY DEF FailLiveRun, Transactions
<1> HIDE DEF u
<1>5. \A c \in Calls : FactsUsed(t.log[c], u.log[c])
  BY <1>0, <1>4, ClosingUses
<1>6. ApprovesNothing(t, u)
  BY <1>4, <1>5, UsesApprove
<1> QED
  BY <1>1, <1>3, <1>6 DEF u

(* A handler that fails the run, or drops its transaction. *)
LEMMA FailOrDropApproves ==
  ASSUME kern \in Transactions, NEW t \in Transactions, ApprovesNothing(kern, t)
  PROVE  ApprovesNothing(kern, FailOrDrop(t))
<1>1. FailOrDrop(t) \in {kern, FailLiveRun(t)}
  BY DEF FailOrDrop
<1> QED
  BY <1>1, EndApproves, ApproveTransitive

(* A policy's judgement asks for approvals and gives none. *)
LEMMA PolicyApproves ==
  ASSUME NEW t \in Transactions, NEW C \in SUBSET Calls, NEW out,
         \A c \in C : out[c] \in Outcomes \ {"malformed"}
  PROVE  ApprovesNothing(t, ApplyPolicy(t, C, out))
<1> DEFINE requested == {c \in C : out[c] = "require"}
           closed == {c \in C : out[c] \in {"deny", "error", "unpresentable"}}
           u == [t EXCEPT
                   !.proj = ApprovalRequested(t.proj, requested),
                   !.log = [c \in Calls |-> IF c \in C THEN Judged(t.log[c], out[c])
                                            ELSE t.log[c]],
                   !.state = [c \in Calls |-> IF c \in requested THEN "awaiting_approval"
                                             ELSE IF c \in C /\ out[c] = "allow" THEN "allowed"
                                             ELSE t.state[c]]]
           v == RecordToolError(u, closed)
<1>1. ApplyPolicy(t, C, out) = v
  BY DEF ApplyPolicy
<1>2. /\ u.order = t.order
      /\ \A c \in Calls : u.log[c] = IF c \in C THEN Judged(t.log[c], out[c]) ELSE t.log[c]
  BY DEF Transactions
<1>3. \A c \in Calls : t.log[c] \in CallFacts
  BY DEF Transactions
<1>4. \A c \in Calls : FactsUsed(t.log[c], u.log[c])
  <2> HIDE DEF u
  <2> QED
    BY <1>2, <1>3, ClosingUses
<1>5. v.order = u.order
      /\ \A c \in Calls : v.log[c] = IF c \in closed
                                     THEN [Reconciled(u.log[c]) EXCEPT !.done = "error"]
                                     ELSE u.log[c]
  BY DEF RecordToolError, Transactions
<1>6. \A c \in Calls : u.log[c] \in CallFacts
  <2> HIDE DEF u
  <2> QED
    BY <1>2, <1>3, JudgedType
<1> HIDE DEF u, v
<1>7. \A c \in Calls : FactsUsed(u.log[c], v.log[c])
  BY <1>5, <1>6, ClosingUses
<1> QED
  BY <1>1, <1>2, <1>4, <1>5, <1>7, UsesApprove, ApproveTransitive
(* Nor does a transaction that records nothing of a call. *)
LEMMA SameApproves ==
  ASSUME NEW t, NEW u, u.order = t.order, u.log = t.log
  PROVE  ApprovesNothing(t, u)
BY DEF ApprovesNothing

(* The stream's updates: new calls have no approval, and no other gets one. *)
LEMMA BackendApproves ==
  ASSUME KernelInv,
         ProcessBackendEvent \/ ProcessToolCallFinish \/ ProcessBackendStop
           \/ ProcessBackendEnded
  PROVE  ApprovesNothing(kern, kern')
<1>0. kern \in Transactions /\ AuthorityInv /\ Kept(kern)
  BY DEF KernelInv, TypeOK, ProtocolInv
<1>1. ApprovesNothing(kern, kern) /\ ApprovesNothing(kern, FailOrDrop(kern))
  BY <1>0, EndApproves, FailOrDropApproves
<1>2. CASE ProcessBackendEvent
  <2> DEFINE a == [kern EXCEPT !.active.response = TRUE]
             b == [kern EXCEPT !.active.calls = Append(@, Update1.call)]
  <2>1. kern' \in {kern, FailOrDrop(kern), a, b, RunStops("completed")}
    BY <1>2, Zenon DEF ProcessBackendEvent
  <2>2. /\ a.order = kern.order /\ a.log = kern.log /\ b.order = kern.order /\ b.log = kern.log
        /\ RunStops("completed").order = kern.order /\ RunStops("completed").log = kern.log
    BY <1>0 DEF RunStops, Transactions
  <2> HIDE DEF a, b
  <2> QED
    BY <1>1, <2>1, <2>2, SameApproves
<1>3. CASE ProcessBackendStop
  <2>1. kern' \in {kern, FailOrDrop(kern), Acknowledged, RunStops("cancelled")}
    BY <1>3, Zenon DEF ProcessBackendStop
  <2>2. /\ Acknowledged.order = kern.order /\ Acknowledged.log = kern.log
        /\ RunStops("cancelled").order = kern.order /\ RunStops("cancelled").log = kern.log
    BY <1>0 DEF RunStops, Acknowledged, Transactions
  <2> QED
    BY <1>1, <2>1, <2>2, SameApproves
<1>4. CASE ProcessToolCallFinish
  <2> DEFINE new == Range(kern.active.calls)
             p == Proposed(new)
  <2>1. PICK bad \in SUBSET new :
          kern' \in {kern, FailOrDrop(kern)} \/ (Streaming /\ kern' = RecordToolError(p, bad))
    BY <1>4 DEF ProcessToolCallFinish
  <2>2. CASE kern' \in {kern, FailOrDrop(kern)}
    BY <1>1, <2>2
  <2>3. CASE Streaming /\ kern' = RecordToolError(p, bad)
    <3>1. p \in Transactions
      BY <1>0, ProposedType, OrderType
    <3>2. /\ p.order = kern.active.calls
          /\ \A c \in new : p.log[c] = [kern.log[c] EXCEPT !.proposed = TRUE]
      BY <1>0, OrderType DEF Proposed, Transactions
    <3>3. \A c \in new : c \in Calls /\ kern.log[c] \in CallFacts /\ ~kern.log[c].proposed
      BY <1>0, <2>3, OrderType DEF AuthorityInv, StreamedCallsAreNew, Streaming, Transactions
    <3>4. \A c \in new : kern.log[c].approval = "none"
      BY <1>0, <3>3 DEF AuthorityInv, LogAgrees, FactsAgree
    <3>5. \A c \in new : p.log[c].approval = "none"
      BY <3>2, <3>3, <3>4 DEF CallFacts
    <3>6. ApprovesNothing(kern, p)
      BY <3>2, <3>5 DEF ApprovesNothing, Unused
    <3> QED
      BY <2>3, <3>1, <3>6, ErrorApproves, ApproveTransitive
  <2> QED
    BY <2>1, <2>2, <2>3
<1>5. CASE ProcessBackendEnded
  <2> DEFINE t == IF Streaming THEN FailLiveRun(kern) ELSE kern
             b == BetweenInferences(t)
  <2>1. PICK out \in [Calls -> PolicyOutcomes] :
          kern' \in {kern, ResetActive(t), EvaluatePolicies(b, out)}
    BY <1>5 DEF ProcessBackendEnded
  <2>2. t \in Transactions /\ ApprovesNothing(kern, t)
    BY <1>0, <1>1, FailType, EndApproves
  <2> HIDE DEF t
  <2>3. ApprovesNothing(kern, ResetActive(t))
    BY <2>2, EndApproves, ApproveTransitive
  <2>4. b \in Transactions /\ b.order = t.order /\ b.log = t.log
    <3>1. b \in Transactions
      BY <2>2, BetweenType
    <3> QED
      BY <2>2, <3>1 DEF BetweenInferences, Transactions
  <2>5. ApprovesNothing(kern, b)
    BY <2>2, <2>4, SameApproves, ApproveTransitive
  <2> HIDE DEF b
  <2>6. ApprovesNothing(kern, EvaluatePolicies(b, out))
    <3> DEFINE proposed == {i \in DOMAIN b.order : b.state[b.order[i]] = "proposed"}
               malformed == {i \in proposed : out[b.order[i]] = "malformed"}
               before == {b.order[i] : i \in {j \in proposed : \A m \in malformed : j < m}}
               p == ApplyPolicy(b, before, out)
    <3>1. /\ before \in SUBSET Calls
          /\ \A c \in before : out[c] \in Outcomes \ {"malformed"}
      BY <2>4, OrderType, KernelAssumption
    <3>2. EvaluatePolicies(b, out) \in {p, kern, FailLiveRun(p)}
      BY DEF EvaluatePolicies
    <3> HIDE DEF before
    <3>3. p \in Transactions
      BY <2>4, <3>1, PolicyType
    <3>4. ApprovesNothing(kern, p)
      BY <2>4, <2>5, <3>1, PolicyApproves, ApproveTransitive
    <3> HIDE DEF p
    <3>5. ApprovesNothing(kern, FailLiveRun(p))
      BY <3>3, <3>4, EndApproves, ApproveTransitive
    <3> QED
      BY <1>1, <3>2, <3>4, <3>5
  <2> QED
    BY <1>1, <2>1, <2>3, <2>6
<1> QED
  BY <1>2, <1>3, <1>4, <1>5

(* The tool's updates close the call, or ask the user. *)
LEMMA ToolApproves ==
  ASSUME KernelInv,
         ProcessToolUpdate \/ ProcessToolResult \/ ProcessToolFailure \/ ProcessDeadline
           \/ ProcessToolEnded
  PROVE  ApprovesNothing(kern, kern')
<1>0. kern \in Transactions /\ Named /\ TypeOK /\ \A c \in Calls : kern.log[c] \in CallFacts
  BY DEF KernelInv, TypeOK, Transactions
<1>1. Update1.call \in Calls
  BY <1>0, UpdateIsNamed DEF ProcessToolUpdate, ProcessToolResult, ProcessToolFailure,
       ProcessDeadline, ProcessToolEnded, Processing, BackendUpdate, BackendEvents,
       BackendFailures
<1> DEFINE c == Update1.call
           e == RecordToolError(kern, {c})
<1>2. e \in Transactions /\ ApprovesNothing(kern, e)
  BY <1>0, ToolErrorType, ErrorApproves
<1>3. /\ ApprovesNothing(kern, kern) /\ ApprovesNothing(kern, FailOrDrop(kern))
      /\ ApprovesNothing(kern, FailOrDrop(e))
  BY <1>0, <1>2, EndApproves, FailOrDropApproves
<1>4. CASE ProcessToolUpdate
  <2> DEFINE a == [kern EXCEPT !.proj = RunAwaitingInput(kern.proj), !.question = c,
                               !.state[c] = "awaiting_input"]
  <2>1. kern' \in {kern, e, a, FailOrDrop(kern), FailOrDrop(e)}
    BY <1>4, Zenon DEF ProcessToolUpdate
  <2>2. a.order = kern.order /\ a.log = kern.log
    BY <1>0 DEF Transactions
  <2> HIDE DEF a, e
  <2> QED
    BY <1>2, <1>3, <2>1, <2>2, SameApproves
<1>5. CASE ProcessToolResult
  <2>1. CASE kern' \in {kern, FailOrDrop(kern)}
    BY <1>3, <2>1
  <2>2. ASSUME NEW d, kern' = RecordToolResult(kern, c, d)
        PROVE  ApprovesNothing(kern, kern')
    <3>1. /\ kern'.order = kern.order
          /\ kern'.log[c] = [kern.log[c] EXCEPT !.spend = d, !.done = "result"]
          /\ \A x \in Calls : x # c => kern'.log[x] = kern.log[x]
      BY <1>0, <1>1, <2>2 DEF RecordToolResult, Transactions
    <3>2. kern'.log[c].done = "result"
      BY <1>0, <1>1, <3>1 DEF CallFacts
    <3> QED
      BY <3>1, <3>2 DEF ApprovesNothing, Unused
  <2> QED
    BY <1>5, <2>1, <2>2 DEF ProcessToolResult
<1>6. CASE ProcessToolFailure
  <2>1. CASE kern' \in {kern, FailOrDrop(e)}
    BY <1>3, <2>1
  <2>2. ASSUME NEW d, kern' = RecordToolError([kern EXCEPT !.log[c].spend = d], {c})
        PROVE  ApprovesNothing(kern, kern')
    <3> DEFINE t == [kern EXCEPT !.log[c].spend = d]
    <3>1. /\ kern'.order = t.order
          /\ kern'.log[c] = [Reconciled(t.log[c]) EXCEPT !.done = "error"]
          /\ \A x \in Calls : x # c => kern'.log[x] = t.log[x]
      BY <1>0, <1>1, <2>2 DEF RecordToolError, Transactions
    <3>2. t.order = kern.order /\ t.log[c] = [kern.log[c] EXCEPT !.spend = d]
          /\ \A x \in Calls : x # c => t.log[x] = kern.log[x]
      BY <1>0, <1>1 DEF Transactions
    <3> HIDE DEF t
    <3>3. kern'.log[c].done = "error"
      BY <1>0, <1>1, <3>1, <3>2 DEF Reconciled, CallFacts
    <3> QED
      BY <3>1, <3>2, <3>3 DEF ApprovesNothing, Unused
  <2> QED
    BY <1>6, <2>1, <2>2 DEF ProcessToolFailure
<1>7. CASE ProcessDeadline
  BY <1>2, <1>3, <1>7 DEF ProcessDeadline
<1>8. CASE ProcessToolEnded
  <2> DEFINE t == IF kern.state[c] \in {"terminal", "awaiting_input"} THEN kern ELSE e
             u == [t EXCEPT !.active.tool = None]
  <2>1. kern' \in {kern, u, ResetActive(u)}
    BY <1>8 DEF ProcessToolEnded
  <2>2. t \in Transactions /\ ApprovesNothing(kern, t)
    BY <1>0, <1>2, <1>3
  <2> HIDE DEF t
  <2>3. /\ u.order = t.order /\ u.log = t.log
        /\ ResetActive(u).order = t.order /\ ResetActive(u).log = t.log
    BY <2>2 DEF ResetActive, Transactions
  <2> HIDE DEF u
  <2> QED
    BY <1>3, <2>1, <2>2, <2>3, SameApproves, ApproveTransitive
<1> QED
  BY <1>4, <1>5, <1>6, <1>7, <1>8
(* The owner's steps: a launch uses an approval. *)
LEMMA DrainApproves ==
  ASSUME KernelInv, Drain
  PROVE  ApprovesNothing(kern, kern')
<1>0. /\ kern \in Transactions /\ TypeOK /\ OwnerKept
      /\ \A c \in Calls : kern.log[c] \in CallFacts
  BY DEF KernelInv, TypeOK, ProtocolInv, Transactions
<1>1. ApprovesNothing(kern, kern)
  BY <1>0, EndApproves
<1>2. CASE (\E m \in DrainModes : DrainSwap(m)) \/ SpawnTool \/ SpawnBackend
  BY <1>1, <1>2 DEF DrainSwap, SpawnTool, SpawnBackend
<1>3. CASE DrainLaunch
  <2>1. kern'.order = kern.order /\ kern'.log = kern.log
    BY <1>0, <1>3 DEF DrainLaunch, Transactions
  <2> QED
    BY <2>1, SameApproves
<1>4. CASE ProcessUpdate
  BY <1>4, BackendApproves, ToolApproves DEF ProcessUpdate
<1>5. CASE LaunchNextTool
  <2> DEFINE c == ReadyTool(kern)
  <2>1. CASE kern' \in {kern, RecordToolError(kern, {c})}
    BY <1>0, <1>1, <2>1, ErrorApproves
  <2>2. CASE c # None /\ kern' = Launched(kern, c)
    <3>1. c \in Calls
      BY <1>0, <2>2, ReadyToolIsFirst, OrderType
    <3>2. /\ kern'.order = kern.order
          /\ kern'.log[c] = [kern.log[c] EXCEPT
                               !.started = TRUE,
                               !.spend = IF c \in Paid THEN "reserved" ELSE kern.log[c].spend]
          /\ \A x \in Calls : x # c => kern'.log[x] = kern.log[x]
      BY <1>0, <2>2, <3>1 DEF Launched, Transactions
    <3>3. kern'.log[c].started
      BY <1>0, <3>1, <3>2 DEF CallFacts
    <3> QED
      BY <3>2, <3>3 DEF ApprovesNothing, Unused
  <2> QED
    BY <1>5, <2>1, <2>2 DEF LaunchNextTool
<1>6. CASE SpawnToolFails
  <2> DEFINE c == kern.active.tool
             s == IF kern.log[c].spend = "reserved" THEN "released" ELSE kern.log[c].spend
             t == [kern EXCEPT !.log[c].spend = s, !.active.tool = None]
  <2>1. c \in Calls /\ kern' = RecordToolError(t, {c})
    BY <1>0, <1>6 DEF SpawnToolFails, OwnerKept
  <2>2. /\ kern'.order = t.order
        /\ kern'.log[c] = [Reconciled(t.log[c]) EXCEPT !.done = "error"]
        /\ \A x \in Calls : x # c => kern'.log[x] = t.log[x]
    BY <1>0, <2>1 DEF RecordToolError, Transactions
  <2>3. /\ t.order = kern.order /\ t.log[c] = [kern.log[c] EXCEPT !.spend = s]
        /\ \A x \in Calls : x # c => t.log[x] = kern.log[x]
    BY <1>0, <2>1 DEF Transactions
  <2> HIDE DEF t, s
  <2>4. kern'.log[c].done = "error"
    BY <1>0, <2>1, <2>2, <2>3 DEF Reconciled, CallFacts
  <2> QED
    BY <2>2, <2>3, <2>4 DEF ApprovesNothing, Unused
<1>7. CASE SpawnBackendFails
  BY <1>0, <1>7, EndApproves DEF SpawnBackendFails
<1> QED
  BY <1>2, <1>3, <1>4, <1>5, <1>6, <1>7 DEF Drain

(* The surface's calls, other than an approval. *)
LEMMA SurfaceApproves ==
  ASSUME KernelInv,
         \/ Start \/ ContinueRun \/ CancelRun
         \/ \E c \in Calls : ResolveQuestions(c) \/ DecideApproval(c, FALSE)
  PROVE  ApprovesNothing(kern, kern')
<1>0. kern \in Transactions /\ \A c \in Calls : kern.log[c] \in CallFacts
  BY DEF KernelInv, TypeOK, Transactions
<1>1. CASE Start \/ ContinueRun
  <2>1. kern'.order = <<>>
    BY <1>0, <1>1 DEF Start, ContinueRun, BeginInference, Transactions
  <2> QED
    BY <2>1, EmptyRange DEF ApprovesNothing
<1>2. CASE CancelRun
  <2> DEFINE requested == [kern EXCEPT !.active.cancelRequested = TRUE]
             open == {kern.order[i] : i \in Open(kern)}
             e == RecordToolError(requested, open)
             ended == [e EXCEPT !.proj = RunEnded(kern.proj, "cancelled"),
                                !.active = [requested.active EXCEPT !.over = TRUE]]
  <2>1. kern' \in {requested, ended, ResetActive(ended)}
    BY <1>2 DEF CancelRun
  <2>2. /\ requested.order = kern.order /\ requested.log = kern.log
        /\ requested \in Transactions
    BY <1>0 DEF Transactions, ActiveRuns
  <2> HIDE DEF requested, open
  <2>3. e \in Transactions /\ ApprovesNothing(requested, e)
    BY <2>2, ToolErrorType, ErrorApproves
  <2> HIDE DEF e
  <2>4. /\ ended.order = e.order /\ ended.log = e.log
        /\ ResetActive(ended).order = e.order /\ ResetActive(ended).log = e.log
    BY <2>3 DEF ResetActive, Transactions
  <2> HIDE DEF ended
  <2>5. ApprovesNothing(kern, requested)
    BY <2>2, SameApproves
  <2>6. ApprovesNothing(kern, e)
    BY <2>3, <2>5, ApproveTransitive
  <2> QED
    BY <2>1, <2>4, <2>5, <2>6, SameApproves, ApproveTransitive
<1>3. ASSUME NEW c \in Calls, ResolveQuestions(c)
      PROVE  ApprovesNothing(kern, kern')
  <2>1. kern' = [kern EXCEPT !.proj = RunResumed(kern.proj), !.log[c].done = "result",
                             !.state[c] = "terminal"]
    BY <1>3 DEF ResolveQuestions
  <2>2. /\ kern'.order = kern.order
        /\ kern'.log[c] = [kern.log[c] EXCEPT !.done = "result"]
        /\ \A x \in Calls : x # c => kern'.log[x] = kern.log[x]
    BY <1>0, <2>1 DEF Transactions
  <2>3. kern'.log[c].done = "result"
    BY <1>0, <2>2 DEF CallFacts
  <2> QED
    BY <2>2, <2>3 DEF ApprovesNothing, Unused
<1>4. ASSUME NEW c \in Calls, DecideApproval(c, FALSE)
      PROVE  ApprovesNothing(kern, kern')
  <2> DEFINE t == [kern EXCEPT !.proj = ApprovalDecided(kern.proj, c),
                               !.log[c].approval = "refused"]
  <2>1. kern' = RecordToolError(t, {c})
    BY <1>4 DEF DecideApproval
  <2>2. /\ kern'.order = t.order
        /\ kern'.log[c] = [Reconciled(t.log[c]) EXCEPT !.done = "error"]
        /\ \A x \in Calls : x # c => kern'.log[x] = t.log[x]
    BY <1>0, <2>1 DEF RecordToolError, Transactions
  <2>3. /\ t.order = kern.order /\ t.log[c] = [kern.log[c] EXCEPT !.approval = "refused"]
        /\ \A x \in Calls : x # c => t.log[x] = kern.log[x]
    BY <1>0 DEF Transactions
  <2> HIDE DEF t
  <2>4. kern'.log[c].done = "error"
    BY <1>0, <2>2, <2>3 DEF Reconciled, CallFacts
  <2> QED
    BY <2>2, <2>3, <2>4 DEF ApprovesNothing, Unused
<1> QED
  BY <1>1, <1>2, <1>3, <1>4

(* The approvals a transaction holds and that are not used yet count. *)
Counted(t) ==
  RequireRunning(t.proj) =>
    \A c \in Range(t.order) : Unused(t.log[c]) => granted[c] # "no"

(* A transaction that approves nothing leaves them counted: it records nothing, or
   the run was one that could go on. *)
LEMMA StillCounted ==
  ASSUME kern \in Transactions, kern' \in Transactions, Counted(kern),
         ApprovesNothing(kern, kern'),
         RequireRunning(kern'.proj) => RequireRunning(kern.proj) \/ kern'.order = <<>>,
         granted' = granted
  PROVE  RequireRunning(kern'.proj) =>
           \A c \in Range(kern'.order) : Unused(kern'.log[c]) => granted'[c] # "no"
<1> SUFFICES ASSUME RequireRunning(kern'.proj), NEW c \in Range(kern'.order),
                    Unused(kern'.log[c])
             PROVE  granted[c] # "no"
  OBVIOUS
<1>1. c \in Calls /\ kern'.order # <<>>
  BY OrderType, EmptyRange
<1>2. c \in Range(kern.order) /\ Unused(kern.log[c])
  BY <1>1 DEF ApprovesNothing
<1> QED
  BY <1>1, <1>2 DEF Counted

(* An accepted transaction opens no run. *)
LEMMA AcceptedOpens ==
  ASSUME Accepted(kern, kern'), RequireRunning(kern'.proj)
  PROVE  RequireRunning(kern.proj)
BY DEF Accepted, Quiet

(* The call that is launched is one that policy allowed, or whose approval counts. *)
LEMMA LaunchCounted ==
  ASSUME KernelInv, Counted(kern), LaunchNextTool, pc' = "spawn"
  PROVE  /\ kern'.active.tool \in Calls
         /\ \/ kern'.log[kern'.active.tool].policy = "allow"
            \/ granted[kern'.active.tool] # "no"
<1> DEFINE c == ReadyTool(kern)
<1>0. kern \in Transactions /\ Kept(kern) /\ AuthorityInv
  BY DEF KernelInv, TypeOK, ProtocolInv
<1>1. c # None /\ kern' = Launched(kern, c)
  BY DEF LaunchNextTool
<1>2. /\ kern.active.live /\ ~kern.active.over /\ c \in Range(kern.order) /\ c \in Calls
  BY <1>0, <1>1, ReadyToolIsFirst, OrderType
<1>3. kern.state[c] = "allowed"
  BY <1>0, <1>1, ReadyToolIsAllowed
<1>4. Authorised(kern.log[c]) /\ ~kern.log[c].started
  BY <1>0, <1>2, <1>3 DEF AuthorityInv, LogAgrees, FactsAgree
<1>5. RequireRunning(kern.proj) /\ kern.log[c].done = "no"
  BY <1>0, <1>2, <1>3 DEF Kept, ActiveKept, RunIsOpen, FlagsAgree, CallAgrees
<1>6. kern.log[c].policy = "allow" \/ granted[c] # "no"
  BY <1>2, <1>4, <1>5 DEF Authorised, Counted, Unused
<1>7. kern'.active.tool = c
      /\ kern'.log[c] = [kern.log[c] EXCEPT
                           !.started = TRUE,
                           !.spend = IF c \in Paid THEN "reserved" ELSE kern.log[c].spend]
  BY <1>0, <1>1, <1>2 DEF Launched, Transactions, ActiveRuns
<1>8. kern.log[c] \in CallFacts
  BY <1>0, <1>2 DEF Transactions
<1>9. kern'.log[c].policy = kern.log[c].policy
  BY <1>7, <1>8 DEF CallFacts
<1> QED
  BY <1>2, <1>6, <1>7, <1>9
(* open_durable settles what was interrupted, and keeps of the other calls what it
   found. *)
LEMMA SettleApproves ==
  ASSUME KernelInv
  PROVE  LET t == SettleInterrupted(kern) IN
         /\ t \in Transactions /\ t.order = kern.order
         /\ RequireRunning(t.proj) => t.proj = kern.proj
         /\ \A c \in Calls : /\ t.log[c].approval = kern.log[c].approval
                             /\ t.log[c].policy = kern.log[c].policy
                             /\ Unused(t.log[c]) => Unused(kern.log[c])
<1> DEFINE t == SettleInterrupted(kern)
           g(c) == [kern.log[c] EXCEPT
                      !.spend = IF kern.log[c].started THEN "reconcile" ELSE "released",
                      !.done = "error"]
<1>0. kern \in Transactions /\ \A c \in Calls : kern.log[c] \in CallFacts
  BY DEF KernelInv, TypeOK, Transactions
<1>1. /\ t.order = kern.order
      /\ t.proj = IF Interrupted(kern) = {} THEN kern.proj ELSE RunEnded(kern.proj, "failed")
      /\ \A c \in Calls : t.log[c] = IF c \in Interrupted(kern) THEN g(c) ELSE kern.log[c]
  BY <1>0 DEF SettleInterrupted, Transactions
<1>2. \A c \in Calls : /\ g(c).approval = kern.log[c].approval
                       /\ g(c).policy = kern.log[c].policy /\ g(c).done = "error"
  BY <1>0 DEF CallFacts
<1> HIDE DEF g
<1>3. t \in Transactions
  BY <1>0, SettleType
<1> HIDE DEF t
<1> QED
  BY <1>1, <1>2, <1>3 DEF Unused, RequireRunning, RunEnded, t

(* An approval that open_durable leaves in the log and does not ask for again is one
   of a run that waits. *)
LEMMA ReopenCounted ==
  ASSUME KernelInv, Counted(kern), ReopenAndForget, granted \in [Calls -> {"no", "now", "kept"}]
  PROVE  RequireRunning(kern'.proj) =>
           \A c \in Range(kern'.order) : Unused(kern'.log[c]) => granted'[c] # "no"
<1> DEFINE t == SettleInterrupted(kern)
<1>0. /\ kern \in Transactions /\ AuthorityInv
      /\ t \in Transactions /\ t.order = kern.order
      /\ RequireRunning(t.proj) => t.proj = kern.proj
      /\ \A c \in Calls : /\ t.log[c].approval = kern.log[c].approval
                          /\ t.log[c].policy = kern.log[c].policy
                          /\ Unused(t.log[c]) => Unused(kern.log[c])
  BY SettleApproves DEF KernelInv, TypeOK
<1>1. \/ kern' \in {kern, t} /\ granted' = granted
      \/ /\ granted' = [c \in Calls |-> IF LeftWaiting(c) THEN "kept" ELSE "no"]
         /\ \/ Recoverable(t) /\ kern' = Recover(t)
            \/ ~Recoverable(t) /\ kern' = t
  BY DEF ReopenAndForget, Reopen
<1> HIDE DEF t
<1> SUFFICES ASSUME RequireRunning(kern'.proj), NEW c \in Range(kern'.order),
                    Unused(kern'.log[c])
             PROVE  granted'[c] # "no"
  OBVIOUS
<1>2. CASE kern' \in {kern, t} /\ granted' = granted
  BY <1>0, <1>2, OrderType DEF Counted
<1>3. ASSUME c \in Calls, c \in Range(kern.order), Unused(t.log[c]), RequireRunning(t.proj),
             t.proj.status \in {"awaiting_approval", "awaiting_input"},
             granted' = [x \in Calls |-> IF LeftWaiting(x) THEN "kept" ELSE "no"]
      PROVE  granted'[c] # "no"
  BY <1>0, <1>3 DEF Counted, LeftWaiting
<1>4. CASE /\ granted' = [x \in Calls |-> IF LeftWaiting(x) THEN "kept" ELSE "no"]
           /\ Recoverable(t) /\ kern' = Recover(t)
  <2>1. /\ kern'.order = t.order
        /\ kern'.proj = ApprovalRequested(t.proj, Renewed(t))
        /\ \A x \in Calls : kern'.log[x] = IF x \in Renewed(t)
                                           THEN [t.log[x] EXCEPT !.approval = "requested"]
                                           ELSE t.log[x]
    BY <1>0, <1>4 DEF Recover, Transactions
  <2>2. c \in Calls /\ c \in Range(t.order) /\ t.log[c] \in CallFacts
    BY <1>0, <2>1, OrderType DEF Transactions
  <2>3. c \notin Renewed(t)
    BY <2>1, <2>2 DEF Unused, CallFacts
  <2>4. Unused(t.log[c])
    BY <2>1, <2>2, <2>3
  <2>5. t.log[c].policy = "require"
    BY <1>0, <2>2, <2>4 DEF AuthorityInv, LogAgrees, FactsAgree, Unused
  <2>6. ~UnstartedAuthority(t)
    BY <2>2, <2>3, <2>4, <2>5 DEF Renewed, Unstarted, Unused
  <2>7. t.proj.status \in {"awaiting_approval", "awaiting_input"}
    BY <1>4, <2>6 DEF Recoverable
  <2> QED
    BY <1>0, <1>3, <1>4, <2>2, <2>4, <2>7 DEF RequireRunning
<1>5. CASE ~Recoverable(t) /\ kern' = t
  <2>1. t.proj.status = "running" /\ c \in Range(t.order) /\ Unstarted(t, c)
    BY <1>5 DEF Recoverable, RequireRunning, Unstarted, Unused
  <2> QED
    BY <1>5, <2>1 DEF Recoverable, UnstartedAuthority
<1> QED
  BY <1>1, <1>2, <1>4, <1>5

GrantedType == granted \in [Calls -> {"no", "now", "kept"}]
AuthorisedInv == KernelInv /\ GrantedType /\ ApprovalsCount

(* Every step of the kernel with its history is one of the kernel. *)
LEMMA ApprovalsAreSteps == [ApprovalsNext]_approvalVars => [Next]_vars
<1>1. Grant => Next
  BY DEF Grant, Next, Surface
<1>2. ReopenAndForget => Next
  BY DEF ReopenAndForget, Next
<1>3. Ungranting => Next
  BY DEF Ungranting, Next, Surface
<1> QED
  BY <1>1, <1>2, <1>3 DEF ApprovalsNext, approvalVars

(* ApprovalsCount is inductive, given what is known of the kernel. *)
LEMMA CountStep ==
  ASSUME AuthorisedInv, KernelInv', [ApprovalsNext]_approvalVars
  PROVE  GrantedType' /\ ApprovalsCount'
<1>0. /\ kern \in Transactions /\ kern' \in Transactions /\ Counted(kern) /\ GrantedType
      /\ OwnerKept /\ TypeOK
      /\ pc = "spawn" => \/ kern.log[kern.active.tool].policy = "allow"
                         \/ granted[kern.active.tool] # "no"
  BY DEF AuthorisedInv, KernelInv, TypeOK, ApprovalsCount, Counted, ProtocolInv
<1>1. CASE UNCHANGED approvalVars
  BY <1>0, <1>1 DEF approvalVars, vars, GrantedType, ApprovalsCount, Counted
<1>2. CASE Grant
  <2>1. PICK c \in Calls : DecideApproval(c, TRUE) /\ granted' = [granted EXCEPT ![c] = "now"]
    BY <1>2 DEF Grant
  <2>2. GrantedType' /\ granted'[c] = "now" /\ pc' = "launch"
        /\ \A x \in Calls : x # c => granted'[x] = granted[x]
    BY <1>0, <2>1 DEF GrantedType, DecideApproval
  <2>3. /\ kern'.order = kern.order
        /\ \A x \in Calls : x # c => kern'.log[x] = kern.log[x]
    BY <1>0, <2>1 DEF DecideApproval, Transactions
  <2>4. RequireRunning(kern.proj)
    BY <2>1 DEF DecideApproval, AcceptsApprovalDecided, RequireRunning
  <2>5. \A x \in Range(kern'.order) : Unused(kern'.log[x]) => granted'[x] # "no"
    BY <1>0, <2>2, <2>3, <2>4, OrderType DEF Counted
  <2> QED
    BY <2>2, <2>5 DEF ApprovalsCount
<1>3. CASE ReopenAndForget
  <2>1. pc' = "ready"
    BY <1>0, <1>3 DEF ReopenAndForget, Reopen, OwnerKept
  <2>2. GrantedType'
    BY <1>0, <1>3 DEF ReopenAndForget, GrantedType
  <2> QED
    BY <1>0, <1>3, <2>1, <2>2, ReopenCounted DEF AuthorisedInv, GrantedType, ApprovalsCount
<1>4. CASE Ungranting /\ granted' = granted
  <2>0. KernelInv
    BY DEF AuthorisedInv
  <2>1. GrantedType'
    BY <1>0, <1>4 DEF GrantedType
  <2>2. CASE BackendWorker \/ ToolWorker \/ DeadlineWorker
    <3>1. kern' = kern /\ pc' = pc
      BY <2>2, Zenon DEF BackendWorker, BackendDelivers, BackendFails, BackendEnds,
           ToolWorker, ToolDelivers, ToolFails, ToolEnds, DeadlineWorker, DeadlinePasses,
           DeadlinePushes
    <3> QED
      BY <1>0, <1>4, <2>1, <3>1 DEF ApprovalsCount, Counted
  <2>3. CASE Drain
    <3>1. ApprovesNothing(kern, kern') /\ Accepted(kern, kern')
      BY <2>0, <2>3, DrainApproves, DrainAccepted
    <3>2. RequireRunning(kern'.proj) =>
            \A c \in Range(kern'.order) : Unused(kern'.log[c]) => granted'[c] # "no"
      BY <1>0, <1>4, <3>1, AcceptedOpens, StillCounted
    <3>3. pc' = "spawn" => LaunchNextTool
      <4>1. \A K : Processing(K) => pc = "ready"
        BY DEF Processing
      <4> QED
        BY <2>3, <4>1 DEF Drain, DrainSwap, OwnerIdle, DrainLaunch, SpawnTool, SpawnToolFails,
           SpawnBackend, SpawnBackendFails, ProcessUpdate, ProcessBackendEvent,
           ProcessToolCallFinish, ProcessBackendStop, ProcessBackendEnded,
           LaunchIfDispatching, ProcessToolUpdate, ProcessToolResult, ProcessToolFailure,
           ProcessDeadline, ProcessToolEnded
    <3> QED
      BY <1>0, <1>4, <2>0, <2>1, <3>2, <3>3, LaunchCounted DEF ApprovalsCount
  <2>4. CASE \/ Start \/ ContinueRun \/ CancelRun
             \/ \E c \in Calls : ResolveQuestions(c) \/ DecideApproval(c, FALSE)
    <3>1. ApprovesNothing(kern, kern')
      BY <2>0, <2>4, SurfaceApproves
    <3>2. Start => kern'.order = <<>>
      BY <1>0 DEF Start, BeginInference, Transactions
    <3>3. Surface
      BY <2>4 DEF Surface
    <3>4. RequireRunning(kern'.proj) => RequireRunning(kern.proj) \/ kern'.order = <<>>
      BY <2>0, <3>2, <3>3, SurfaceAccepted, AcceptedOpens
    <3>5. pc' # "spawn"
      BY <2>4 DEF Start, ContinueRun, CancelRun, ResolveQuestions, DecideApproval, OwnerIdle
    <3> QED
      BY <1>0, <1>4, <2>1, <3>1, <3>4, <3>5, StillCounted DEF ApprovalsCount
  <2>5. ASSUME NEW how \in {"down", "unusable"}, KernelStops(how)
        PROVE  ApprovalsCount'
    <3>1. kern' = ResetActive(kern) /\ pc' = "ready"
      BY <2>5 DEF KernelStops
    <3>2. kern'.order = kern.order /\ kern'.log = kern.log /\ kern'.proj = kern.proj
      BY <1>0, <3>1 DEF ResetActive, Transactions
    <3> QED
      BY <1>0, <1>4, <3>1, <3>2 DEF ApprovalsCount, Counted
  <2> QED
    BY <1>4, <2>1, <2>2, <2>3, <2>4, <2>5 DEF Ungranting
<1> QED
  BY <1>1, <1>2, <1>3, <1>4 DEF ApprovalsNext

(* An executor starts on policy's own permission, or on an approval the user gave in
   this process or in one that left the run waiting: an approval of a run that was
   found running is asked for again before it counts (decide_approval,
   launch_next_tool, and the states open_durable restores). *)
THEOREM ToolsHaveAuthority == ApprovalsSpec => NoToolWithoutAuthority
<1> DEFINE A == \A c \in Calls : starts'[c] # starts[c] =>
                  kern.log[c].policy = "allow" \/ granted[c] # "no"
<1>1. ApprovalsInit => AuthorisedInv
  <2> SUFFICES ASSUME ApprovalsInit
               PROVE  AuthorisedInv
    OBVIOUS
  <2>1. KernelInv
    BY TypeInit, AuthorityInit, ProtocolInit DEF KernelInv, ApprovalsInit
  <2>2. kern.proj.status = "not_started" /\ pc = "ready"
    BY DEF ApprovalsInit, Init, EmptyLog, NotStarted
  <2> QED
    BY <2>1, <2>2 DEF AuthorisedInv, ApprovalsInit, GrantedType, ApprovalsCount, RequireRunning
<1>2. AuthorisedInv /\ [ApprovalsNext]_approvalVars => AuthorisedInv'
  <2>1. KernelInv /\ [Next]_vars => KernelInv'
    BY TypeStep, AuthorityStep, NamedStep, ProtocolStep DEF KernelInv
  <2> QED
    BY <2>1, ApprovalsAreSteps, CountStep DEF AuthorisedInv
<1>3. AuthorisedInv /\ [ApprovalsNext]_approvalVars => [A]_approvalVars
  <2> SUFFICES ASSUME AuthorisedInv, Next, NEW c \in Calls, starts'[c] # starts[c]
               PROVE  kern.log[c].policy = "allow" \/ granted[c] # "no"
    BY ApprovalsAreSteps DEF vars, approvalVars
  <2>1. SpawnTool
    <3>1. \A K : Processing(K) => starts' = starts
      BY DEF Processing
    <3> QED
      BY <3>1, Zenon DEF Next, Reopen, BackendWorker, BackendDelivers, BackendFails, BackendEnds,
           ToolWorker, ToolDelivers, ToolFails, ToolEnds, DeadlineWorker, DeadlinePasses,
           DeadlinePushes, Drain, DrainSwap, DrainLaunch, LaunchNextTool,
           SpawnToolFails, SpawnBackend, SpawnBackendFails, ProcessUpdate,
           ProcessBackendEvent, ProcessToolCallFinish, ProcessBackendStop,
           ProcessBackendEnded, ProcessToolUpdate, ProcessToolResult, ProcessToolFailure,
           ProcessDeadline, ProcessToolEnded, Surface, Start, ContinueRun, CancelRun,
           ResolveQuestions, DecideApproval, KernelStops
  <2>2. pc = "spawn" /\ starts' = [starts EXCEPT ![kern.active.tool] = @ + 1]
    BY <2>1 DEF SpawnTool
  <2>3. c = kern.active.tool
    BY <2>2 DEF AuthorisedInv, KernelInv, TypeOK
  <2> QED
    BY <2>2, <2>3 DEF AuthorisedInv, ApprovalsCount
<1> HIDE DEF A
<1>4. NoToolWithoutAuthority <=> [][A]_approvalVars
  BY DEF NoToolWithoutAuthority, A
<1> QED
  BY <1>1, <1>2, <1>3, <1>4, PTL DEF ApprovalsSpec
===============================================================================
