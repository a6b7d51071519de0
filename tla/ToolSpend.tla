------------------------------ MODULE ToolSpend ------------------------------
(***************************************************************************)
(* Money spent by tools (ADR 0016): the spend ledger of                    *)
(* src/src/lib/tool_spend.cpp, the reservation and settlement of paid      *)
(* calls in run_kernel.cpp, and how commit() recovers when the append that *)
(* settles a call fails.  Several processes may have the same session      *)
(* open; each keeps a log in memory, and the store orders their appends by *)
(* a sequence check.  An append may fail after it was written.             *)
(*                                                                         *)
(* An event is [k, call, amount].  Of the session log only the events the  *)
(* ledgers read are kept; the events of one transaction are one batch.     *)
(* What the provider really charges is external.                           *)
(***************************************************************************)
EXTENDS Naturals, Sequences, FiniteSets, FiniteSetsExt, SequencesExt

CONSTANTS
  Procs,        \* processes that open the session
  Calls,        \* paid invocations
  Quote,        \* [Calls -> amount]: the quoted maximum of each
  Ceilings,     \* session spend ceilings the user may set
  Costs,        \* what an inference may cost; Unknown is one
  MaxInferences, MaxFaults, MaxOpens,
  None, Unknown

ASSUME SpendAssumption ==
  /\ IsFiniteSet(Calls) /\ None \notin Calls \cup Procs
  /\ Quote \in [Calls -> Nat \ {0}] /\ Ceilings \subseteq Nat \ {0}
  /\ Costs \subseteq Nat \cup {Unknown} /\ Unknown \notin Nat
  /\ {MaxInferences, MaxFaults, MaxOpens} \subseteq Nat

VARIABLES
  store,     \* the events of the session in the store
  proc,      \* process: [at, log, tool, batch, then]
  executor,  \* call: the process whose executor is working on it, or None
  sent,      \* calls whose executor has contacted the provider
  charge,    \* what the provider charged for each call
  faults, opens

vars == <<store, proc, executor, sent, charge, faults, opens>>

E(k, c, a) == [k |-> k, call |-> c, amount |-> a]

(***************************************************************************)
(* The ledgers, as functions of a log.                                     *)
(***************************************************************************)
Has(log, k, c) == \E i \in DOMAIN log : log[i].k = k /\ log[i].call = c

Settlements == {"released", "finalized", "reconcile"}
Status(log, c) ==
  IF \E k \in Settlements : Has(log, k, c)
  THEN CHOOSE k \in Settlements : Has(log, k, c)
  ELSE IF Has(log, "reserved", c) THEN "reserved" ELSE "none"
Terminal(log, c) == Has(log, "result", c) \/ Has(log, "errored", c)

(* ToolSpendLedgerProjection::apply, the events of paid calls. *)
Accepts(log, e) ==
  LET c == e.call
      open == Status(log, c) = "reserved" /\ ~Terminal(log, c) IN
  CASE e.k = "proposed" -> ~Has(log, "proposed", c)
    [] e.k = "reserved" -> /\ Has(log, "proposed", c) /\ Status(log, c) = "none"
                           /\ ~Has(log, "started", c)
    [] e.k = "started" -> Status(log, c) = "reserved" /\ ~Has(log, "started", c)
    [] e.k = "released" -> open
    [] e.k = "finalized" -> open /\ Has(log, "started", c) /\ e.amount <= Quote[c]
    [] e.k = "reconcile" -> open /\ Has(log, "started", c)
    [] e.k = "result" -> ~Terminal(log, c) /\ Status(log, c) \in Settlements
    [] e.k = "errored" -> /\ Has(log, "proposed", c) /\ ~Terminal(log, c)
                          /\ Status(log, c) # "reserved"
    [] OTHER -> TRUE

(* summarize_tool_spend: what a call counts for. *)
Charged(log, c) ==
  CASE Status(log, c) \in {"reserved", "reconcile"} -> Quote[c]
    [] Status(log, c) = "finalized" ->
         (CHOOSE e \in ToSet(log) : e.k = "finalized" /\ e.call = c).amount
    [] OTHER -> 0

(* summarize_session_spend and summarize_combined_session_spend: one inference
   without a known cost, an unfinished one too, makes the whole accounting
   unavailable. *)
Positions(log, k) == {i \in DOMAIN log : log[i].k = k}
KnownCosts(log) == {i \in Positions(log, "cost") : log[i].amount # Unknown}
Accounted(log) ==
  IF Cardinality(KnownCosts(log)) # Cardinality(Positions(log, "inference"))
  THEN Unknown
  ELSE MapThenSumSet(LAMBDA i : log[i].amount, KnownCosts(log))
         + MapThenSumSet(LAMBDA c : Charged(log, c), Calls)

(* SessionSpendCeilingProjection: the last ceiling set. *)
Ceiling(log) ==
  LET set == Positions(log, "ceiling") IN
  IF set = {} THEN None ELSE log[Max(set)].amount

(* The calls of the last inference that are neither closed nor started. *)
Pending(log) ==
  {c \in Calls : \E i \in Positions(log, "proposed") :
     /\ log[i].call = c /\ ~Terminal(log, c) /\ Status(log, c) = "none"
     /\ \A j \in Positions(log, "inference") \cup Positions(log, "runover") : j < i}

(***************************************************************************)
(* The store.  append_events refuses a batch whose first sequence number   *)
(* does not pass the last one stored.                                      *)
(***************************************************************************)
ConflictNever(p) == FALSE
Conflict(p) == Len(proc[p].log) + 1 <= Len(store)

(* An append fails by a conflict, or by a fault that may have written it. *)
AppendFails(p, batch) ==
  \/ Conflict(p) /\ UNCHANGED <<store, faults>>
  \/ /\ ~Conflict(p) /\ faults < MaxFaults /\ faults' = faults + 1
     /\ store' \in {store, store \o batch}
AppendWorks(p, batch) ==
  ~Conflict(p) /\ store' = store \o batch /\ UNCHANGED faults

Closed == [at |-> "closed", log |-> <<>>, tool |-> None, batch |-> <<>>, then |-> None]
Unusable(p) ==
  [proc[p] EXCEPT !.at = "unusable", !.tool = None, !.batch = <<>>, !.then = None]

(* adopt(): the process goes on from the batch it has stored. *)
Adopted(p, batch, then) ==
  [at |-> then, log |-> proc[p].log \o batch, batch |-> <<>>, then |-> None,
   tool |-> IF then = "spawn" THEN Head(batch).call ELSE None]

(* commit(): a failed append makes the kernel unusable, but one that settles a
   call is first looked up in the store. *)
PaidTerminal(batch) == \E i \in DOMAIN batch : batch[i].k \in Settlements
AfterFailure(p, batch, then) ==
  IF PaidTerminal(batch)
  THEN [proc[p] EXCEPT !.at = "verify", !.batch = batch, !.then = then]
  ELSE Unusable(p)
Commit(p, batch, then) ==
  \/ AppendWorks(p, batch) /\ proc' = [proc EXCEPT ![p] = Adopted(p, batch, then)]
  \/ AppendFails(p, batch) /\ proc' = [proc EXCEPT ![p] = AfterFailure(p, batch, then)]

(***************************************************************************)
(* recover_paid_terminal_persistence: replay the store and compare, retry  *)
(* the append or, for a finalization, leave the call for reconciliation    *)
(* and stop; then compare again.                                           *)
(***************************************************************************)
WasStored(p, batch) == store = proc[p].log \o batch
NothingStored(p) == store = proc[p].log
Finalizes(batch) == \E i \in DOMAIN batch : batch[i].k = "finalized"
ReconcileBatch(c) ==
  <<E("reconcile", c, 0), E("errored", c, 0), E("runover", None, 0)>>
Stopped(p) == [Unusable(p) EXCEPT !.log = @ \o proc[p].batch]

AfterReplayTrusting(p) == Adopted(p, proc[p].batch, proc[p].then)
AfterReplay(p) ==
  IF WasStored(p, proc[p].batch) THEN Adopted(p, proc[p].batch, proc[p].then)
  ELSE IF ~NothingStored(p) THEN Unusable(p)
  ELSE IF Finalizes(proc[p].batch)
       THEN [proc[p] EXCEPT !.at = "reconcile", !.batch = ReconcileBatch(@[1].call)]
       ELSE [proc[p] EXCEPT !.at = "retry"]
Verify(p) ==
  /\ proc[p].at = "verify"
  /\ proc' = [proc EXCEPT ![p] = AfterReplay(p)]
  /\ UNCHANGED <<store, executor, sent, charge, faults, opens>>

Retry(p) ==
  /\ proc[p].at \in {"retry", "reconcile"}
  /\ LET retry == proc[p].at = "retry" IN
     \/ /\ AppendWorks(p, proc[p].batch)
        /\ proc' = [proc EXCEPT ![p] =
                      IF retry THEN Adopted(p, @.batch, @.then) ELSE Stopped(p)]
     \/ /\ AppendFails(p, proc[p].batch)
        /\ proc' = [proc EXCEPT ![p].at =
                      IF retry THEN "verify_retry" ELSE "verify_reconcile"]
  /\ UNCHANGED <<executor, sent, charge, opens>>
VerifyRetry(p) ==
  /\ proc[p].at \in {"verify_retry", "verify_reconcile"}
  /\ proc' = [proc EXCEPT ![p] =
                IF ~WasStored(p, @.batch) THEN Unusable(p)
                ELSE IF @.at = "verify_retry" THEN Adopted(p, @.batch, @.then)
                ELSE Stopped(p)]
  /\ UNCHANGED <<store, executor, sent, charge, faults, opens>>
(* The store cannot be read either. *)
ReplayFails(p) ==
  /\ proc[p].at \in {"verify", "verify_retry", "verify_reconcile"}
  /\ faults < MaxFaults /\ faults' = faults + 1
  /\ proc' = [proc EXCEPT ![p] = Unusable(p)]
  /\ UNCHANGED <<store, executor, sent, charge, opens>>

(***************************************************************************)
(* The life of a process.                                                  *)
(***************************************************************************)
(* open_durable replays the store. *)
Open(p) ==
  /\ proc[p].at \in {"closed", "unusable"} /\ opens < MaxOpens
  /\ \A c \in Calls : executor[c] # p
  /\ \A i \in DOMAIN store : Accepts(SubSeq(store, 1, i - 1), store[i])
  /\ proc' = [proc EXCEPT ![p] = [Closed EXCEPT !.at = "opening", !.log = store]]
  /\ opens' = opens + 1
  /\ UNCHANGED <<store, executor, sent, charge, faults>>

(* What it finds reserved was interrupted, and is released or left for
   reconciliation; its run fails.  Of the other runs, one whose calls wait for an
   approval or a launch is taken up again. *)
Interrupted(log) == {c \in Calls : Status(log, c) = "reserved"}
SettleReleased(log, c) == <<E("released", c, 0), E("errored", c, 0)>>
Settle(log, c) ==
  <<E(IF Has(log, "started", c) THEN "reconcile" ELSE "released", c, 0),
    E("errored", c, 0)>>
RecoveryBatch(log) ==
  FlattenSeq([i \in 1..Cardinality(Interrupted(log)) |->
                Settle(log, SetToSeq(Interrupted(log))[i])])
    \o <<E("runover", None, 0)>>
Recoverable(log) ==
  /\ Pending(log) # {}
  /\ \E i \in Positions(log, "cost") : \A j \in Positions(log, "inference") : j < i

OpenSettle(p) ==
  /\ proc[p].at = "opening"
  /\ LET batch == RecoveryBatch(proc[p].log) IN
     \/ /\ Interrupted(proc[p].log) = {}
        /\ \E at \in {"idle"} \cup (IF Recoverable(proc[p].log) THEN {"tools"} ELSE {}) :
             proc' = [proc EXCEPT ![p].at = at]
        /\ UNCHANGED <<store, faults>>
     \/ /\ Interrupted(proc[p].log) # {}
        /\ \/ /\ AppendWorks(p, batch)
              /\ proc' = [proc EXCEPT ![p] = Adopted(p, batch, "idle")]
           \/ AppendFails(p, batch) /\ proc' = [proc EXCEPT ![p] = Closed]
  /\ UNCHANGED <<executor, sent, charge, opens>>

(* The process dies, and its executors with it. *)
Die(p) ==
  /\ proc[p].at # "closed"
  /\ proc' = [proc EXCEPT ![p] = Closed]
  /\ executor' = [c \in Calls |-> IF executor[c] = p THEN None ELSE executor[c]]
  /\ UNCHANGED <<store, sent, charge, faults, opens>>

Quiet(p) == \A c \in Calls : executor[c] # p

(* apply_requested_spend_ceiling: a ceiling is narrowed, or set once. *)
Narrows(log, a) == Ceiling(log) # None => a < Ceiling(log)
SetCeiling(p, a) ==
  /\ proc[p].at = "idle" /\ Quiet(p) /\ Narrows(proc[p].log, a)
  /\ Commit(p, <<E("ceiling", None, a), E("runover", None, 0)>>, "idle")
  /\ UNCHANGED <<executor, sent, charge, opens>>

(* preflight_inference_spend. *)
Admits(log) ==
  Ceiling(log) # None =>
    Accounted(log) # Unknown /\ Accounted(log) < Ceiling(log)
MayInfer == Cardinality(Positions(store, "inference")) < MaxInferences

(* ChatSession::submit starts a run with an inference that was admitted. *)
Submit(p) ==
  /\ proc[p].at = "idle" /\ Quiet(p) /\ MayInfer /\ Admits(proc[p].log)
  /\ Commit(p, <<E("inference", None, 0)>>, "inferring")
  /\ UNCHANGED <<executor, sent, charge, opens>>

(* ChatSession::continue_if_ready goes on with another once the calls of the
   batch are closed. *)
Continue(p) ==
  /\ proc[p].at = "tools" /\ Quiet(p) /\ MayInfer /\ Pending(proc[p].log) = {}
  /\ Commit(p, <<E("inference", None, 0)>>, "inferring")
  /\ UNCHANGED <<executor, sent, charge, opens>>

Propose(p, c) ==
  /\ proc[p].at = "inferring" /\ ~Has(proc[p].log, "proposed", c)
  /\ Commit(p, <<E("proposed", c, 0)>>, "inferring")
  /\ UNCHANGED <<executor, sent, charge, opens>>
(* The inference ends, at a cost that may stay unknown; the run goes on with the
   calls it proposed, or is over. *)
EndInference(p, a) ==
  /\ proc[p].at = "inferring"
  /\ \/ Pending(proc[p].log) # {} /\ Commit(p, <<E("cost", None, a)>>, "tools")
     \/ Commit(p, <<E("cost", None, a), E("runover", None, 0)>>, "idle")
  /\ UNCHANGED <<executor, sent, charge, opens>>
(* The run fails, or is cancelled with its open calls closed. *)
EndRun(p) ==
  /\ proc[p].at = "tools"
  /\ LET open == SetToSeq(Pending(proc[p].log)) IN
     \E closed \in {<<>>, [i \in DOMAIN open |-> E("errored", open[i], 0)]} :
       Commit(p, closed \o <<E("runover", None, 0)>>, "idle")
  /\ UNCHANGED <<executor, sent, charge, opens>>

(* reserve_tool_spend: the reservation fits under the ceiling, with everything
   that is accounted for. *)
FitsAlone(log, c) == Ceiling(log) # None /\ Quote[c] <= Ceiling(log)
Fits(log, c) ==
  /\ Ceiling(log) # None /\ Accounted(log) # Unknown
  /\ Accounted(log) + Quote[c] <= Ceiling(log)

(* launch_next_tool: reserve and start in one batch, or close the call (also
   when the quote has expired). *)
Launch(p, c) ==
  /\ proc[p].at = "tools" /\ Quiet(p) /\ c \in Pending(proc[p].log)
  /\ \/ /\ Fits(proc[p].log, c)
        /\ Commit(p, <<E("reserved", c, Quote[c]), E("started", c, 0)>>, "spawn")
     \/ Commit(p, <<E("errored", c, 0)>>, "tools")
  /\ UNCHANGED <<executor, sent, charge, opens>>

Spawn(p) ==
  /\ proc[p].at = "spawn"
  /\ proc' = [proc EXCEPT ![p].at = "running"]
  /\ executor' = [executor EXCEPT ![proc[p].tool] = p]
  /\ UNCHANGED <<store, sent, charge, faults, opens>>
SpawnFails(p) ==
  /\ proc[p].at = "spawn"
  /\ Commit(p, <<E("released", proc[p].tool, 0), E("errored", proc[p].tool, 0)>>, "tools")
  /\ UNCHANGED <<executor, sent, charge, opens>>

(* The process closes the call while its executor still works: deadline, output
   limit, cancellation, or a failure of the run, which records no ToolErrored. *)
CloseEarly(p) ==
  /\ proc[p].at = "running"
  /\ LET c == proc[p].tool
         reconcile == E("reconcile", c, 0)
         errored == E("errored", c, 0)
         over == E("runover", None, 0) IN
     \/ Commit(p, <<reconcile, errored>>, "tools")
     \/ Commit(p, <<reconcile, over>>, "idle")
     \/ Commit(p, <<reconcile, errored, over>>, "idle")
  /\ UNCHANGED <<executor, sent, charge, opens>>

(***************************************************************************)
(* The executor (image_tool) contacts its provider at most once, is        *)
(* charged at most the quote, and accounts for what it was charged; it     *)
(* says released only when it never contacted the provider.                *)
(***************************************************************************)
Contact(c) ==
  /\ executor[c] # None /\ c \notin sent
  /\ sent' = sent \cup {c}
  /\ \E a \in 0..Quote[c] : charge' = [charge EXCEPT ![c] = a]
  /\ UNCHANGED <<store, proc, executor, faults, opens>>

(* process_tool_update and process_tool_failure, with a disposition, with none
   or with one that is invalid, which fails the run. *)
Report(p) ==
  /\ proc[p].at = "running"
  /\ LET c == proc[p].tool IN
     /\ executor' = [executor EXCEPT ![c] = None]
     /\ \/ \E end \in {"result", "errored"} :
             \/ /\ c \in sent
                /\ \E a \in charge[c]..Quote[c] :
                     Commit(p, <<E("finalized", c, a), E(end, c, 0)>>, "tools")
             \/ c \notin sent /\ Commit(p, <<E("released", c, 0), E(end, c, 0)>>, "tools")
             \/ Commit(p, <<E("reconcile", c, 0), E(end, c, 0)>>, "tools")
        \/ Commit(p, ReconcileBatch(c), "idle")
  /\ UNCHANGED <<sent, charge, opens>>

(* An executor whose call was closed, or whose process stopped, ends. *)
ExecutorEnds(c) ==
  /\ executor[c] # None /\ proc[executor[c]].tool # c
  /\ executor' = [executor EXCEPT ![c] = None]
  /\ UNCHANGED <<store, proc, sent, charge, faults, opens>>

Init ==
  /\ store = <<>> /\ proc = [p \in Procs |-> Closed]
  /\ executor = [c \in Calls |-> None] /\ sent = {} /\ charge = [c \in Calls |-> 0]
  /\ faults = 0 /\ opens = 0

Next ==
  \/ \E p \in Procs :
       \/ Open(p) \/ OpenSettle(p) \/ Die(p)
       \/ Verify(p) \/ Retry(p) \/ VerifyRetry(p) \/ ReplayFails(p)
       \/ Submit(p) \/ Continue(p) \/ EndRun(p)
       \/ Spawn(p) \/ SpawnFails(p) \/ CloseEarly(p) \/ Report(p)
       \/ \E a \in Ceilings : SetCeiling(p, a)
       \/ \E a \in Costs : EndInference(p, a)
       \/ \E c \in Calls : Propose(p, c) \/ Launch(p, c)
  \/ \E c \in Calls : Contact(c) \/ ExecutorEnds(c)

Spec == Init /\ [][Next]_vars

(***************************************************************************)
(* Properties.                                                             *)
(***************************************************************************)
AtTool == {"spawn", "running"}
Recovering == {"verify", "retry", "reconcile", "verify_retry", "verify_reconcile"}
AtRest == {"closed", "opening", "idle", "inferring", "tools", "unusable"}

(* The types; a process holds a tool only while it launches or runs one, and a
   batch only while it recovers a settlement, so that adopt() left nothing of the
   call before. *)
TypeOK ==
  /\ \A p \in Procs :
       /\ proc[p].at \in AtTool \cup Recovering \cup AtRest
       /\ proc[p].at \in AtTool => proc[p].tool \in Calls
       /\ proc[p].at \in AtRest => proc[p].tool = None
       /\ proc[p].at \in Recovering <=> proc[p].batch # <<>>
  /\ executor \in [Calls -> Procs \cup {None}] /\ sent \subseteq Calls
  /\ \A c \in Calls : charge[c] \in 0..Quote[c]
  /\ faults \in 0..MaxFaults /\ opens \in 0..MaxOpens

(* The stored session can always be replayed: whatever processes, faults and
   recoveries interleave, every stored event was acceptable to the spend ledger
   after those before it, so that open_durable does not refuse the session, and
   each reservation has at most one settlement. *)
StoreReplays ==
  \A i \in DOMAIN store : Accepts(SubSeq(store, 1, i - 1), store[i])

(* "It cannot silently restore possibly spent authority": what the provider
   charged for a call is at most what the stored session counts for it. *)
ChargesAreAccounted == \A c \in Calls : charge[c] <= Charged(store, c)

(* The ceiling binds every process: a reservation is stored only if it fits under
   the ceiling with everything stored until then, also by others, so that no two
   processes spend the same remainder, and the ceiling is never widened, even by
   a process that had not seen it narrowed. *)
CeilingHolds ==
  [][store' # store =>
       /\ \A c \in Calls : Status(store, c) = "none" /\ Has(store', "reserved", c) =>
            /\ Ceiling(store') # None /\ Accounted(store') # Unknown
            /\ Accounted(store') <= Ceiling(store')
       /\ Ceiling(store) # None => Ceiling(store') <= Ceiling(store)]_vars

(* A process never works from a log the store does not have: what it holds in
   memory is a prefix of what is stored. *)
MemoryIsStored == \A p \in Procs : IsPrefix(proc[p].log, store)
===============================================================================
