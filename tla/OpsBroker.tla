----------------------------- MODULE OpsBroker -----------------------------
(***************************************************************************)
(* The broker between an executor that asks for an observation and the      *)
(* owner thread that alone may reach a source                               *)
(* (src/src/lib/ops_observation_broker.cpp), and the consent to read logs   *)
(* that both sides check (src/src/lib/ops_log_consent.cpp).                 *)
(*                                                                          *)
(* The executor thread puts a request into the mailbox of the session and   *)
(* waits there; the owner services the mailbox, sends a request to the      *)
(* source worker once, and hands the answer back as a receipt, which the    *)
(* owner redeems when it publishes.  The owner's operations are operators   *)
(* on a record s with the worker (s.w), the broker (s.b) and the executor   *)
(* (s.x), because its handlers perform several of them.                     *)
(*                                                                          *)
(* An authority names the session, the target, the selection generation,    *)
(* the revision of the log policy and whether the one log source is         *)
(* permitted.  Every authority the controller makes contains its target's   *)
(* log operation, so has_log_capability holds of all of them.               *)
(***************************************************************************)
EXTENDS LocalSourceWorker, FiniteSetsExt

CONSTANTS Targets,       \* configured targets
          MaxPending,    \* capacity of the mailbox (maximum_pending)
          Answers        \* what a source may answer to an observation

Operations == {"health", "logs"}

\* OpsObservationAuthoritySpec, OpsObservationRequest, OpsObservationSource
Authorities ==
  [session : Sessions, target : Targets, gen : Nat, rev : Nat, logs : BOOLEAN]
Requests ==
  [session : Sessions, target : Targets, gen : Nat, rev : Nat, op : Operations]
Sources == [id : Nat, target : Targets, epoch : Nat]

\* The executor thread of an invocation, with the request it carries
Execs ==
  [pc : {"starting", "waiting", "posted", "ended"}, ticket : Nat,
   request : Requests, stop : BOOLEAN, receipt : BOOLEAN, seen : BOOLEAN]

ASSUME BrokerAssumption ==
  /\ MaxPending \in Nat \ {0}
  /\ Answers \subseteq {"ok", "failed", "disconnected"}
  /\ Nil \notin Nat \cup Targets \cup Authorities \cup Requests \cup Sources
             \cup Execs

VARIABLES broker, exec

InitBroker ==
  /\ broker = [session |-> Nil, epoch |-> 0, closed |-> TRUE,
               entries |-> [t \in {} |-> Nil],
               authority |-> Nil, source |-> Nil,
               consent |-> [active |-> FALSE, current |-> Nil]]
  /\ exec = Nil

-----------------------------------------------------------------------------
(* The log consent of the activation. *)

ConsentMatches(b, spec) == b.consent.active /\ b.consent.current = spec

RevokeConsent(b) ==
  [b EXCEPT !.consent.active = FALSE,
            !.consent.current = IF @ = Nil THEN Nil
                                ELSE [@ EXCEPT !.logs = FALSE]]

RevokeStaleConsent(b, spec) ==
  IF ~b.consent.active \/ b.consent.current \in {Nil, spec} THEN b
  ELSE RevokeConsent(b)

\* OpsSessionLogConsent::authority
ConsentInForce(b) == b.consent.active /\ b.consent.current # Nil

CanStartConsent(b) == b.consent.active /\ b.consent.current = Nil

\* The change names the counters of the consent itself, so only the selection
\* and the policy can be out of date.
CanApplyConsent(b, session, target, enabled) ==
  /\ ConsentInForce(b)
  /\ b.consent.current.session = session
  /\ b.consent.current.target = target
  /\ b.consent.current.logs # enabled

\* apply: both counters move with the policy.
ApplyConsent(b, enabled) ==
  LET held == b.consent.current
  IN [b EXCEPT !.consent.current =
        [held EXCEPT !.gen = held.gen + 1, !.rev = held.rev + 1, !.logs = enabled]]

CanReplaceConsent(b, spec) ==
  /\ ConsentInForce(b)
  /\ spec.session = b.consent.current.session
  /\ spec.gen > b.consent.current.gen
  /\ spec.rev > b.consent.current.rev
  /\ ~spec.logs

SetConsent(b, spec) == [b EXCEPT !.consent.current = spec]

-----------------------------------------------------------------------------
(* Authority. *)

\* OpsObservationAuthority::validate
Validates(spec, request) ==
  /\ spec.session = request.session
  /\ spec.target = request.target
  /\ spec.gen = request.gen
  /\ spec.rev = request.rev
  /\ request.op = "logs" => spec.logs

\* Variant: the log consent is not part of being current.
CurrentWithoutConsent(b, request) ==
  ~b.closed /\ b.authority # Nil /\ Validates(b.authority, request)

\* Impl::current
Current(b, request) ==
  /\ ~b.closed
  /\ b.authority # Nil
  /\ Validates(b.authority, request)
  /\ ConsentMatches(b, b.authority)

Preflight(b, request) ==
  /\ request.session = b.session
  /\ b.source # Nil
  /\ Current(b, request)

ValidSelection(b, spec, source) ==
  /\ ~b.closed
  /\ spec.session = b.session
  /\ source.target = spec.target
  /\ ConsentMatches(b, spec)
  /\ b.authority # Nil =>
       /\ spec.gen > b.authority.gen
       /\ spec.target = b.authority.target =>
            /\ spec.rev >= b.authority.rev
            /\ spec.logs # b.authority.logs => spec.rev > b.authority.rev

-----------------------------------------------------------------------------
(* The mailbox. *)

Entry(request) ==
  [request |-> request, expired |-> FALSE, stop |-> FALSE, error |-> FALSE,
   claimed |-> FALSE, token |-> Nil, result |-> FALSE]

Tokens(b) == {b.entries[t].token : t \in DOMAIN b.entries} \ {Nil}

Erase(b, t) == [b EXCEPT !.entries = Restrict(@, DOMAIN @ \ {t})]

\* Variant: the entry goes, its job stays.
DiscardForgetting(s, t) == [s EXCEPT !.b = Erase(s.b, t)]

\* discard.  The waiter keeps the entry it waits on; that it has left the
\* mailbox is how the model says that its error is set.
DiscardEntry(s, t) ==
  LET token == s.b.entries[t].token
  IN [s EXCEPT !.b = Erase(s.b, t),
               !.w = IF token = Nil THEN s.w ELSE Cancel(s.w, token)]

DiscardAll(s, close) ==
  [s EXCEPT !.b.entries = [t \in {} |-> Nil],
            !.b.closed = close,
            !.w = CancelAll(s.w, Tokens(s.b))]

Rejected(b, t) ==
  LET entry == b.entries[t]
  IN entry.error \/ entry.stop \/ entry.expired \/ ~Current(b, entry.request)

\* submit_entry: the request goes to the worker, under a new identity.
Dispatch(s, t, launch) ==
  LET id == NextRequest(s.w)
      job == NewJob(s.b.session, [kind |-> "observe", entry |-> t],
                    {s.b.source.id})
      sent == [s EXCEPT !.w = Submit(Allocate(s.w), id, job, launch),
                        !.b.entries[t].claimed = TRUE,
                        !.b.entries[t].token = id]
  IN IF ~CanAllocate(s.w) THEN DiscardEntry(s, t)
     ELSE IF Admission(Allocate(s.w), id) # "launched" \/ launch # "started"
          THEN DiscardEntry(sent, t)
     ELSE sent

\* The end of service_entry: what the worker says about the entry's job.
Collect(s, t) ==
  LET token == s.b.entries[t].token
      status == PollStatus(s.w, token)
      answer == s.w.jobs[token].result
      polled == [s EXCEPT !.w = Poll(s.w, token, FALSE)]
      taken == [polled EXCEPT !.b.entries[t].token = Nil]
  IN CASE status = "pending" -> polled
       [] status = "stale" -> DiscardEntry(polled, t)
       [] status = "delivered" /\ answer # "ok" ->
            [DiscardEntry(taken, t) EXCEPT
               !.lost = @ \/ answer = "disconnected"]
       [] status = "delivered" /\ answer = "ok" ->
            [taken EXCEPT !.b.entries[t].result = TRUE]

CollectIfSent(s, t) ==
  IF t \in DOMAIN s.b.entries /\ s.b.entries[t].token # Nil THEN Collect(s, t)
  ELSE s

ServiceEntry(s, t, launch) ==
  IF Rejected(s.b, t) THEN DiscardEntry(s, t)
  ELSE CollectIfSent(IF s.b.entries[t].claimed THEN s ELSE Dispatch(s, t, launch),
                     t)

\* service: the entries in the order they came in, which is that of the tickets.
ServiceIfKnown(s, t, launch) ==
  IF t \in DOMAIN s.b.entries THEN ServiceEntry(s, t, launch) ELSE s

Service(s, launch) ==
  LET last == Max(DOMAIN s.b.entries \cup {0})
      served[t \in 0 .. last] ==
        IF t = 0 THEN s ELSE ServiceIfKnown(served[t - 1], t, launch)
  IN served[last]

\* take_for_publication: [s, taken].
TakeForPublication(s, t) ==
  LET known == t \in DOMAIN s.b.entries
      refused == known /\ Rejected(s.b, t)
      taken == known /\ ~refused /\ s.b.entries[t].result
  IN [s |-> IF refused \/ taken THEN [s EXCEPT !.b = Erase(s.b, t)] ELSE s,
      taken |-> taken]

-----------------------------------------------------------------------------
(* Sessions and selections. *)

ActivateBroker(s, session) ==
  LET left == DiscardAll([s EXCEPT !.b = RevokeConsent(s.b)], TRUE)
  IN [left EXCEPT !.b =
        [session |-> session, epoch |-> @.epoch + 1, closed |-> FALSE,
         entries |-> [t \in {} |-> Nil], authority |-> Nil, source |-> Nil,
         consent |-> [active |-> TRUE, current |-> Nil]]]

DeactivateBroker(s) ==
  LET left == DiscardAll([s EXCEPT !.b = RevokeConsent(s.b)], TRUE)
  IN [left EXCEPT !.b.authority = Nil, !.b.source = Nil]

\* select, of a valid selection
SelectSource(s, spec, source) ==
  LET left == DiscardAll(s, FALSE)
  IN [left EXCEPT !.b = [RevokeStaleConsent(@, spec) EXCEPT
                           !.authority = spec, !.source = source]]

-----------------------------------------------------------------------------
(* The executor thread: ObservationStream::next and the worker around it.   *)
(* `ticket' is the number of the invocation.                                *)

NewExec(ticket, request) ==
  [pc |-> "starting", ticket |-> ticket, request |-> request,
   stop |-> FALSE, receipt |-> FALSE, seen |-> FALSE]

\* operation_stop: the entry holds the same stop token.
StopExec(s) ==
  IF s.x = Nil THEN s
  ELSE [s EXCEPT
          !.x.stop = TRUE,
          !.b.entries = [t \in DOMAIN @ |->
             IF t = s.x.ticket THEN [@[t] EXCEPT !.stop = TRUE] ELSE @[t]]]

\* The thread is stopped and joined: its observe returns at once.
JoinExec(s) == [StopExec(s) EXCEPT !.x = Nil]

\* observe, up to the wait.
Observe(late) ==
  /\ exec # Nil /\ exec.pc = "starting"
  /\ LET admitted == /\ ~exec.stop /\ ~late /\ ~broker.closed
                     /\ exec.request.session = broker.session
                     /\ Cardinality(DOMAIN broker.entries) < MaxPending
     IN IF admitted
        THEN /\ exec' = [exec EXCEPT !.pc = "waiting"]
             /\ broker' = [broker EXCEPT !.entries =
                  [t \in DOMAIN @ \cup {exec.ticket} |->
                     IF t = exec.ticket THEN Entry(exec.request) ELSE @[t]]]
        ELSE exec' = [exec EXCEPT !.pc = "posted"] /\ UNCHANGED broker
  /\ UNCHANGED worker

\* The deadline of an entry passes.
Expire(t) ==
  /\ t \in DOMAIN broker.entries
  /\ ~broker.entries[t].expired
  /\ broker' = [broker EXCEPT !.entries[t].expired = TRUE]
  /\ UNCHANGED <<worker, exec>>

\* observe, from the wait on: woken by an answer, an error, the stop or the
\* deadline, it returns a receipt or fails, and the update is queued.
Wake ==
  /\ exec # Nil /\ exec.pc = "waiting"
  /\ LET t == exec.ticket
         entry == broker.entries[t]
         known == t \in DOMAIN broker.entries
         over == exec.stop \/ (known /\ entry.expired)
     IN /\ known => over \/ entry.result
        /\ exec' = [exec EXCEPT !.pc = "posted",
                                !.receipt = known /\ ~over]
        /\ broker' = IF known /\ over
                     THEN [broker EXCEPT !.entries[t].error = TRUE]
                     ELSE broker
  /\ UNCHANGED worker

\* The stream is over: ToolEnded is queued.
EndExec ==
  /\ exec # Nil /\ exec.pc = "posted"
  /\ exec' = [exec EXCEPT !.pc = "ended"]
  /\ UNCHANGED <<worker, broker>>
=============================================================================
