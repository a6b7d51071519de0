---------------------------- MODULE ToolLifecycle ----------------------------
(***************************************************************************)
(* What the run kernel promises of the tool calls of a session, whatever   *)
(* the provider, the executors, the user and restarts do.  A call is       *)
(*     idle        not proposed,                                           *)
(*     proposed    proposed by the model and not (or no longer) authorised,*)
(*     authorised  allowed by policy or by an approval,                    *)
(*     running     executing,                                              *)
(*     waiting     ask_user, waiting for the answer,                       *)
(*     closed      recorded with a result or an error, or                  *)
(*     abandoned   cut off while executing, and never executed again.      *)
(* Only an authorised call runs, one call executes at a time, and a call   *)
(* that has run never runs again.                                          *)
(***************************************************************************)
CONSTANT Calls
VARIABLE phase

Init == phase = [c \in Calls |-> "idle"]

Move(C, from, to) ==
  /\ \A c \in C : phase[c] \in from
  /\ phase' = [c \in Calls |-> IF c \in C THEN to ELSE phase[c]]

(* The calls of one inference; those with invalid arguments close at once. *)
Propose(C, invalid) ==
  /\ \A c \in C : phase[c] = "idle"
  /\ phase' = [c \in Calls |-> IF c \in invalid THEN "closed"
                               ELSE IF c \in C THEN "proposed" ELSE phase[c]]

(* Policy decides the calls of a batch together; the rest stays proposed. *)
Decide(allowed, denied) ==
  /\ allowed \cap denied = {}
  /\ \A c \in allowed \cup denied : phase[c] = "proposed"
  /\ phase' = [c \in Calls |-> IF c \in allowed THEN "authorised"
                               ELSE IF c \in denied THEN "closed" ELSE phase[c]]

Run(c) ==
  /\ \A d \in Calls : phase[d] \notin {"running", "waiting"}
  /\ Move({c}, {"authorised"}, "running")

Ask(c) == Move({c}, {"running"}, "waiting")
Abandon(c) == Move({c}, {"running"}, "abandoned")
Close(C) ==
  Move(C, {"proposed", "authorised", "running", "waiting", "abandoned"}, "closed")

(* After a restart a consumed approval counts no longer. *)
Renew(C) == Move(C, {"authorised"}, "proposed")

Next ==
  \/ \E C \in SUBSET Calls : (\E X \in SUBSET C : Propose(C, X)) \/ Close(C) \/ Renew(C)
  \/ \E A, D \in SUBSET Calls : Decide(A, D)
  \/ \E c \in Calls : Run(c) \/ Ask(c) \/ Abandon(c)

Spec == Init /\ [][Next]_phase
===============================================================================
