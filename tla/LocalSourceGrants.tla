------------------------- MODULE LocalSourceGrants -------------------------
(***************************************************************************)
(* The registry of folder grants (src/src/lib/local_source_grants.cpp).  A  *)
(* reservation takes a slot before the folder is opened; the physical lease *)
(* that the factory brings belongs to the slot from the moment it exists.   *)
(* Borrowed readers keep it alive; only the reclaimer thread destroys it,   *)
(* and the slot stays occupied until the destructor has returned.           *)
(*                                                                          *)
(* Slots are named by the request that reserved them.  Request identities   *)
(* and lease generations both grow with every reservation and are never     *)
(* used again (reserve), so the identity stands for the generation too.     *)
(***************************************************************************)
EXTENDS Naturals, FiniteSets, Functions

CONSTANTS GrantCapacity,  \* slots of the registry (maximum_roots)
          Roots,          \* root identities a folder can turn out to have
          NoRoot

ASSUME GrantsAssumption ==
  /\ GrantCapacity \in Nat \ {0}
  /\ NoRoot \notin Roots

VARIABLE grants  \* [slots, scope, lastEpoch, lastRequest, closed]

NoScope == [session |-> NoRoot, epoch |-> 0]

NewRecord(session, epoch) ==
  [session |-> session, epoch |-> epoch,
   root |-> NoRoot, physical |-> FALSE, attempted |-> FALSE,
   running |-> FALSE, active |-> FALSE, retired |-> FALSE,
   destroying |-> FALSE]

InitGrants ==
  grants = [slots |-> [g \in {} |-> NoRoot], scope |-> NoScope,
            lastEpoch |-> 0, lastRequest |-> 0, closed |-> FALSE]

Current(r, record) ==
  /\ ~r.closed
  /\ r.scope # NoScope
  /\ r.scope.session = record.session
  /\ r.scope.epoch = record.epoch

\* retire: out of use at once, whoever still reads under the lease; the lease
\* itself is only marked, its owner unchanged.
RetiredRecord(record) ==
  [record EXCEPT !.retired = TRUE, !.active = FALSE]

Retire(r, gs) ==
  [r EXCEPT !.slots =
     [g \in DOMAIN @ |-> IF g \in gs THEN RetiredRecord(@[g]) ELSE @[g]]]

ActivateScope(r, session, epoch) ==
  IF r.closed \/ epoch <= r.lastEpoch THEN r
  ELSE [Retire(r, DOMAIN r.slots) EXCEPT
          !.scope = [session |-> session, epoch |-> epoch],
          !.lastEpoch = epoch]

InvalidateScope(r, session) ==
  LET own == {g \in DOMAIN r.slots : r.slots[g].session = session}
  IN [Retire(r, own) EXCEPT
        !.scope = IF @.session = session THEN NoScope ELSE @]

\* ~LocalSourceGrants.
CloseGrants(r) ==
  [Retire(r, DOMAIN r.slots) EXCEPT !.closed = TRUE, !.scope = NoScope]

CanReserve(r, id, record) ==
  /\ Current(r, record)
  /\ id > r.lastRequest
  /\ Cardinality(DOMAIN r.slots) < GrantCapacity

Reserve(r, id, record) ==
  [r EXCEPT
     !.slots = [g \in DOMAIN @ \cup {id} |-> IF g = id THEN record ELSE @[g]],
     !.lastRequest = id]

\* resolve: the grants that answer for a root of the session; never two.
Resolved(r, session, root) ==
  {g \in DOMAIN r.slots :
     /\ r.slots[g].active
     /\ ~r.slots[g].retired
     /\ Current(r, r.slots[g])
     /\ r.slots[g].session = session
     /\ r.slots[g].root = root}

\* duplicate_root
DuplicateRoot(r, id) ==
  \E g \in DOMAIN r.slots \ {id} :
    /\ r.slots[g].active
    /\ ~r.slots[g].retired
    /\ r.slots[g].session = r.slots[id].session
    /\ r.slots[g].root = r.slots[id].root

\* Variant: a second grant of a root that is already granted is accepted.
CanAcceptDuplicate(r, id) ==
  /\ id \in DOMAIN r.slots
  /\ LET record == r.slots[id]
     IN /\ ~record.retired
        /\ ~record.running
        /\ record.attempted
        /\ record.physical
        /\ record.root # NoRoot
        /\ Current(r, record)

\* LocalSourceGrantReservation::accept, for a result that still carries the
\* lease of its own reservation.
CanAccept(r, id) ==
  /\ id \in DOMAIN r.slots
  /\ LET record == r.slots[id]
     IN /\ ~record.retired
        /\ ~record.running
        /\ record.attempted
        /\ record.physical
        /\ record.root # NoRoot
        /\ Current(r, record)
        /\ ~DuplicateRoot(r, id)

Accept(r, id) ==
  IF CanAccept(r, id) THEN [r EXCEPT !.slots[id].active = TRUE]
  ELSE Retire(r, {id})

\* revoke: the active grant of exactly this root and generation.
Revocable(r, session, root, generation) ==
  {g \in DOMAIN r.slots \cap {generation} :
     /\ r.slots[g].active
     /\ ~r.slots[g].retired
     /\ r.slots[g].session = session
     /\ r.slots[g].root = root}

-----------------------------------------------------------------------------
(* Producer::grant, in the critical sections of the registry's mutex. *)

\* A reservation dispatches once, and not after it was retired.
CanDispatch(r, id) ==
  /\ id \in DOMAIN r.slots
  /\ ~r.slots[id].attempted
  /\ ~r.slots[id].retired
  /\ Current(r, r.slots[id])

Dispatch(r, id) ==
  [r EXCEPT !.slots[id].attempted = TRUE, !.slots[id].running = TRUE]

\* stage_result: the slot owns the lease before anything is decided about it.
\* A result that came after a stop request, after the reservation was retired
\* or after the session changed is retired on the spot.
Staged(r, id, root, stopped) ==
  LET owned == [r EXCEPT !.slots[id].physical = TRUE]
  IN IF stopped \/ r.slots[id].retired \/ ~Current(r, r.slots[id])
     THEN Retire(owned, {id})
     ELSE [owned EXCEPT !.slots[id].root = root]

\* Variant: only a grant that succeeded is marked as no longer running.
FinishGrantOnSuccess(r, id, failed) ==
  IF failed THEN Retire(r, {id}) ELSE [r EXCEPT !.slots[id].running = FALSE]

FinishGrant(r, id, failed) ==
  LET settled == IF failed THEN Retire(r, {id}) ELSE r
  IN [settled EXCEPT !.slots[id].running = FALSE]

-----------------------------------------------------------------------------
(* reclaim_one, on the registry's own thread: once nobody borrows it, the   *)
(* lease of a retired slot is destroyed outside the mutex, then the slot is *)
(* free.  That the factory is let go of first changes no state of the model.*)

Reclaimable(g) ==
  /\ g \in DOMAIN grants.slots
  /\ grants.slots[g].retired
  /\ ~grants.slots[g].running
  /\ ~grants.slots[g].destroying

\* Variant: a retired lease is destroyed whoever borrows it.
BeginReclaimAnyway(g, borrowed) ==
  /\ Reclaimable(g)
  /\ grants' = [grants EXCEPT !.slots[g].destroying = TRUE,
                              !.slots[g].physical = FALSE]

BeginReclaim(g, borrowed) ==
  /\ Reclaimable(g)
  /\ ~borrowed
  /\ grants' = [grants EXCEPT !.slots[g].destroying = TRUE,
                              !.slots[g].physical = FALSE]

EndReclaim(g) ==
  /\ g \in DOMAIN grants.slots
  /\ grants.slots[g].destroying
  /\ grants' = [grants EXCEPT !.slots = Restrict(@, DOMAIN @ \ {g})]
=============================================================================
