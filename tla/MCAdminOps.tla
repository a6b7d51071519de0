----------------------------- MODULE MCAdminOps -----------------------------
(* Model values, and symmetry of the sessions: nothing tells one from another. *)
EXTENDS AdminOps, TLC

CONSTANTS s1, s2, t1

Symmetry == Permutations({s1, s2})
=============================================================================
