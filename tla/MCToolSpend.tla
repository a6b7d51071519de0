---------------------------- MODULE MCToolSpend ----------------------------
(* Two processes, and two calls that cost as much as an inference. *)
EXTENDS ToolSpend, TLC

CONSTANTS p, q, a, b

MCQuote == (a :> 1) @@ (b :> 1)
MCSymmetry == Permutations({p, q})
============================================================================
