------------------------- MODULE MCVideoCoordinator -------------------------
(* Requests of the runs, and symmetry of the callers. *)
EXTENDS VideoCoordinator, TLC

CONSTANTS a, b, r1, r2, o1, o2

Generate(r, o) == [run |-> r, op |-> o, kind |-> "generation"]
TranscribeRequest(r, o) == [run |-> r, op |-> o, kind |-> "transcription"]

EitherWorkflow == {Generate(r1, o1), TranscribeRequest(r1, o1), Generate(r1, o2)}
SharedOperation == {Generate(r1, o1), Generate(r2, o1)}

Symmetry == Permutations({a, b})
=============================================================================
