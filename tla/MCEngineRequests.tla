------------------------- MODULE MCEngineRequests -------------------------
(* Two requests, each submitted up to twice, for TLC. *)
EXTENDS EngineRequests, TLC

CONSTANTS q1, q2

TwoRequests == {q1, q2}
RequestSymmetry == Permutations(TwoRequests)
=============================================================================
