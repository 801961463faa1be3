---------------------------- MODULE MCPoSRounds ----------------------------
(* Small instances of PoSRounds for TLC. *)
EXTENDS PoSRounds, TLC

CONSTANTS n1, n2, n3

\* Only the proposer tries again after a time-out.
SecondTry == [n \in Node |-> IF n = n1 THEN 2 ELSE 1]

\* Only n1 proposes and starts two rounds, so the others are alike.
Replicas == Permutations(Node \ {n1})
=============================================================================
