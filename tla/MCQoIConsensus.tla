-------------------------- MODULE MCQoIConsensus --------------------------
(* Small instances of QoIConsensus for TLC. *)
EXTENDS QoIConsensus, SequencesExt

CONSTANTS n1, n2, n3, n4

\* The order of ids: n1 is the lowest.
Ids == <<n1, n2, n3, n4>>
MCRank == [n \in Node |-> CHOOSE i \in DOMAIN Ids : Ids[i] = n]

\* The classes are alike.
ClassSymmetry == Permutations(Class)

\* Where n1 alone is primary and no view ends (MaxView = 0), the ids are never
\* compared, and the replicas are alike as well.
ReplicaSymmetry == Permutations(Node \ {n1}) \cup ClassSymmetry
=============================================================================
