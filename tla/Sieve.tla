------------------------------- MODULE Sieve -------------------------------
(***************************************************************************)
(* Without(s, R): the elements of s that are not in R, in their order.     *)
(* SelectSeq says the same; as a recursive function it can be proved about.*)
(***************************************************************************)
EXTENDS Integers, Sequences

Without(s, R) ==
  LET kept[i \in 0..Len(s)] ==
        IF i = 0 THEN << >>
        ELSE IF s[i] \in R THEN kept[i - 1] ELSE Append(kept[i - 1], s[i])
  IN kept[Len(s)]
=============================================================================
