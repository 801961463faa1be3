\* Two candidates reach one machine, and votes for both count.
SPECIFICATION Spec
CONSTANTS
  n1 = n1
  n2 = n2
  n3 = n3
  None = None
  Node = {n1, n2, n3}
  Proposers = {n1}
  F = 1
  Tx = {t1}
  MaxRounds <- SecondTry
CHECK_DEADLOCK FALSE
SYMMETRY Replicas
INVARIANT ProofOfThisBlock
