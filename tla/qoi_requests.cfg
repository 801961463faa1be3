CONSTANTS
  n1 = n1
  n2 = n2
  n3 = n3
  n4 = n4
  None = None
  Rank <- MCRank
  Node = {n1, n2, n3}
  Class = {c1}
  Request = {r1, r2}
  F = 1
  Primaries = {n1}
  MaxSeq = 1
  MaxView = 0
  MaxSum = 2
  Up = {n1, n2, n3}
CHECK_DEADLOCK FALSE
SPECIFICATION Spec
INVARIANT PreparesMatchTheRequest
