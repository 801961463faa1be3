SPECIFICATION MCSpec
CONSTANTS
  r1 = r1  r2 = r2  q1 = q1  q2 = q2  w1 = w1  w2 = w2  ax = ax  ay = ay
  n1 = n1  n2 = n2  n3 = n3
  TmRound = {r1, r2}
  TmMaxStarts = 3
  None = None
  Request = {q1, q2}
  MaxSubmits = 2
  ClAccount = {ax, ay}
  ClWallet = {w1, w2}
  ClOwner <- Owners
  ClBuilder = ax
  ClFunds <- Purses
  ClFees = {1}
  ClBuilderFees = {0}
  ClPoolSize = 3
  ClBlockSize = 1
  ClMaxTxs = 4
  Node = {n1, n2, n3}
  Sealer = n1
  Networks <- TriangleAndLine
  BatchSize = 1
  MaxBlocks = 2
INVARIANTS
  PendingIsQueued NoRequestLost NoMultiplication NoSecondSeal TimeoutsExact NobodyAhead
PROPERTIES
  QueueServed CheckedRoundFires  GossipRests ReachesOrDeaf
CHECK_DEADLOCK FALSE
