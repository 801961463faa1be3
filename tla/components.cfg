SPECIFICATION MCSpec
CONSTANTS
  r1 = r1  r2 = r2  s1 = s1  s2 = s2  s3 = s3  c1 = c1  c2 = c2  c3 = c3
  a1 = a1  m1 = m1  m2 = m2  t1 = t1  t2 = t2  e1 = e1  e2 = e2  ca = ca  cb = cb
  z1 = z1  z2 = z2  i1 = i1  i2 = i2  n1 = n1  n2 = n2  n3 = n3
  p1 = p1  p2 = p2  p3 = p3
  None = None
  Node = {p1, p2, p3}
  Proposers = {p1}
  F = 1
  Tx = {t1}
  MaxRounds <- SecondTry
  VcNode = {1, 2, 3, 4}
  VcHandler = {1}
  VcMaxView = 1
  VcMaxCalls = 1
  ScMaxMessages = 3
  ScMaxTroubles = 3
  ThSender = {s1, s2, s3}
  ThQuorum = 3
  ThPools = {1, 2}
  ThCopies <- OneComesTwice
  LgRound = {r1, r2}
  LgKeep = 1
  LgMaxRecords = 4
  LgMaxNodes = 2
  StClient = {c1, c2, c3}
  StMaxRounds = 2
  StMaxMoves = 3
  VrAddress = {a1}
  VrMinStake = 2
  VrStakes = {1, 2, 4}
  VrAmounts = {1, 2}
  MsModel = {m1, m2}
  MsNames = {1, 2}
  MsMaxResults = 2
  PmVerifiers <- Panels
  PmTally = {t1, t2}
  PmF = 1
  QsElector = {e1, e2}
  QsClass = {ca, cb}
  QsConfigs <- NetworkSizes
  QsScore <- LaterIsNearer
  QsPlace <- Places
  QsF = 1
  QsSample <- OddsFirst
  TnStream = {z1, z2}
  TnMaxEpochs = 3
  TnSaveEvery = 2
  ImPeer = {i1, i2}
  ImMaxRounds = 2
  PdNode = {n1, n2, n3}
  PdCli <- Flags
  PdConfig <- Configured
  PdMaxStarts <- Starts
  PdCallable <- Calls
  PdMaxCalls = 1
  PdMaxMail = 1
  PdMaxFailures = 1
SYMMETRY Replicas
INVARIANTS
  SealedAsVoted ProofsAreVotes SharedPast VcCertified DeliveredOnce CommitPublished
  RecoversLatest StreamReaches ActiveIsStaked PassedIsApproved VerdictsAgree NoSplit
   FoundImageIsUsed LearnedIsDialled
CHECK_DEADLOCK FALSE
