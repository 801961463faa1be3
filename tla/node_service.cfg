SPECIFICATION Spec
CONSTANTS
  ann = ann  bob = bob  d1 = d1  d2 = d2  d3 = d3  d4 = d4  g = g
  None = None
  Address <- MCAddress
  Genesis = g
  Node <- MCNode
  GenesisTxs <- MCGenesisTxs
  GenesisAdmits <- MCGenesisAdmits
  Scripts <- MCScripts
  Rounds <- MCRounds
  MinStake = 2
  RepPenalty = 3
  InferenceReward = 12
  LeaderBonus = 2
  SlashPenalty = 1
  RepGain = 5
  RepLeaderBonus = 1
  FaucetAmount = 10
  FaucetMax = 10
  PoolSize = 2
  MaxTxs = 2
  MaxBlocks = 2
  MaxRounds = 1
  MaxCrashes = 1
  MaxFailures = 1
INVARIANTS LedgerTypeOK NoOverdraft NoncesInOrder PoolIsAhead SameTipSameLedger
PROPERTIES SupplyKept RestartKeepsPrefix
CHECK_DEADLOCK FALSE
