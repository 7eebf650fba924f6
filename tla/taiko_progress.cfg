SPECIFICATION FairSpec
CONSTANTS
  u1 = u1
  u2 = u2
  f = f
  g = g
  r = r
  q = q
  Users = {u1}
  NoUser = NoUser
  Forks = {f, g}
  GenesisFork = f
  NoHash = NoHash
  Roots = {r}
  NoRoot = NoRoot
  Tier <- TwoTiers
  MinTiers = {1}
  BlockMaxProposals = 2
  BlockRingBufferSize = 3
  MaxBlocksToVerify = 2
  LivenessBond = 1
  StateRootSyncInternal = 1
  MaxLivenessDisruptionPeriod = 1
  TimestampSlack = 0
  GenesisTime = 2
  ToPause = {TRUE, FALSE}
  Amounts = {32}
  MaxBlockId = 2
  MaxTransitionId = 1
  MaxBatch = 1
  MaxTime = 4
  ActivityHorizon = 3
  MaxEther = 32
PROPERTIES VerificationProgresses
CHECK_DEADLOCK FALSE
