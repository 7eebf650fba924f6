SPECIFICATION Spec
CONSTANTS
  u1 = u1
  u2 = u2
  f = f
  g = g
  r = r
  q = q
  Users = {u1}
  NoUser = NoUser
  Forks = {f, g}
  GenesisFork = f
  NoHash = NoHash
  Roots = {r}
  NoRoot = NoRoot
  Tier <- TwoTiers
  MinTiers = {1}
  BlockMaxProposals = 1
  BlockRingBufferSize = 2
  MaxBlocksToVerify = 2
  LivenessBond = 2
  StateRootSyncInternal = 1
  MaxLivenessDisruptionPeriod = 1
  TimestampSlack = 0
  GenesisTime = 2
  ToPause = {FALSE}
  Amounts = {48}
  MaxBlockId = 1
  MaxTransitionId = 2
  MaxBatch = 1
  MaxTime = 3
  ActivityHorizon = 3
  MaxEther = 96
PROPERTIES VerifiedAtIsVerification
CHECK_DEADLOCK FALSE
