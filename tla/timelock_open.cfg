SPECIFICATION TimelockSpec
CONSTANTS
  u1 = u1
  f = f
  r = r
  Users = {u1}
  NoUser = NoUser
  Forks = {f}
  GenesisFork = f
  NoHash = NoHash
  Roots = {r}
  NoRoot = NoRoot
  Tier <- SurgeTier
  MinTiers = {1}
  BlockMaxProposals = 1
  BlockRingBufferSize = 2
  MaxBlocksToVerify = 2
  LivenessBond = 1
  StateRootSyncInternal = 1
  MaxLivenessDisruptionPeriod = 1
  TimestampSlack = 0
  GenesisTime = 2
  ToPause = {FALSE}
  Amounts = {4}
  MinDelay = 1
  LivenessStreaks = {2}
  MaxBlockId = 2
  MaxTransitionId = 1
  MaxBatch = 1
  MaxTime = 6
  ActivityHorizon = 6
  MaxEther = 4
INVARIANTS GapBlocks
CHECK_DEADLOCK FALSE
