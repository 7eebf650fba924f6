SPECIFICATION Spec
CONSTANTS
  u1 = u1
  u2 = u2
  f = f
  g = g
  r = r
  q = q
  Users = {u1}
  NoUser = NoUser
  Forks = {f, g}
  GenesisFork = f
  NoHash = NoHash
  Roots = {r}
  NoRoot = NoRoot
  Tier <- SurgeTier
  MinTiers = {1}
  BlockMaxProposals = 2
  BlockRingBufferSize = 3
  MaxBlocksToVerify = 4
  LivenessBond = 1
  StateRootSyncInternal = 1
  MaxLivenessDisruptionPeriod = 1
  TimestampSlack = 0
  GenesisTime = 2
  ToPause = {FALSE}
  Amounts = {4}
  MaxBlockId = 4
  MaxTransitionId = 2
  MaxBatch = 1
  MaxTime = 2
  ActivityHorizon = 2
  MaxEther = 4
INVARIANTS RingIntact VerifiedChain 
PROPERTIES ImplementsLedger
CHECK_DEADLOCK FALSE
