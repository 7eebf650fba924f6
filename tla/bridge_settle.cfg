SPECIFICATION FairSpec
CONSTANTS
  L1 = L1
  L2 = L2
  L3 = L3
  Chains = {L1, L2, L3}
  QuotaChains = {L1}
  Quotas = {}
  QuotaPeriods = {2}
  MaxTime = 1
  Links <- ThreeChains
  Bodies <- ThreeBodies
  Supply <- SupplyOf
  Premint <- MovedOf
  MaxMessages = 1
INVARIANTS EtherConserved
PROPERTIES ImplementsSettlement MessagesSettle
CHECK_DEADLOCK FALSE
