SPECIFICATION Spec
CONSTANTS
  L1 = L1
  L2 = L2
  L3 = L3
  Chains = {L1, L2}
  QuotaChains = {L1}
  Quotas = {2}
  QuotaPeriods = {1, 2}
  MaxTime = 3
  Links <- TwoChains
  Bodies <- OneBody
  Supply <- SupplyOf
  Premint <- DepositedOf
  MaxMessages = 2
INVARIANTS TypeOK OutflowWithinQuota
CHECK_DEADLOCK FALSE
