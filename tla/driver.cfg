SPECIFICATION Spec
CONSTANTS
  None = None
  MaxL1Height = 3
  ProposalCounts = {0, 2}
  MaxBlocks = 3
  MaxReorgs = 1
  MaxFaults = 1
  BlocksReadPerEpoch = 2
  MaxRetrieveExponent = 1
  P2PSync = TRUE
  NodesKeepUp = FALSE
INVARIANTS TypeOK
PROPERTIES OneHistory ResetLosesNothing
CHECK_DEADLOCK FALSE
