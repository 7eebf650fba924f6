SPECIFICATION Spec
CONSTANTS
  None = None
  MaxL1Height = 3
  ProposalCounts = {0, 1}
  MaxBlocks = 2
  MaxReorgs = 1
  MaxFaults = 0
  BlocksReadPerEpoch = 3
  MaxRetrieveExponent = 1
  P2PSync = FALSE
  NodesKeepUp = TRUE
PROPERTIES CatchesUp
CHECK_DEADLOCK FALSE
