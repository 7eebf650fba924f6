SPECIFICATION FairSpec
CONSTANTS
  m1 = m1
  m2 = m2
  t1 = t1
  Messages = {m1}
  Txs = {t1}
  TxOf <- One
  ZeroGas = {}
  Confirmations = 1
  BackOffMaxRetries = 1
  CrawlStart = 2
  CrawlEnd = 1
  BlockNumbers = 16
  MaxHeight = 2
  MaxCopies = 2
  MaxTroubles = 1
INVARIANTS TypeOK RowsFollowDestination NoWaste NothingLost
  
CHECK_DEADLOCK FALSE
