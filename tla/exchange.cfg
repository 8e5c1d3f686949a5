SPECIFICATION FairSpec
CONSTANTS
  g = g
  a = a
  x1 = x1
  x2 = x2
  m = m
  Node = {0, 1}
  Hash = {g, a, x1, x2, m}
  Genesis = g
  Txn = {1, 2}
  InitialNetworks <- BothNetworks
  LossyTypes <- Lossy
  MaxBlocks = 5
  MaxFaults = 1
CHECK_DEADLOCK FALSE
INVARIANTS
  TypeOK
  MissingIsHeld
  TransactionsKept
PROPERTIES
  EveryBranchAsked
  HistoryRecovered
  TransactionsSpread
