SPECIFICATION FairSpec
CONSTANTS
  g = g
  a1 = a1
  a2 = a2
  b1 = b1
  m = m
  c1 = c1
  t1 = t1
  Node = {0, 1, 2}
  self = 0
  Hash = {g, a1, a2, b1, m, c1}
  Genesis = g
  Txn = {t1}
  Groups <- TwoGroups
  InitialDags <- AllDags
  MaxBlocks = 3
  MaxChanges = 2
  MaxElections = 2
  MayStop = TRUE
CHECK_DEADLOCK FALSE
INVARIANTS
  TypeOK
  RegularBlocksComplete
  WaitedForIsRequested
  MissingBranchPursued
  MempoolIsFresh
PROPERTIES
  CreationResumes
  GrowsAsPromised
