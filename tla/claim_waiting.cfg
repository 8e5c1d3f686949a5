SPECIFICATION Spec
CONSTANTS
  g = g
  a1 = a1
  a2 = a2
  b1 = b1
  m = m
  c1 = c1
  t1 = t1
  Node = {0, 1, 2}
  self = 0
  Hash = {g, a1, a2, b1, m, c1}
  Genesis = g
  Txn = {t1}
  Groups <- TwoGroups
  InitialDags <- OnlyJoined
  MaxBlocks = 0
  MaxChanges = 0
  MaxElections = 0
  MayStop = FALSE
CHECK_DEADLOCK FALSE
INVARIANTS
  NothingReadyWaits
