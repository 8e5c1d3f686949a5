SPECIFICATION TimelySpec
CONSTANTS
  n1 = n1
  n2 = n2
  n3 = n3
  n4 = n4
  Node = {n1, n2, n3}
  NoNode = NoNode
  Unset = Unset
  InitialIds = {NoNode}
  Block = {}
  NoHash = NoHash
  Topologies <- TwoPairs
  GroupIdOf <- CollidingGroupIdOf
  SplitIdOf <- MCSplitIdOf
  MaxTerm = 2
  MaxChanges = 2
  MaxMsgs = 2
  MayStop = FALSE
  Candidates = {n1}
CHECK_DEADLOCK FALSE
INVARIANTS
  EntriesResolvable
  PendingRegistered
PROPERTIES
  KeepsPromise
