SPECIFICATION TimelySpec
CONSTANTS
  n1 = n1
  n2 = n2
  n3 = n3
  n4 = n4
  Node = {n1, n2, n3}
  NoNode = NoNode
  Unset = Unset
  InitialIds = {NoNode}
  Block = {b1}
  NoHash = NoHash
  Topologies <- NoTopologies
  GroupIdOf <- MCGroupIdOf
  SplitIdOf <- MCSplitIdOf
  MaxTerm = 1
  MaxChanges = 0
  MaxMsgs = 1
  MayStop = FALSE
  Candidates = {n1}
CHECK_DEADLOCK FALSE
INVARIANTS
  CommittedIsReplicated
