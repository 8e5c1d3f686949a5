SPECIFICATION TimelySpec
CONSTANTS
  n1 = n1
  n2 = n2
  n3 = n3
  n4 = n4
  Node = {n1, n2, n3, n4}
  NoNode = NoNode
  Unset = Unset
  InitialIds = {NoNode}
  Block = {b1, b2}
  NoHash = NoHash
  Topologies <- OneOfThreeLeaves
  GroupIdOf <- MCGroupIdOf
  SplitIdOf <- MCSplitIdOf
  MaxTerm = 1
  MaxChanges = 1
  MaxMsgs = 1
  MayStop = FALSE
  Candidates = {n1}
CHECK_DEADLOCK FALSE
PROPERTIES
  ConfigurationNeedsUnanimity
