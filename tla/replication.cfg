SPECIFICATION Spec
CONSTANTS
  n1 = n1
  n2 = n2
  n3 = n3
  n4 = n4
  Node = {n1, n2, n3}
  NoNode = NoNode
  Unset = Unset
  InitialIds = {NoNode}
  Block = {b1}
  NoHash = NoHash
  Topologies <- NoTopologies
  GroupIdOf <- MCGroupIdOf
  SplitIdOf <- MCSplitIdOf
  MaxTerm = 1
  MaxChanges = 0
  MaxMsgs = 2
  MayStop = TRUE
  Candidates = {n1, n2, n3}
SYMMETRY Symmetry
CHECK_DEADLOCK FALSE
INVARIANTS
  TypeOK
  NoClaimBeyondCommit
  DeliveredIsCommitted
