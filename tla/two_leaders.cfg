SPECIFICATION Spec
CONSTANTS
  n1 = n1
  n2 = n2
  n3 = n3
  n4 = n4
  Node = {n1, n2}
  NoNode = NoNode
  Unset = Unset
  InitialIds = {Unset}
  Block = {b1, b2}
  NoHash = NoHash
  Topologies <- NoTopologies
  GroupIdOf <- MCGroupIdOf
  SplitIdOf <- MCSplitIdOf
  MaxTerm = 2
  MaxChanges = 0
  MaxMsgs = 2
  MayStop = FALSE
  Candidates = {n1, n2}
SYMMETRY Symmetry
CHECK_DEADLOCK FALSE
INVARIANTS
  RoleMatchesVote
  CommitIndexInLog
  FirstTermAgreement
  DeliveredOnce
PROPERTIES
  CommittedStable
  KeepsPromise
