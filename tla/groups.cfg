SPECIFICATION FairSpec
CONSTANTS
  Node = {0, 1, 2}
  self = 0
  Tables <- AllTables
  TOPOLOGY_TOLERANCE_TIME = 10
  StartTime = 5
  UpdateDelay = 5
  NoId = NoId
  Unset = Unset
  MaxMoves = 4
  MayStop = TRUE
CHECK_DEADLOCK FALSE
INVARIANTS
  TypeOK
PROPERTIES
  GroupFollowsTable
  BlockgraphFollowsGroup
  OnlyLastGroupConfirmed
  SmallChangesWait
  ConfirmsStableGroups
