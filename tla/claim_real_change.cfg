SPECIFICATION Spec
CONSTANTS
  Node = {0, 1, 2, 3, 4}
  self = 0
  Tables <- CollidingTables
  TOPOLOGY_TOLERANCE_TIME = 10
  StartTime = 5
  UpdateDelay = 5
  NoId = NoId
  Unset = Unset
  MaxMoves = 1
  MayStop = FALSE
CHECK_DEADLOCK FALSE
PROPERTIES
  RealChangeConfirmed
