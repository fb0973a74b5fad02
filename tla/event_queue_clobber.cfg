SPECIFICATION Spec
CONSTANTS
  b1 = b1
  b2 = b2
  rx = rx
  TASK_QUEUE_SIZE = 3
  Blocks <- MCBlocks
  Types <- MCTypes
  CHECKER = CHECKER
  NoData = NoData
  Idle = Idle
  STEP = 2
  SECOND = 4
  MaxPosts = 2
PROPERTIES
  HandledDataReleased
CHECK_DEADLOCK TRUE
