SPECIFICATION Spec
CONSTANTS
  b1 = b1
  b2 = b2
  b3 = b3
  Batch = {b1, b2, b3}
  NoBatch = NoBatch
  Total <- MCTotal
  Scale = 8
  Level = {0, 1, 2}
  Width <- MCWidth
  Tile = {t1, t2}
  ThreadLimit = 2
  TasksPerThread = 1
  FrontPerThread = 1
  CreateMayFail = TRUE
  MaxFrontCount = 2
  MaxExiting = 1
SYMMETRY MCSymmetry
INVARIANTS
  TypeOK
  CountersAgree
  TaskAccounting
  QueueInOrder
  WorkIsAttended
  FrontQueueSound
CHECK_DEADLOCK FALSE
