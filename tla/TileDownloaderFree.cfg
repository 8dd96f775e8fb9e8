SPECIFICATION Spec
CONSTANTS
  b1 = b1
  b2 = b2
  b3 = b3
  Batch = {b1, b2}
  NoBatch = NoBatch
  Total <- MCTotal
  Scale = 8
  Level = {0, 1, 2}
  Width <- MCWidth
  Tile = {t1}
  ThreadLimit = 2
  TasksPerThread = 5
  FrontPerThread = 4
  CreateMayFail = FALSE
  MaxFrontCount = 1
  MaxExiting = 1
INVARIANT
  NoUseAfterFree
CHECK_DEADLOCK FALSE
