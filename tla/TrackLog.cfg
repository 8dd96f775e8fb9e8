SPECIFICATION Spec
CONSTANTS
  Capacity = 4
  Week = 4
  MayFail = TRUE
  MaxTotal = 6
  MaxLen = 6
  MaxRows = 2
INVARIANTS
  TrackTypeOK
  WindowContiguous
  NothingLost
  FileWithinWeek
CHECK_DEADLOCK FALSE
