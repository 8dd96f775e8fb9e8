SPECIFICATION Spec
CONSTANTS
  Capacity = 4
  Week = 5
  MayFail = FALSE
  MaxTotal = 7
  MaxLen = 7
  MaxRows = 2
INVARIANT
  HeaderCounts
CHECK_DEADLOCK FALSE
