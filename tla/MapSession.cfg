SPECIFICATION Spec
CONSTANTS
  wide = wide
  narrow = narrow
  Maps = {wide, narrow}
  NoMap = NoMap
  LastMap = wide
  MinZoom <- MCMinZoom
  MaxZoom <- MCMaxZoom
  Requests = {r1}
  MaxBatches = 1
  MaxActs = 3
INVARIANTS
  MapTypeOK
  LockOwnsView
  MenuClosedInContext
  CacheOfLayer
PROPERTIES
  ZoomLeavesRange
  LockKeepsMouse
  MarksHold
CHECK_DEADLOCK FALSE
