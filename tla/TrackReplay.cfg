SPECIFICATION Spec
CONSTANTS
  Threads = {1, 2}
  Lengths = {1, 3}
  MaxOpens = 3
  MaxLeaves = 1
  MaxClicks = 3
INVARIANTS
  ReplayTypeOK
  OneReplayer
  RecordsOutlive
  PassInOrder
  ResumeIsReal
  ViewGivenBack
PROPERTY
  PassEnds
CHECK_DEADLOCK FALSE
