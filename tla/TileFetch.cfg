SPECIFICATION Spec
CONSTANTS
  Workers = {w1, w2, w3}
  Tiles = {1}
  Blocks = 2
  MaxAddrs = 2
  MaxFd = 5
  MaxFaults = 2
  MaxCrashes = 1
SYMMETRY Symmetry
INVARIANTS
  FetchTypeOK
  PublishedWhole
  WriterKeepsName
  DescriptorsAccounted
CHECK_DEADLOCK FALSE
