SPECIFICATION Spec
CONSTANT MaxFaults = 2
INVARIANTS
  UbxTypeOK
  ConfiguredWhilePolling
  CleanPollIsWhole
PROPERTIES
  AckMeansExecuted
  PollsGoOn
CHECK_DEADLOCK FALSE
