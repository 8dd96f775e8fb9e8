SPECIFICATION FairSpec
CONSTANTS
  gtk = gtk
  agps = agps
  NULL = NULL
  Main = gtk
  Issuer = {gtk, agps}
INVARIANTS
  PollTypeOK
  SessionMatchesEngine
  ExitReleases
PROPERTIES
  StopHonoured
  SuspendReturns
