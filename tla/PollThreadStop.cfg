SPECIFICATION Spec
CONSTANTS
  gtk = gtk
  agps = agps
  NULL = NULL
  Main = gtk
  Issuer = {gtk, agps}
INVARIANT
  StopNeverStarts
