SPECIFICATION FairSpec
CONSTANTS
  Hosts = {h1, h2}
  NoMITMHosts = {h2}
  HalfClose = TRUE
  MaxBytes = 2
CHECK_DEADLOCK FALSE
INVARIANTS
  FirstToCloseIsHeard
PROPERTIES
  NothingStaysBehind
