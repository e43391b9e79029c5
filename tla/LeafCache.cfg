SPECIFICATION LeafSpec
CONSTANTS
  Procs = {p1, p2}
  Overlapping = FALSE
  MaxStarts = 4
  Hosts = {h1, h2}
  NoHost = NoHost
  Validity = 1
  MaxTime = 2
CHECK_DEADLOCK FALSE
INVARIANTS
  ServedLeavesAreTrusted
PROPERTIES
  YoungRunsServeValidLeaves
