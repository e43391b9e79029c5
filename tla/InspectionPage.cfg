SPECIFICATION FairPage
CONSTANTS
  Exchanges = {e1, e2}
  MaxItems = 2
  MaxObserved = 3
  Fetches = {f1, f2}
  NoRecord = NoRecord
  MaxClears = 1
  MaxFailures = 1
INVARIANTS
  RetainsNewest
  PageTellsTheTruth
PROPERTIES
  IDsAreNeverReused
  ImplementsCaptureLog
  PageConverges
