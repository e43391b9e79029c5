SPECIFICATION FairSpec
CONSTANTS
  MaxRequests = 3
  MaxBody = 1
  HeadPieces = 2
  MaxStray = 3
CHECK_DEADLOCK FALSE
INVARIANTS
  ExchangesMatch
PROPERTIES
  PatientClientIsAnswered
