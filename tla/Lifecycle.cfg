SPECIFICATION FairMainSpec
CONSTANTS
  Requests = {r1, r2, r3}
CHECK_DEADLOCK FALSE
PROPERTIES
  ServedRequestsAreWaitedFor
  StopsInTheEnd
