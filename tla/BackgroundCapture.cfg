SPECIFICATION Spec
CONSTANTS
  r1 = r1
  r2 = r2
  p1 = p1
  m1 = m1
  k1 = k1
  k2 = k2
  NoBody = NoBody
  Requests <- MCRequests
  Mocks <- MCMocks
  Replays <- MCReplays
  Keys <- MCKeys
  KeyOf <- MCKeyOf
  RedirectTo <- MCRedirectTo
  MaxCaptured = 2
  PendingLimit = 1
  MaxExchanges = 2
  MaxHandlers = 2
  MaxUpsets = 1
INVARIANTS
  RecordsTellOwnEvents
  QuietListIsComplete
CHECK_DEADLOCK FALSE
