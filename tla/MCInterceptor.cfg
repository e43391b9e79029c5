SPECIFICATION SystemSpec
CONSTANTS
  Reqs = {g1, g2}
  Wildcard = Wildcard
  Absent = Absent
  Nothing = Nothing
  x = x
  location = location
  v1 = v1
  HeaderNames = {x, location, length, encoding, ctype, nosniff}
  HeaderValues <- MCHeaderValues
  HopByHop = {}
  Location = location
  ContentLength = length
  TransferEncoding = encoding
  ContentType = ctype
  NoSniff = nosniff
  Generated = Generated
  Itoa <- MCItoa
  Resolve <- MCResolve
  MaxCaptured = 1
  MaxBody = 0
  RuleLists <- MCRuleLists
  Requests <- MCRequests
  OriginHeaders <- MCOriginHeaders
  MaxItems = 1
  MaxClears = 1
SYMMETRY AnyOrder
CHECK_DEADLOCK FALSE
INVARIANTS
  EveryReportIsCaptured
  AnsweredTunnelRequestIsListed
