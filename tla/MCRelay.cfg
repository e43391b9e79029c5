SPECIFICATION FairSpec
CONSTANTS
  Reqs = {g1}
  Wildcard = Wildcard
  Absent = Absent
  x = x
  up = up
  v1 = v1
  v2 = v2
  post = post
  joined = joined
  ContentLength = length
  TransferEncoding = encoding
  ContentType = ctype
  NoSniff = nosniff
  Generated = Generated
  Itoa <- MCItoa
  Resolve <- MCResolve
  HeaderNames = {x, up, location, length, encoding, ctype, nosniff}
  HopByHop = {up}
  Location = location
  Nothing = Nothing
  MaxCaptured = 1
  MaxBody = 2
  RuleLists <- MCRuleLists
  Requests <- MCRequests
  OriginHeaders <- MCOriginHeaders
CHECK_DEADLOCK FALSE
INVARIANTS
  TypeOK
  ReportedExactlyOnce
  TunnelAnswersAreReportedFirst
  CaptureTellsTheExchange
  LastRewriteWins
PROPERTIES
  GoneClientIsReleased
  EveryRequestReturns
