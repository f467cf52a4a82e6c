CONSTANTS
  request1 = request1
  request2 = request2
  Requests <- MCRequests
  Clients <- MCClients
  Headers <- MCHeaders
  Proxies <- MCProxies
  TrustProxyHops = 1
  Limit = 1
  MaxWindows = 1
SPECIFICATION Spec
INVARIANTS TypeOK GaugeCountsTheHandled OneTruthfulResponse SampleShowsTheStatusSent LimitIsPerClient
PROPERTY EveryRequestEnds
CHECK_DEADLOCK FALSE
