\* REDIS_ENABLED=false: all five indicators, one health request.
CONSTANTS
  http1 = http1
  scrape1 = scrape1
  scrape2 = scrape2
  Indicators <- Keys
  HttpChecks <- MCHttpChecks
  Scrapes = {}
  Mixes <- MCSingly
  QueueGauges = {}
  RedisEnabled = FALSE
  HeapThreshold = 1
  MaxChanges = 1
SPECIFICATION Spec
INVARIANT UnhealthyHasACause
