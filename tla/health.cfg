CONSTANTS
  http1 = http1
  scrape1 = scrape1
  scrape2 = scrape2
  Indicators <- MCIndicators
  HttpChecks <- MCHttpChecks
  Scrapes <- MCScrapes
  Mixes <- MCMixes
  QueueGauges <- MCQueueGauges
  RedisEnabled = TRUE
  HeapThreshold = 1
  MaxChanges = 1
SPECIFICATION Spec
INVARIANTS TypeOK HealthyMeansEachWasSound UnhealthyHasACause ScrapeShowsOneCheck ExposedValueHasEvidence
PROPERTY ChecksAreIndependent
