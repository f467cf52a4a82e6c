CONSTANTS
  job1 = job1
  job2 = job2
  worker1 = worker1
  worker2 = worker2
  Jobs <- MCJobs
  Workers <- MCWorkers
  Keys <- MCKeys
  Messages <- MCMessages
  DefaultAttempts = 2
  MaxStalled = 1
  Unset = Unset
SPECIFICATION Spec
INVARIANTS TypeOK KeyFollowsItsJob CountersBracketTheQueue
PROPERTIES ImplementsDelivery EveryJobSettles
CHECK_DEADLOCK FALSE
