\* The TypeORM profile: the pool is closed after the drain.
CONSTANTS
  viaRedis = viaRedis
  viaPool = viaPool
  plain = plain
  Requests <- MCRequests
  RedisUsers <- MCRedisUsers
  PoolUsers <- MCPoolUsers
  Profiles = {"typeorm", "mikroorm", "drizzle"}
SPECIFICATION Spec
INVARIANTS TypeOK CloseOnce CleanExitMeansCleanClose FinalLineFlushed PoolOutlivesDrain
PROPERTIES BackstopSparesSettledClose CloseIsBounded CleanShutdownExits
