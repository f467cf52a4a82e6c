\* A destroy hook that rejects: does the process still end?
CONSTANTS
  viaRedis = viaRedis
  viaPool = viaPool
  plain = plain
  Requests <- MCRequests
  RedisUsers <- MCRedisUsers
  PoolUsers <- MCPoolUsers
  Profiles = {"typeorm"}
SPECIFICATION Spec
PROPERTY FailedCloseExits
