\* Are drained requests answered from the dependencies they were accepted with?
CONSTANTS
  viaRedis = viaRedis
  viaPool = viaPool
  plain = plain
  Requests <- MCRequests
  RedisUsers <- MCRedisUsers
  PoolUsers <- MCPoolUsers
  Profiles = {"typeorm"}
SPECIFICATION Spec
INVARIANT DrainKeepsDependencies
