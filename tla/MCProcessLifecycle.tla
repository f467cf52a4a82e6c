------------------------- MODULE MCProcessLifecycle -------------------------
(* ProcessLifecycle with three requests: one that needs Redis, one that      *)
(* needs the database and one that needs neither.                            *)
EXTENDS ProcessLifecycle

CONSTANTS viaRedis, viaPool, plain

MCRequests == {viaRedis, viaPool, plain}
MCRedisUsers == {viaRedis}
MCPoolUsers == {viaPool}
=============================================================================
