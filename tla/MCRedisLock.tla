---------------------------- MODULE MCRedisLock ----------------------------
(* Instances of RedisLock.  The unit of time is 180 s, so that the times of  *)
(* the widget lock are whole: TTL 1800, limits 900 and 1080.                 *)
EXTENDS RedisLock

CONSTANTS t1, t2, t3

ThreeTasks == {t1, t2, t3}
=============================================================================
