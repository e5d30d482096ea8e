--------------------------- MODULE MCRedisService ---------------------------
(* Workers behind lockRedis: two workers, small pools.                      *)
EXTENDS RedisService

CONSTANTS owner, t1, t2

MCThreads == {owner, t1, t2}
MCSlots == {1}
MCHosts == {2}
MCAllReplies == {"ok", "error", "ask", "moved", "clusterdown", "lost"}
MCAllAsking == {"ok", "error", "lost"}
MCHealthyAsking == {"ok"}
MCAskReplies == {"ok", "ask"}
=============================================================================
