--------------------------- MODULE RedisppCommands ---------------------------
(***************************************************************************)
(* The commands of redispp::Connection by the kind of reply object that    *)
(* their methods return.  The kind decides how the answer is read.         *)
(***************************************************************************)

KeyCommands ==
    [Void   |-> {"authenticate", "rename", "select", "flushDb", "flushAll"},
     Bool   |-> {"exists", "del", "renameNX", "expire", "expireAt", "move"},
     Int    |-> {"dbSize", "ttl"},
     String |-> {"randomKey"},
     Multi  |-> {"keys"}]

StringCommands ==
    [Void   |-> {"set", "setEx"},
     Bool   |-> {"setNX"},
     Int    |-> {"incr", "incrBy", "decr", "decrBy", "append"},
     String |-> {"get", "getSet", "subStr"},
     Multi  |-> {}]

ListCommands ==
    [Void   |-> {"ltrim", "lset"},
     Bool   |-> {},
     Int    |-> {"rpush", "lpush", "llen", "lrem"},
     String |-> {"lindex", "lpop", "rpop", "rpopLpush"},
     Multi  |-> {"lrange"}]

SetCommands ==
    [Void   |-> {},
     Bool   |-> {"sadd", "srem", "smove", "sisMember"},
     Int    |-> {"scard"},
     String |-> {"spop", "srandMember"},
     Multi  |-> {"smembers"}]

HashCommands ==
    [Void   |-> {},
     Bool   |-> {"hset", "hsetNX", "hexists", "hdel"},
     Int    |-> {"hincrBy", "hlen"},
     String |-> {"hget"},
     Multi  |-> {"hkeys", "hvals", "hgetAll"}]

ServerCommands ==
    [Void   |-> {"save", "bgSave", "bgReWriteAOF"},
     Bool   |-> {},
     Int    |-> {"lastSave", "publish"},
     String |-> {"info"},
     Multi  |-> {}]

CommandsReturning(kind) ==
    UNION {area[kind] : area \in {KeyCommands, StringCommands, ListCommands,
                                  SetCommands, HashCommands, ServerCommands}}

\* Methods that write their command and return nothing: what the server
\* answers stays in the stream.
BareCommands == {"quit", "shutdown", "subscribe", "unsubscribe",
                 "psubscribe", "punsubscribe"}
=============================================================================
