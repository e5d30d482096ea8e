CONSTANTS
    owner = owner
    t1 = t1
    NoThread = NoThread
    NoKey = NoKey
    NoConnection = NoConnection
    Threads <- MCThreads
    Owner <- owner
    Slots <- MCSlots
    Hosts <- MCHosts
    PoolSize = 1
    NodeReplies <- MCAllReplies
    AskingReplies <- MCAllAsking
    ConnectMayFail = TRUE
    OpenBrace = "{"
    CloseBrace = "}"
    NodeSearchException = NodeSearchException
    Strings <- MCStrings
    Crc16 <- MCCrc16
SPECIFICATION CommandSpec
INVARIANTS
    BaseConnectionsReturn
PROPERTIES
    ReturnsEmptyHanded
    PoolSpec
CHECK_DEADLOCK FALSE
