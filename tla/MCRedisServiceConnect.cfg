CONSTANTS
    owner = owner
    t1 = t1
    t2 = t2
    NoThread = NoThread
    NoKey = NoKey
    NoConnection = NoConnection
    Threads <- MCThreads
    Owner <- owner
    Slots <- MCSlots
    Hosts <- MCHosts
    PoolSize = 2
    NodeReplies <- MCAskReplies
    AskingReplies <- MCHealthyAsking
    ConnectMayFail = TRUE
    MaxRequests = 2
    MaxCommands = 2
SPECIFICATION ServiceSpec
INVARIANT WaitersHaveAHolder
CHECK_DEADLOCK FALSE
