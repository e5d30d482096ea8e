CONSTANTS
    owner = owner
    t1 = t1
    t2 = t2
    NoThread = NoThread
    NoKey = NoKey
    NoConnection = NoConnection
    Threads <- MCThreads
    Owner <- owner
    Slots <- MCSlots
    Hosts <- MCHosts
    PoolSize = 2
    NodeReplies <- MCAllReplies
    AskingReplies <- MCAllAsking
    ConnectMayFail = TRUE
    MaxRequests = 2
    MaxCommands = 2
SPECIFICATION ServiceSpec
INVARIANTS
    ServiceTypeOK
    OneWorkerAtATime
    SlotPoolNeverDry
PROPERTY RequestsAreServed
CHECK_DEADLOCK FALSE
