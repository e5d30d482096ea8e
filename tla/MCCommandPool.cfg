CONSTANTS
    owner = owner
    t1 = t1
    t2 = t2
    t3 = t3
    NoThread = NoThread
    NoKey = NoKey
    NoConnection = NoConnection
    Threads <- MCThreads
    Owner <- owner
    Slots <- MCSlots
    Hosts <- MCHosts
    PoolSize = 2
    NodeReplies <- MCHealthyReplies
    AskingReplies <- MCHealthyAsking
    ConnectMayFail = FALSE
SPECIFICATION CommandPoolSpec
INVARIANTS
    CommandPoolTypeOK
    NobodyInDeletedPool
    NoNullDereference
    SleepersWaitForSomebody
    DeletedClusterIsEmpty
PROPERTY PoolRunsToTheEnd
CHECK_DEADLOCK FALSE
