CONSTANTS
    owner = owner
    t1 = t1
    t2 = t2
    NoThread = NoThread
    NoKey = NoKey
    NoConnection = NoConnection
    Threads <- MCThreads
    Owner <- owner
    Slots <- MCSlots
    Hosts <- MCHosts
    PoolSize = 2
SYMMETRY MCSymmetry
SPECIFICATION PoolSpec
INVARIANTS
    TypeOK
    ConnectionsAccounted
    NoLostWakeup
    DeletedPoolsUnused
    LeakBlocksDisconnect
PROPERTY ImplementsAllocator
CHECK_DEADLOCK FALSE
