CONSTANTS
    w1 = w1
    w2 = w2
    s1 = s1
    s2 = s2
    v1 = v1
    v2 = v2
    Empty = Empty
    Scalar = Scalar
    NoChild = NoChild
    NoId = NoId
    Absent = Absent
    NoWorker = NoWorker
    NoData = NoData
    Workers <- MCWorkers
    Keys <- MCKeys
    Values <- MCValues
    Batches <- MCBatches
    FaultModes <- MCErrors
    MaxRequests = 1
SPECIFICATION SessionSpec
PROPERTY SuccessMeansStored
CHECK_DEADLOCK FALSE
