CONSTANTS
    w1 = w1
    w2 = w2
    area = area
    tax = tax
    i1 = i1
    i2 = i2
    v1 = v1
    v2 = v2
    NoId = NoId
    Absent = Absent
    NoWorker = NoWorker
    NoData = NoData
    Workers <- MCWorkers
    Titles <- MCTitles
    AreaTitle <- area
    Ids <- MCIds
    Keys <- MCKeys
    Values <- MCValues
    Batches <- MCBatches
    FaultModes <- MCNone
    SlotMoves = TRUE
    MaxRequests = 2
SYMMETRY MCSymmetry
SPECIFICATION MasterSpec
PROPERTY KeywordsReachAll
CHECK_DEADLOCK FALSE
