SPECIFICATION FairSpec
CONSTANTS
    PAGESIZE = 4
    NCACHES = 3
    WRITEPAGES = 2
    LifetimeBound = 20
    Byte255 <- Byte13
    Jobs <- CopyJobs
    ChunkSizes = {1, 3, 5}
    InputBound = 9
INVARIANTS CopyExact
 
