SPECIFICATION FairSpec
CONSTANTS
    PAGESIZE = 4
    NCACHES = 3
    WRITEPAGES = 2
    LifetimeBound = 20
    Byte255 <- NoBytes
    Jobs <- RandomJobs
    ChunkSizes = {1, 3, 5}
    InputBound = 9
PROPERTIES CopyFinishes
