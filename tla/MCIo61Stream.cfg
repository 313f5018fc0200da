SPECIFICATION Spec
CONSTANTS
    PAGESIZE = 2
    NCACHES = 3
    WRITEPAGES = 2
    LifetimeBound = 2
    Byte255 <- NoBytes
    Inputs <- Files
    Sizes = {1, 2, 3}
    Positions = {0, 1, 2, 3, 4, 5, 7}
    Blocks <- Data
    InputBound = 5
    OutputBound = 5
INVARIANTS TypeOK CachesTruthful NoReadFromFreedBuffer
PROPERTIES ImplementsByteStream
CHECK_DEADLOCK FALSE
