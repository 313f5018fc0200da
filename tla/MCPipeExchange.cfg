SPECIFICATION FairSpec
CONSTANTS
    PAGESIZE = 4
    NCACHES = 2
    WRITEPAGES = 2
    LifetimeBound = 1
    Byte255 <- NoBytes
    messages <- Phases
PROPERTIES ExchangeEnds
CHECK_DEADLOCK FALSE
