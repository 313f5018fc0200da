CONSTANTS
    b1 = b1  b2 = b2  b3 = b3
    s1 = s1  s2 = s2  s3 = s3
    Address = {b1, b2, b3}
    Site = {s1, s2, s3}
    NUMBERCOUNTERS = 2
    NoSite = NoSite
    JunkCounter = 2
    NULL = NULL
    OUTSIDE = OUTSIDE
    ASTRAY = ASTRAY
    SIZE_MAX = 7
    OVERHEAD = 2
    Workloads <- MCWorkloads
SPECIFICATION Spec
INVARIANTS
    TypeOK
    
    
    StatisticsExact
    LeakReportExact
    DiagnosisExact
    NeverTooSmall
    CountsBounded
\* a program may use up its calls, or crash
CHECK_DEADLOCK FALSE
