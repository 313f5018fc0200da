SPECIFICATION Spec
CONSTANTS
    NPROC = 4
    NPAGES = 15
    PROC_START = 13
    VIRT_END = 18
    ReservedPages = {0}
    KernelPages = {1}
    Image <- ForkImage
    BootCommands = {"fork"}
    RebootCommands = {}
    RefMax = 127
    RefcountBound = 4
    Value = {0}
    Blank = 0
    AnyEax = AnyEax
INVARIANTS
    ExitReleasesAll
