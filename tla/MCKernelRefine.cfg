SPECIFICATION Spec
CONSTANTS
    NPROC = 3
    NPAGES = 11
    PROC_START = 9
    VIRT_END = 13
    ReservedPages = {0}
    KernelPages = {1}
    Image <- ForkImage
    BootCommands = {"fork"}
    RebootCommands = {"fork"}
    RefMax = 127
    RefcountBound = 4
    Value = {0, 1}
    Blank = 0
    AnyEax = AnyEax
PROPERTIES
    ImplementsAddressSpaces
