SPECIFICATION Spec
SYMMETRY ThreadSymmetry
CONSTANTS
    Ids = {1, 2, 3}
    Threads = {t1, t2}
    Sizes = {2, 3}
    MemoryTypes = {"shared", "surface"}
    UNKNOWN_MEMORY = "unknown"
    MAX_QUEUE_SIZE = 2
    InitSize = 2
    InitType = "unknown"
    Forms <- MixedForms
    disableAlloc = FALSE
    Brokers = {}
    Fillings = {"data", "empty"}
    Ops = {"attach", "attachFilled", "allocFail"}
INVARIANTS MemoryAccounted FreeSorted OneMemoryType RequestFits
