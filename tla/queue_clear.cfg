SPECIFICATION Spec
SYMMETRY ThreadSymmetry
CONSTANTS
    Ids = {1, 2, 3}
    Threads = {t1, t2}
    Sizes = {1, 2}
    MemoryTypes = {"shared"}
    UNKNOWN_MEMORY = "unknown"
    MAX_QUEUE_SIZE = 2
    InitSize = 2
    InitType = "shared"
    Forms <- PlainForms
    disableAlloc = FALSE
    Brokers = {}
    Fillings = {"data"}
    Ops = {"attach", "cancel", "clear", "clearIf", "detach", "lateListener"}
INVARIANTS ListsConsistent HoldersExclusive
