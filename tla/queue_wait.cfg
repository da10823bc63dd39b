SPECIFICATION FairSpec
CONSTANTS
    Ids = {1, 2}
    Threads = {t1, t2}
    Sizes = {1}
    MemoryTypes = {"shared"}
    UNKNOWN_MEMORY = "unknown"
    MAX_QUEUE_SIZE = 2
    InitSize = 2
    InitType = "shared"
    Forms <- PlainForms
    disableAlloc = FALSE
    Brokers = {}
    Fillings = {"data"}
    Ops = {"attach", "cancel", "clear", "waitForever", "waitTimed"}
INVARIANTS BlockedOnlyWhenFull
PROPERTIES BlockedIsServed PushedMovesOn
