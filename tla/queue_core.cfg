SPECIFICATION Spec
SYMMETRY BrokerSymmetry
CONSTANTS
    Ids = {1, 2, 3}
    Threads = {t1, t2}
    Sizes = {1}
    MemoryTypes = {"shared"}
    UNKNOWN_MEMORY = "unknown"
    MAX_QUEUE_SIZE = 2
    InitSize = 2
    InitType = "shared"
    Forms <- PlainForms
    disableAlloc = FALSE
    Brokers = {b1, b2}
    Fillings = {"data"}
    Ops = {"attach", "attachFilled", "cancel", "detach", "resize", "allocFail", "waitForever", "waitTimed"}
INVARIANTS TypeOK ListsConsistent OwnersAgree Announced
PROPERTIES GrowsWithinSize ImplementsExchange
