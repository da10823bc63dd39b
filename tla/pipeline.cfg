SPECIFICATION MCSpec
CONSTANTS
    f1 = f1
    f2 = f2
    c1 = c1
    c2 = c2
    Filters = {f1, f2}
    Async = {f1, f2}
    Callers = {c1, c2}
    MaxFails = 1
    MaxBuffers = 1
    Heads = {f1}
    Links <- PairLinks
    Ops <- CommandOps
    MaxCalls = 4
INVARIANTS
    TypeOK
    FirstFailureIsReported
    QuietUnlessUnfrozen
    FlushedIsDropped
PROPERTIES
    MixedCallsReturn
    MixedStartedRuns
CHECK_DEADLOCK FALSE
