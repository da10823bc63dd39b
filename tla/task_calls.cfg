SPECIFICATION Spec
CONSTANTS
    t1 = t1
    t2 = t2
    c1 = c1
    c2 = c2
    Tasks = {t1, t2}
    SingleLoops = {t2}
    Callers = {c1, c2}
    Singleton = FALSE
    Ops <- AllOps
    JobOps = {"start", "submit"}
    Delays = {0, 2}
    ADJUST_US = 1
    US_PER_MS = 2
    Horizon = 0
    MaxJobs = 2
    MaxCalls = 2
SYMMETRY CallerSymmetry
INVARIANT TypeOK
INVARIANT NothingLost
INVARIANT NeverEarly
INVARIANT PausedIsQuiet
