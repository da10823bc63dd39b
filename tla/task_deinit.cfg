SPECIFICATION FairSpec
CONSTANTS
    c1 = c1
    c2 = c2
    t1 = t1
    t2 = t2
    Tasks = {t1}
    SingleLoops = {}
    Callers = {c1, c2}
    Singleton = TRUE
    Ops <- DestroyOps
    JobOps = {"pause", "stop"}
    Delays = {2}
    ADJUST_US = 1
    US_PER_MS = 2
    Horizon = 0
    MaxJobs = 2
    MaxCalls = 2
INVARIANT Attentive
INVARIANT DestroyedIsDead
PROPERTY CallsReturn
PROPERTY RepliesArrive
CHECK_DEADLOCK FALSE
