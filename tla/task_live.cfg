SPECIFICATION FairSpec
CONSTANTS
    c1 = c1
    c2 = c2
    t1 = t1
    t2 = t2
    Tasks = {t1, t2}
    SingleLoops = {t2}
    Callers = {c1, c2}
    Singleton = FALSE
    Ops <- LiveOps
    JobOps = {}
    Delays = {1}
    ADJUST_US = 1
    US_PER_MS = 2
    Horizon = 0
    MaxJobs = 2
    MaxCalls = 2
PROPERTY JobsRun
PROPERTY MessagesRunUnlessHalted
PROPERTY LoopsRun
