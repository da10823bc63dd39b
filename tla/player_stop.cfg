SPECIFICATION FairSpec
CONSTANTS
    MaxFrames = 1
    MaxFails = 0
    MaxCalls = 3
PROPERTY StopReturns
CHECK_DEADLOCK FALSE
