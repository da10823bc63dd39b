SPECIFICATION FairSpec
CONSTANTS
    MaxFrames = 1
    MaxFails = 2
    MaxCalls = 7
INVARIANTS ReadyMeansAll QuietWhileFlushing StoppedIsFresh
PROPERTIES CallsReturnUnlessLost PlayingMovesOn
CHECK_DEADLOCK FALSE
