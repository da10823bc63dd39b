SPECIFICATION FairSpec
CONSTANTS
    Callers = {c1, c2}
    Blocks = {1, 2, 3}
    Sizes = {1, 2}
    Options <- MCOptions
    MaxInits = 2
    MaxFails = 1
INVARIANTS BlocksAccounted SleepsOnlyWhenExhausted
PROPERTY UnblockedReturn
CHECK_DEADLOCK FALSE
