CONSTANTS
    Workers = {w1, w2}
    Main = main
    Trajectories = {0}
    MaxNodes = 3
    MaxImu = 0
    NumRangeData = 1
    OptimizeEvery = 1
    Finishes = TRUE
    Free = Free
    None = None
    Idle = Idle
SPECIFICATION Spec
INVARIANT NoCheckFails
