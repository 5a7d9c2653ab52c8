CONSTANTS
    Workers = {w1, w2}
    Main = main
    Trajectories = {0, 1}
    MaxNodes = 2
    MaxImu = 0
    NumRangeData = 1
    OptimizeEvery = 0
    Finishes = TRUE
    Free = Free
    None = None
    Idle = Idle
SPECIFICATION Spec3D
INVARIANTS CaughtUp
PROPERTIES WaitEnds
