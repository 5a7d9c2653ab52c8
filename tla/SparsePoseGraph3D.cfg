CONSTANTS
    Workers = {w1, w2}
    Main = main
    Trajectories = {0}
    MaxNodes = 6
    MaxImu = 1
    NumRangeData = 2
    OptimizeEvery = 1
    Finishes = FALSE
    Free = Free
    None = None
    Idle = Idle
SPECIFICATION Spec3D
SYMMETRY Symmetry
INVARIANTS TypeOK NoCheckFails ItemsInOrder MatchedOnce MatcherInputFinal
PROPERTIES SolveUndisturbed
