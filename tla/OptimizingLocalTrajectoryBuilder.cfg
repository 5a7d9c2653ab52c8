CONSTANTS
    NumRangeData = 1
    MaxSubmaps = 4
    ScansPerAccumulation = 3
    OptimizeEvery = 2
    MaxTime = 4
    MaxScans = 6
SPECIFICATION Spec
INVARIANTS NeverFails
CHECK_DEADLOCK FALSE
