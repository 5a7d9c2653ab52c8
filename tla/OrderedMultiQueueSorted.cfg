CONSTANTS
    Trajectories = {0, 1}
    Sensors = {0, 1}
    MaxTime = 2
    MaxData = 3
    None = None
SPECIFICATION SpecSorted
INVARIANTS NoCheckFails
