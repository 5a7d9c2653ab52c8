CONSTANTS
    MaxScans = 4
    QueueSize = 2
    ThrottleScans = 1
    MapUpdateInterval = 1
    World = {1, 2, 6}
    EnlargeStep = 1
    xmin = 1
    xmax = 2
SPECIFICATION Spec
INVARIANTS DrawnInside
CHECK_DEADLOCK FALSE
