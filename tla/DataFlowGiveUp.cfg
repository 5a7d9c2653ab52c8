CONSTANTS
    Trajectories = {0, 1}
    Sensors = {0, 1}
    MaxTime = 2
    MaxData = 3
    None = None
    Workers = {w1, w2}
    Submaps = {s1, s2}
    Nodes = {n1}
    Callbacks = {loop_closure}
    IdleWorker = IdleWorker
    MaxScans = 2
    MaxSlots = 2
    SamplingPercent = 40
    ColoredFrame = "left"
    BrightFrames = {"right"}
    Threads = {t1, t2, t3}
    Capacities = {0, 1, 2}
    MaxPushed = 3
    MaxLength = 16
    MinNumPoints = {2, 3}
    MaxRanges = {9, 40}
    Bits = 1
    kBitsPerCoordinate = 2
    MaxProblemTime = 4
    MaxProblemData = 6
SYMMETRY Symmetry
SPECIFICATION FlowSpec
INVARIANT GivingUpKeepsCloud
CHECK_DEADLOCK FALSE
