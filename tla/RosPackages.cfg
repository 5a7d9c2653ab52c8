CONSTANTS
    NoNode = NoNode
    NoPatch = NoPatch
    Patch = {a, b}
    NumParticles = 3
    MaxHits = 1
    MaxScans = 3
    MaxBagScans = 4
    QueueSize = 2
    ThrottleScans = 1
    MapUpdateInterval = 1
    World = {1, 2, 6}
    EnlargeStep = 1
    DisplayedParticles = 2
    GuiBufferLength = 2
    MapUpdateTime = 2
    MaxReadings = 3
    DataLen = 2
    Undefined = Undefined
    MaxPairs = 5
    MaxSolves = 1
    MaxScanBeams = 8
    SegmentBeams = 2
    Width = 4
    Height = 4
    Unknown = 2
    MaxCount = 4
    MaxMapBeams = 2
SPECIFICATION PackagesSpec
INVARIANTS SharingExact ReplayInOrder ViewerTrue RowsPaired BeamsInTime
PROPERTIES FilterImplemented BeamsCounted
SYMMETRY Symmetry
CHECK_DEADLOCK FALSE
