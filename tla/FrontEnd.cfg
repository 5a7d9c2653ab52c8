CONSTANTS
    NumRangeData = 2
    MaxSubmaps = 4
    Rigid <- MCRigid
    Turns <- MCTurns
    Identity <- MCIdentity
    Compose <- MCCompose
    InverseOf <- MCInverse
    UseImuData = TRUE
    NumOdometryStates = 1
    MaxTime = 2
    Scale = 3
    NumXCells = 3
    NumYCells = 3
    InsertFreeSpace = TRUE
    MaxReturns = 2
    MaxMisses = 1
    MaxInsertions = 2
    MaxValue = 2
    BranchAndBoundDepth = 3
    Windows = {1, 5}
    MinScores = {0, 2}
    Ids = {1, 2, 3, 4}
    MaxConnections = 1
    ScansPerAccumulation = 3
    OptimizeEvery = 2
    MaxBatchTime = 4
    MaxBatchScans = 6
    Bits = 1
    NumFreeSpaceVoxels = 2
    FullResolutionDepths = {1, 2, 3}
SPECIFICATION FrontEndSpec
INVARIANTS OldAndNew CorrectionKept GridsExact CastRayExact BestFound ConnectedByConnections BatchesExact
PROPERTIES FinishedIsFinal
CHECK_DEADLOCK FALSE
