CONSTANTS
    NClusters = 3
    SectorUnits = 2
    NoData <- MCNoData
    MaxOpenFiles = 2
    NumFds = 1
    DirentBuffer = 5
    KernelLen <- MCKernelLen
    UserLen <- MCUserLen
    UserCounts = {2, 3, 7}
    DataFiles = {"log"}
    Values <- MCValues
    OpenFlags <- MCOpenFlags
    Apps = {a1, a2}
    a1 = a1
    a2 = a2
    Modes = {m1, m2}
    m1 = m1
    m2 = m2
    OldMode = m0
    DefaultMode = mDefault
    InitialDisk <- MCInitialDisk
    SeekTargets = {0, 3}
    MaxCalls = 3
    MaxCuts = 2
SYMMETRY AppSymmetry
SPECIFICATION Spec
INVARIANTS VolumeSound ClosedIsDurable ReadsOwnWrites HandlesSound
PROPERTY BootsSavedMode
CHECK_DEADLOCK FALSE
