CONSTANTS
    MaxCaptures = 2
    MaxLoops = 0
    MaxFrames = 2
    MaxSession = 2
    SerSession = {1, 2}
    MaxQueue = 2
    MaxFaults = 1
SPECIFICATION Spec
CHECK_DEADLOCK FALSE
INVARIANTS
    TypeOK
    NothingIsForgotten
    OneFolderPerContainer
PROPERTY
    SyncSettles
    KeepsItsPromise
