CONSTANTS
    MaxCaptures = 1
    MaxLoops = 2
    MaxFrames = 2
    MaxSession = 0
    SerSession = {}
    MaxQueue = 2
    MaxFaults = 2
SPECIFICATION Spec
CHECK_DEADLOCK FALSE
INVARIANTS
    SyncedMeansDurable
    NoVerdictOverASavingCamera
