CONSTANTS
    MaxCaptures = 2
    MaxLoops = 0
    MaxFrames = 1
    MaxSession = 2
    SerSession = {1, 2}
    MaxQueue = 2
    MaxFaults = 0
SPECIFICATION Spec
CHECK_DEADLOCK FALSE
PROPERTY
    EndedFolderIsKept
