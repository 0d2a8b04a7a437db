CONSTANTS
    Camera = {c1, c2}
    NoCamera = NoCamera
    Reporter = {r1}
    Client = {k1}
    Supervisor = {s1}
    NoTask = NoTask
    MaxFaults = 1
    MaxRequests = 3
    MaxAttempts = 1
SPECIFICATION Spec
CHECK_DEADLOCK FALSE
INVARIANT EverySuspensionIsAttended
