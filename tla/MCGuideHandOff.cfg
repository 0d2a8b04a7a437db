CONSTANTS
    Handle = {h1, h2}
    NoHandle = NoHandle
    Monitor = {m1, m2}
    Loop = {l1, l2}
    Client = {k1}
    NoTask = NoTask
    MaxFaults = 1
    MaxRequests = 4
SPECIFICATION Spec
SYMMETRY Symmetric
CHECK_DEADLOCK FALSE
INVARIANTS
    TypeOK
    ConnectedCameraIsReachable
    DisconnectedCameraIsClosed
    NoLoopAwaitsItself
PROPERTY
    LiveDeviceIsKept
