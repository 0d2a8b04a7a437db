CONSTANTS
    Camera = {c1, c2}
    NoCamera = NoCamera
    Reporter = {r1}
    Client = {k1}
    Supervisor = {s1, s2}
    NoTask = NoTask
    MaxFaults = 2
    MaxRequests = 3
    MaxAttempts = 1
SPECIFICATION FairSpec
CHECK_DEADLOCK FALSE
INVARIANTS
    TypeOK
    OneSupervisor
    InstallIsAttended
    SuspensionIsAttended
    DisconnectIsFinal
    NoticeHasASupervisor
PROPERTY
    DropoutEnds
