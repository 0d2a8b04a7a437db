CONSTANTS
    Lease = {h1, h2, h3, h4}
    Index = {0, 1}
    Device = {d1}
    NoDevice = NoDevice
    Zwo = {0}
    PlayerOne = {1}
SYMMETRY Handles
SPECIFICATION ShimSpec
CHECK_DEADLOCK FALSE
INVARIANTS
    OneClosePerLease
    OpenTellsTheNewestHandle
    OwnersAreExclusive
    ShimTypeOK
    NoCloseOfAFreedPointer
    NothingIsLeftOpen
