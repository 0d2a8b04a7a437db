CONSTANTS
    Lease = {h1, h2, h3}
    Index = {0}
    Device = {d1}
    NoDevice = NoDevice
    Zwo = {}
    PlayerOne = {0}
SPECIFICATION ShimSpec
CHECK_DEADLOCK FALSE
INVARIANT HandleInUseIsOpen
