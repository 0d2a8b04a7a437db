CONSTANTS
    Client = {c1, c2}
    Follower = {c1}
    Nobody = nobody
    MaxPictures = 2
SPECIFICATION FairSpec
INVARIANTS TypeOK PayloadIsNotOlder NothingMissed
PROPERTIES Implements
CHECK_DEADLOCK FALSE
