SPECIFICATION FairSpec
CONSTANTS
    h = h
    g = g
    f = f
    NoBlock = NoBlock
    Peers = {h, g, f}
    Honest = {h, g}
    Steady = {h}
    Returning = {h, g}
    PeerHeight <- OneBehind
    MaxHeight = 3
    Residue = {}
    MAX_UNFINISHED_JOBS = 1
    MAX_QUEUED_BLOCKS = 2
    MAX_PENDING_BLOCKS = 0
INVARIANTS
    TypeOK
    NothingLost
    OnePlace
    QueuesBounded
PROPERTIES
    HonestNeverBlamed
    SyncEnds
CHECK_DEADLOCK FALSE
