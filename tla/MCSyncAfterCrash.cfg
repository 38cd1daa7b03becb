SPECIFICATION FairSpec
CONSTANTS
    h = h
    g = g
    f = f
    NoBlock = NoBlock
    Peers = {h, f}
    Honest = {h}
    Steady = {h}
    Returning = {h}
    PeerHeight <- AllHave
    MaxHeight = 2
    Residue = {1}
    MAX_UNFINISHED_JOBS = 1
    MAX_QUEUED_BLOCKS = 2
    MAX_PENDING_BLOCKS = 0
PROPERTIES
    ImportsBlocks
CHECK_DEADLOCK FALSE
