SPECIFICATION Spec
CONSTANTS
    Nodes = {"A", "B"}
    Conns <- Dials
    MaxInbound = 3
    MaxQueue = 2
    FrameLimit = 2
    BlockSizes = {3, 4}
    MaxRequests = 1
    MaxPings = 1
    MaxBreaks = 1
    NoConn = NoConn
INVARIANTS
    RegistryExact
    NeverAllRefused
    RequestUnderWay
CHECK_DEADLOCK FALSE
