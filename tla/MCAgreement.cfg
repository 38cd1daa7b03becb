SPECIFICATION Spec
CONSTANTS
    n1 = n1
    n2 = n2
    n3 = n3
    n4 = n4
    b1 = b1
    b2 = b2
    b3 = b3
    b4 = b4
    EmptyHash = EmptyHash
    Genesis = Genesis
    NoProposal = NoProposal
    Nodes = {n1, n2, n3}
    Validators = {n1, n2, n3}
    Faulty = {}
    Restarting = {}
    Blocks = {b1, b2}
    Header <- TrioHeader
    Sound = {b1, b2}
    Skewed = {}
    Primary <- TrioPrimary
    Delivers <- SplitDelivers
    Hears <- SplitHears
    ValidBlocksMax = 2
    MaxHeight = 1
    MaxView = 1
INVARIANTS
    Agreement
CHECK_DEADLOCK FALSE
