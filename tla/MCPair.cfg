SPECIFICATION Spec
CONSTANTS
    n1 = n1
    n2 = n2
    n3 = n3
    n4 = n4
    b1 = b1
    b2 = b2
    b3 = b3
    b4 = b4
    EmptyHash = EmptyHash
    Genesis = Genesis
    NoProposal = NoProposal
    Nodes = {n1, n2}
    Validators = {n1, n2}
    Faulty = {}
    Restarting = {}
    Blocks = {b1, b2, b3}
    Header <- PairHeader
    Sound = {b1, b2, b3}
    Skewed = {n2}
    Primary <- PairPrimary
    Delivers <- AllDelivered
    Hears <- AllHeard
    ValidBlocksMax = 1
    MaxHeight = 1
    MaxView = 1
INVARIANTS
    HoldsCurrent
    NoWrongBlock
    HeightFollowsChain
PROPERTIES
    NeverGoesBack
CHECK_DEADLOCK FALSE
