SPECIFICATION Spec
CONSTANTS
    n1 = n1
    n2 = n2
    n3 = n3
    n4 = n4
    b1 = b1
    b2 = b2
    b3 = b3
    b4 = b4
    EmptyHash = EmptyHash
    Genesis = Genesis
    NoProposal = NoProposal
    Nodes = {n1, n2, n3}
    Validators = {n1, n2}
    Faulty = {}
    Restarting = {n3}
    Blocks = {b1, b2, b3}
    Header <- PairHeader
    Sound = {b1, b2, b3}
    Skewed = {}
    Primary <- PairPrimary
    Delivers <- ObserverDelivers
    Hears <- AllHeard
    ValidBlocksMax = 2
    MaxHeight = 2
    MaxView = 0
INVARIANTS
    TypeOK
    BlocksCertified
PROPERTIES
    FollowsVotingRules
CHECK_DEADLOCK FALSE
