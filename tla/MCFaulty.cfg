SPECIFICATION Spec
CONSTANTS
    n1 = n1
    n2 = n2
    n3 = n3
    n4 = n4
    b1 = b1
    b2 = b2
    b3 = b3
    b4 = b4
    EmptyHash = EmptyHash
    Genesis = Genesis
    NoProposal = NoProposal
    Nodes = {n1, n2, n3, n4}
    Validators = {n1, n2, n3, n4}
    Faulty = {n4}
    Restarting = {}
    Blocks = {b1, b3, b4}
    Header <- FourHeader
    Sound = {b1, b3, b4}
    Skewed = {}
    Primary <- FourPrimary
    Delivers <- FaultyDelivers
    Hears <- AllHeard
    ValidBlocksMax = 1
    MaxHeight = 1
    MaxView = 1
INVARIANTS
    ViewsUnlocked
CONSTRAINT FaultyIdle
PROPERTIES
    FollowsVotingRules
CHECK_DEADLOCK FALSE
