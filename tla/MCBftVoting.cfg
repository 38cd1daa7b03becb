SPECIFICATION Spec
CONSTANTS
    v1 = v1
    v2 = v2
    v3 = v3
    v4 = v4
    b0 = b0
    b1 = b1
    EmptyHash = EmptyHash
    Nodes <- MCNodes
    Validators <- MCNodes
    Faulty = {v4}
    Restarting = {}
    Blocks <- MCBlocks
    MaxHeight = 1
    MaxView = 1
INVARIANTS
    TypeOK
    ViewAgreement
    UnlockedViews
    AgreementUnlessRevoted
CONSTRAINT FewVotes
SYMMETRY Symmetry
CHECK_DEADLOCK FALSE
