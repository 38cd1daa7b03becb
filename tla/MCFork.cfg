SPECIFICATION Spec
CONSTANTS
    ActivationBlocks = 2
    ActivationBlocksLookup = 3
    ActivationDeadline = 5
    Checkpoint = 0
    MaxHeight = 6
INVARIANTS
    TypeOK
    MemoryExact
    AnswersByChain
    SignalsUntilActivated
