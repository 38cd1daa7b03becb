SPECIFICATION FairSpec
CONSTANTS
    MaxHeight = 2
    Keys <- TwoKeys
    Touches <- KeysOf
    Sender <- SenderOf
    NoSender = "nobody"
    Coinbase = "c"
    ValidatorUpdateInterval = 2
    Nobody = Nobody
    MaxCrashes = 1
INVARIANTS
    TypeOK
    AddedIsComplete
    ExactUnlessTorn
    AloneUnlessStopping
    SenderOnce
    ClosedExact
    TornOncePerCrash
PROPERTIES
    StopHeard
CHECK_DEADLOCK FALSE
