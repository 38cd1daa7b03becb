SPECIFICATION FairSpec
CONSTANTS
    MaxHeight = 1
    Keys <- TwoKeys
    Touches <- KeysOf
    Sender <- SenderOf
    NoSender = "nobody"
    Coinbase = "c"
    ValidatorUpdateInterval = 2
    Nobody = Nobody
    MaxCrashes = 0
PROPERTIES
    StopEnds
CHECK_DEADLOCK FALSE
