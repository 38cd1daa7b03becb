SPECIFICATION Spec
CONSTANTS
    a = a
    b = b
    e = e
    y = y
    Accounts = {a, b, e}
    Names = {y}
    EmptyAddress = e
    None = None
    NoTx = NoTx
    NoKey = NoKey
    MinTransactionFee = 1
    MinDelegateBurn = 1
    Transactions <- Offered
    Premine <- Coins
    GenesisDelegates <- NoDelegates
    BlockReward = 1
    Coinbases = {b}
    Drifting <- MayDrift
    QUEUE_MAX_SIZE = 1
    TRANSACTIONS_MAX_SIZE = 2
    DELAYED_MAX_SIZE = 1
    PROCESSED_MAX_SIZE = 1
    MaxHeight = 2
    MaxBlockSize = 2
INVARIANTS
    TypeOK
    PoolExecutable
    ExecutedOnce
    VotesMatch
    CoinsConserved
    NamesMatch
