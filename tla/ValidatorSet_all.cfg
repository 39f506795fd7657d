SPECIFICATION Spec
CONSTANTS
    n1 = n1
    Validators = {v1}
    Nullifiers = {n1, n2}
    Stakers <- MCStakers
    Amount <- MCAmount
    Weights = {0, 2}
    Expiration = 2
    RestakePeriod = 1
    MaxStrikes = 2
    NaNAmount = 16
    AmountRange = 32
    MaxTxs = 2
    MaxBlocks = 4
INVARIANTS RegularCurrent PaidOnce NoneReturns
CHECK_DEADLOCK FALSE
