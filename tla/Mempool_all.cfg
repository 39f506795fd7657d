SPECIFICATION FairSpec
CONSTANTS
    n1 = n1
    n2 = n2
    n3 = n3
    v1 = v1
    r0 = r0
    Txs <- MCAll
    Kind <- MCKind
    Nullifiers = {n1, n2, n3}
    Nulls <- MCNulls
    Validators = {v1}
    Owner <- MCOwner
    Amount <- MCAmount
    Roots = {r0}
    RootOf <- MCRootOf
    Whitelist <- MCAll
    Policy <- MCAll
    InitStaked <- MCStaked
    InitBalance = 2
    Reward = 1
    MaxEpochs = 1
    MaxPending = 2
    AmountRange = 16
INVARIANTS NoConflictInPool SpentIsLeaving Indexed Minable
PROPERTY PoolDrains
CHECK_DEADLOCK FALSE
