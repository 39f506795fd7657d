SPECIFICATION Spec
CONSTANTS
    Users = {"alice"}
    Nobody = "nobody"
    MaxTip = 3
    Txs <- MCTxs
    BlockOf <- MCBlockOf
    NumOutputs <- MCNumOutputs
    TxOf <- MCTxOf
    Spends <- MCSpends
    Owner <- MCOwner
    MaxRestarts = 2
    MaxRescans = 1
CONSTRAINT Unspoiled
INVARIANTS AccumulatorExact ProofsExact WalletComplete
CHECK_DEADLOCK FALSE
