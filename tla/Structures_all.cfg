SPECIFICATION StructuresSpec
CONSTANTS
    Keys <- MCKeys
    Values = {1, 2}
    Elements <- MCElements
    Wanted = {1, 2, 3, 6}
    MaxPeak = 3
    Txids <- MCTxids
    Top = 2
    Nullifiers = {1, 2, 3}
    Blocks <- MCBlocks
    MaxNullifiers = 2
    DefaultMaxNullifiers = 2
    MaxTxoRoots = 1
    MaxWindow = 2
    MaxHeight = 2
INVARIANTS RootCanonical ProofsValid InclusionProofsValid DecodedOrAsked AnswersTrue
PROPERTY IsStore
CHECK_DEADLOCK FALSE
