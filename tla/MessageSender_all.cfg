SPECIFICATION SenderFairSpec
CONSTANTS
    MaxCalls = 3
    MaxDrops = 1
INVARIANTS AnswersMatch
PROPERTIES RetriedFresh CallsReturn
CHECK_DEADLOCK FALSE
