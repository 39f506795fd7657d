SPECIFICATION FairSpec
CONSTANTS
    DupTime = 1
    Future = 1
    FutureNanos = 1000
    MaxHeight = 2
    MaxTime = 2
    MaxStarts = 3
    MaxInterrupts = 1
    MaxResyncs = 1
INVARIANTS NoQuickDuplicates
PROPERTIES ValidatorGenerates LoopsStop
CHECK_DEADLOCK FALSE
