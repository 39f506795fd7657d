SPECIFICATION SenderSpec
CONSTANTS
    MaxCalls = 3
    MaxDrops = 0
INVARIANT NeverTornDown
CHECK_DEADLOCK FALSE
