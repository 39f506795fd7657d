SPECIFICATION Spec
CONSTANTS
    p1 = p1
    p2 = p2
    p3 = p3
    Peers = {p1, p2, p3}
    Chains <- MCOneChain
    Invalid = {}
    Genesis = "genesis"
    NoBlock = "none"
    Score <- MCScore
    Checkpoints <- MCNoCheckpoints
    TrustedChain <- Trunk
    Heights = {1, 2, 3}
    Lookahead = 4
    Window = 2
    Kinds = {}
    MaxEvents = 0
INVARIANTS SyncedToTip
CHECK_DEADLOCK FALSE
