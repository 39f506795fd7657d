SPECIFICATION MCFairSpec
CONSTANTS
    p1 = p1
    p2 = p2
    p3 = p3
    Peers = {p1, p2, p3}
    Chains <- MCChains
    Invalid = {"c5"}
    Genesis = "genesis"
    NoBlock = "none"
    Score <- MCScore
    Checkpoints <- MCCheckpoints
    TrustedChain <- Trunk
    Heights = {4, 5, 7}
    Lookahead = 4
    Window = 2
    Kinds = {"fail", "grow", "finalize", "close"}
    MaxEvents = 1
INVARIANTS ForkPointFound OneChainSynced BestForkWins
PROPERTIES SyncEnds
CHECK_DEADLOCK FALSE
