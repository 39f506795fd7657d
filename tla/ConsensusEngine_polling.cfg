SPECIFICATION FairSpec
CONSTANTS
    Window = 1
    Quorum = 1
    FinalizationScore = 2
    IDBits = 2
    BlockIDs <- MCOneHeight
    Heights = {1, 2}
    HeightOf <- MCTwoHeights
    Peers = {self, p1}
    Self = self
    Requests = {r1, r2}
    MaxCalls = 2
    BadHash = badhash
    Faults = {}
INVARIANTS InflightExact
PROPERTIES KeepsPolling
CHECK_DEADLOCK FALSE
