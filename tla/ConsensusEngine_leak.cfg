SPECIFICATION FairSpec
CONSTANTS
    Window = 1
    Quorum = 1
    FinalizationScore = 2
    IDBits = 2
    BlockIDs <- MCOneHeight
    Heights = {1}
    HeightOf <- MCAtOne
    Peers = {self, p1}
    Self = self
    Requests = {r1, r2}
    MaxCalls = 1
    BadHash = badhash
    Faults = {"late"}
PROPERTY KeepsPolling
CHECK_DEADLOCK FALSE
