SPECIFICATION Spec
CONSTANTS
    Window = 3
    Quorum = 2
    FinalizationScore = 3
    IDBits = 2
    BlockIDs <- MCOneHeight
    Heights = {1}
    HeightOf <- MCAtOne
    Peers = {self, p1}
    Self = self
    Requests = {r1}
    MaxCalls = 2
    BadHash = badhash
    Faults = {}
INVARIANT PreferenceFollowsBits
CHECK_DEADLOCK FALSE
