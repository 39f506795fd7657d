SPECIFICATION Spec
CONSTANTS
    Window = 2
    Quorum = 2
    FinalizationScore = 2
    IDBits = 2
    BlockIDs <- MCOneHeight
    Heights = {1}
    HeightOf <- MCAtOne
    Peers = {self, p1}
    Self = self
    Requests = {r1}
    MaxCalls = 3
    BadHash = badhash
    Faults = {"late", "badcount", "badid", "delete"}
INVARIANTS TypeOK HeightDecidedOnce CallbacksSound
CHECK_DEADLOCK FALSE
