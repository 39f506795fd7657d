SPECIFICATION FairSpec
CONSTANTS
    Blocks = {"a1", "a2"}
    Peers = {"p"}
    Calls = {"c1", "c2"}
    NoBlock = "genesis"
    NoPeer = "none"
    Height <- MCHeight
    Parent <- MCParent
    Producer <- MCProducer
    Time <- MCTime
    Fault <- MCFault
    Collides = {}
    Ahead = {}
    DupTime = 2
    MaxOrphans = 1
    Threshold = 5
    MaxFaults = 0
PROPERTY OrphansResumed
CHECK_DEADLOCK FALSE
