SPECIFICATION Spec
CONSTANTS
    Blocks = {"a1", "b1", "a2"}
    Peers = {"p"}
    Calls = {"c1", "c2"}
    NoBlock = "genesis"
    NoPeer = "none"
    Height <- MCHeight
    Parent <- MCParent
    Producer <- MCProducer
    Time <- MCTime
    Fault <- MCFault
    Collides = {"b1"}
    Ahead = {"a2", "b1"}
    DupTime = 2
    MaxOrphans = 0
    Threshold = 1
    MaxFaults = 1
INVARIANT SpacedNotBanned
CHECK_DEADLOCK FALSE
