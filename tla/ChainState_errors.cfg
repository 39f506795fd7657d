SPECIFICATION Spec
CONSTANTS
    MaxHeight = 2
    MaxFaults = 1
    Faults = {"error"}
    Datastores = {"mock", "badger"}
INVARIANT MemoryRepaired
CHECK_DEADLOCK FALSE
