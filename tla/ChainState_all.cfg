SPECIFICATION FairSpec
CONSTANTS
    MaxHeight = 3
    MaxFaults = 3
    Faults = {"genesis", "open", "repair", "running", "error", "firstError"}
    Datastores = {"mock", "badger"}
INVARIANTS MemoryAtTip StoresSound AppliedOnce FatalOnlyMidFlush
PROPERTY Starts
CHECK_DEADLOCK FALSE
