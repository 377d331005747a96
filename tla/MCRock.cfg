CONSTANTS
    Worker = {w1, w2}
    Entry = {e1, e2}
    Key = {"a", "b"}
    SlotOf <- MCSlotOf
    entryLimit = 2
    Scenarios <- MCScenarios
    maxVer = 4
SPECIFICATION Spec
CHECK_DEADLOCK FALSE
INVARIANTS
    ReaderFindsItsEntry
    LocksHaveHolders

    
