SPECIFICATION FairSpec
CONSTANTS
    Refs = {r1}
    Capacity = 1
    MaxFaults = 2
INVARIANTS TypeOK SlotIsHeld PublishedIsSettled
PROPERTIES RestoredOnce UnitsAreSettled WaitsEnd
CHECK_DEADLOCK FALSE
