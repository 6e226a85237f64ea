SPECIFICATION Spec
CONSTANTS
    Refs = {r1, r2}
    Capacity = 1
    MaxFaults = 1
SYMMETRY RefSymmetry
INVARIANT SlotWaitersAreWoken
CHECK_DEADLOCK FALSE
