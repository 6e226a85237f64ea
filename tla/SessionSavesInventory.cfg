SPECIFICATION Spec
CONSTANTS
    NoSession = NoSession
    Sessions = {s1}
    Works = {w1, w2}
    Faults = {}
    MaxFaults = 0
PROPERTY OnlyCopyIsKept
CHECK_DEADLOCK FALSE
