SPECIFICATION FairSpec
CONSTANTS
    NoSession = NoSession
    Sessions = {s1}
    Works = {w1, w2}
    Faults = {"retire"}
    MaxFaults = 1
PROPERTY IdleIsSaved
CHECK_DEADLOCK FALSE
