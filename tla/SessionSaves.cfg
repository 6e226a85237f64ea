SPECIFICATION FairSpec
CONSTANTS
    NoSession = NoSession
    Sessions = {s1, s2}
    Works = {w1, w2}
    Faults = {"call", "save", "conflict", "retire", "late", "halt", "uncertain", "restart"}
    MaxFaults = 2
INVARIANT TypeOK
PROPERTIES SeenCopyIsKept SessionContinues RunKeepsItsHome IdleIsSavedOrGivenUp
CHECK_DEADLOCK FALSE
