SPECIFICATION Spec
CONSTANTS
    Keys = {1, 2}
    Kinds = {"queue", "cron", "task", "webhook", "script", "handoff", "none"}
    Mixes <- OneEntry
    Faults = {"uncertain"}
    MaxFaults = 1
    MaxGen = 2
    MaxInst = 2
    Waiters = {1, 2}
INVARIANT UncertainIsHeld
CHECK_DEADLOCK FALSE
