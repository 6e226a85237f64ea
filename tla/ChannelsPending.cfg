SPECIFICATION FairSpec
CONSTANTS
    Keys = {1, 2}
    Kinds = {"queue", "cron", "task", "webhook", "script", "handoff", "none"}
    Mixes <- OneEntryRefused
    Faults = {"admit"}
    MaxFaults = 2
    MaxGen = 2
    MaxInst = 2
    Waiters = {1, 2}
PROPERTY PendingIsRetried
CHECK_DEADLOCK FALSE
