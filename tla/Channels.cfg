SPECIFICATION FairSpec
CONSTANTS
    Keys = {1, 2}
    Kinds = {"queue", "cron", "task", "webhook", "script", "handoff", "none"}
    Mixes <- AllMixes
    Faults = {"prepare", "refuse", "answer", "request", "uncertain", "die", "restart",
              "gateway", "crash", "stop", "admit", "trim", "reply", "xack", "spawn"}
    MaxFaults = 2
    MaxGen = 2
    MaxInst = 2
    Waiters = {1, 2}
INVARIANTS TypeOK OneInstancePerStart AckedWasStarted WorkIsHeld WaitersAreReached
PROPERTIES DeliveriesEnd PendingIsSwept
CHECK_DEADLOCK FALSE
