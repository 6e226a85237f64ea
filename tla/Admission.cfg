SPECIFICATION FairSpec
CONSTANTS
    a = a  b = b  l1 = l1  l2 = l2
    Keys = {a, b}
    Lanes = {l1, l2}
    WorkspaceOf <- MCWorkspaceOf
    ChannelOf <- MCChannelOf
    MaxConcurrent = 1
    MaxScripts = 1
    ChannelCap = 1
    WorkspaceCap = 1
    MaxQueued = 2
    MaxGen = 2
    Plans <- AllPlans
INVARIANTS CapacityCounted OneGeneration OverIsAnswered
PROPERTIES ImplementsLedger QueuedIsAnswered CloseReturns
CHECK_DEADLOCK FALSE
