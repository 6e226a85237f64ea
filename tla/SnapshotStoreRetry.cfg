SPECIFICATION FairSpec
CONSTANTS
    w1 = w1  w2 = w2  w3 = w3  i1 = i1  i2 = i2
    Instances = {i1, i2}
    InstanceOf <- MCInstanceOf
    Snapshots = {s1, s2}
    NoInstance = NoInstance
    NoSnapshot = NoSnapshot
    Writers = {w1}
    Overlap = FALSE
    MaxFaults = 1
PROPERTY FailedCloseIsRetried
CHECK_DEADLOCK FALSE
