SPECIFICATION StorageSpec
CONSTANTS
    w1 = w1  w2 = w2  w3 = w3  i1 = i1  i2 = i2
    Instances = {i1, i2}
    InstanceOf <- MCInstanceOf
    Snapshots = {s1, s2}
    NoInstance = NoInstance
    NoSnapshot = NoSnapshot
    Writers = {w1, w2, w3}
    Overlap = FALSE
    MaxFaults = 2
    Restorers = {r1}
    CacheRoom = 1
    MaxDamage = 1
    Damaged = Damaged
    RestoreWriters = {w1, w3}
    RestoreFaults = 0
    p1 = p1  p2 = p2  p3 = p3
    Publishers = {p1, p2, p3}
    PublicationOf <- MCPublicationOf
    Readers = {d1}
    Retention = 1
    MaxTime = 1
    MaxMishaps = 2
    Nothing = Nothing
SYMMETRY StorageSymmetry
INVARIANTS TypeOK LatestIsDurable RecordsAreTrue AckedIsKept RestoredIsAcked ArtifactIsWhole
PROPERTIES Fenced ImplementsRegister
CHECK_DEADLOCK FALSE
