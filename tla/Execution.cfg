SPECIFICATION FairSpec
CONSTANTS
    r1 = r1  r2 = r2  s1 = s1
    Op = Op  NoOne = NoOne
    Runs = {r1, r2}
    Sessions = {s1}
    SessionOf <- OneSession
    Setups <- ThreeSetups
INVARIANTS TypeOK NativeWorkIsOwned NoStrandedLock ExclusiveIsQuiet
PROPERTIES DecidedOnce EvictedIsOver RunIsReported
CHECK_DEADLOCK FALSE
