SPECIFICATION AnySpec
CONSTANTS
    t1 = t1
    t2 = t2
    t3 = t3
    a1 = a1
    a2 = a2
    a3 = a3
    s = s
    NoThread = NoThread
    NoAddr = NoAddr
    Threads = {t1, t2, t3}
    Addrs = {a1, a2, a3, s}
    JunkAddrs = {}
    BadNames = {t3}
    LockOf <- MCLockOf3
    SharedLock = s
    MaxCalls = 1
SYMMETRY Symmetry
CHECK_DEADLOCK FALSE
INVARIANTS
    DetectorTypeOK
    FirstHitIsCycle
    MissMeansAcyclic
    FirstHitInOneGroup
    OffForAReason
    MapsPartAtVictims
PROPERTIES
    PassKeepsContract
