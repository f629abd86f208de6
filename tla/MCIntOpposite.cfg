SPECIFICATION SysSpec
CONSTANTS
    t1 = t1
    t2 = t2
    a1 = a1
    a2 = a2
    NoThread = NoThread
    NoAddr = NoAddr
    Threads = {t1, t2}
    Addrs = {a1, a2}
    JunkAddrs = {}
    BadNames = {}
    Plan <- Opposite
    Rounds = 2
    MayShutDown = TRUE
CHECK_DEADLOCK FALSE
INVARIANTS
    ProgramTypeOK
    SleepersTimed
    RecordedOnce
PROPERTIES
    AlarmNeedsReleases
