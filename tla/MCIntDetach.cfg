SPECIFICATION SysSpec
CONSTANTS
    t1 = t1
    t2 = t2
    a1 = a1
    a2 = a2
    NoThread = NoThread
    NoAddr = NoAddr
    Threads = {t1, t2}
    Addrs = {a1, a2}
    JunkAddrs = {}
    BadNames = {}
    Plan <- OneLock
    Rounds = 1
    MayShutDown = TRUE
CHECK_DEADLOCK FALSE
PROPERTY CleanDetach
