SPECIFICATION MCGroupSpec
CONSTANTS
    t1 = t1
    t2 = t2
    t3 = t3
    a1 = a1
    a2 = a2
    NoThread = NoThread
    NoAddr = NoAddr
    Threads = {t1, t2, t3}
    Addrs = {a1, a2}
    JunkAddrs = {}
CHECK_DEADLOCK FALSE
INVARIANTS
    GroupTypeOK
    GroupsAreStars
    KeptAreCycles
    NoneMeansNoCycle
    ThreadsFollowGroups
    VictimsWait
    UnsharedIsThreadCycle
    
    OneStepOutcome
PROPERTIES
    GroupKeepsContract
