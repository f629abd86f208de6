SPECIFICATION UnlockerSpec
CONSTANTS
    Words = 5
    LockAddrs <- TwoLocks
    MaxAttempts = 3
CHECK_DEADLOCK FALSE
INVARIANT UnlockerTypeOK
PROPERTIES
    OnlyPtraceOverreaches
    UnlockerEnds
