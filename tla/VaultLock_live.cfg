\* Two operations at once, one leftover lock, stamps that may be unreadable; nothing fails.
CONSTANTS
    a = a
    b = b
    c = c
    Op <- TwoOps
    Proc <- TwoOps
    ProcOf <- OwnProcess2
    Id = {1, 2, 3, 4}
    Leftover = {2}
    TTL = 1
    MaxSkew = 0
    MaxTime = 2
    ServerStamps = FALSE
    Faults = FALSE
SPECIFICATION FairSpec
INVARIANTS
    NoOrphanedLock
PROPERTIES
    AcquireTerminates
CHECK_DEADLOCK FALSE
