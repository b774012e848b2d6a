CONSTANTS
    a = a
    b = b
    c = c
    Op <- TwoOps
    Proc <- TwoOps
    ProcOf <- OwnProcess2
    Id = {1, 2, 3}
    Leftover = {}
    TTL = 1
    MaxSkew = 1
    MaxTime = 2
    ServerStamps = TRUE
    Faults = TRUE
SPECIFICATION Spec
SYMMETRY Symmetry2
INVARIANTS
    MutualExclusion
    GuardedLockStored
CHECK_DEADLOCK FALSE
