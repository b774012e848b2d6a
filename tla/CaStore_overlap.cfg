\* Two sessions whose copies were read before either took the lock; nothing fails.
SPECIFICATION Spec
CONSTANTS
    Session = {s1, s2}
    NoSession = nobody
    CN = {www}
    MaxCert = 2
    MaxCrl = 2
    Batch = {TRUE}
    BatchSize = 5
    Overlap = TRUE
    Unlocking = FALSE
    MaxFaults = 0
INVARIANT RevocationStays
