\* One session at a time; every call may fail, every session may die.
SPECIFICATION Spec
CONSTANTS
    Session = {s1}
    NoSession = nobody
    CN = {www}
    MaxCert = 2
    MaxCrl = 2
    Batch = {TRUE, FALSE}
    BatchSize = 5
    Overlap = FALSE
    Unlocking = TRUE
    MaxFaults = 2
INVARIANTS IssuedSerialsUnique RevocationStays
PROPERTY BatchNumbersIncrease
