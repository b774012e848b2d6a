\* Three signings over two batches; one Lambda run in a row fails.
SPECIFICATION Spec
CONSTANTS
    Period = 7
    Window = 10
    Count = 5
    LowCover = 2
    LambdaMiss = 1
    FetchMiss = 0
    MaxDay = 40
    MaxSign = 3
    Race = TRUE
    Warm = FALSE
    LateUpload = FALSE
INVARIANTS InstalledCovered RevocationReachesServers WarnsBeforeLapse
CHECK_DEADLOCK FALSE
