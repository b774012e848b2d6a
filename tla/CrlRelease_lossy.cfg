\* Signings that fail, late uploads, warm Lambda containers and failed fetches.
SPECIFICATION Spec
CONSTANTS
    Period = 7
    Window = 10
    Count = 5
    LowCover = 2
    LambdaMiss = 0
    FetchMiss = 1
    MaxDay = 10
    MaxSign = 3
    Race = FALSE
    Warm = TRUE
    LateUpload = TRUE
PROPERTY NeverRollsBack
CHECK_DEADLOCK FALSE
