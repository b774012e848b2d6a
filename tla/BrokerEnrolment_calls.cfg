\* One broker, reopened once; calls lost, late or cut off, domains changed under the operator.
SPECIFICATION Spec
CONSTANTS
    None = None
    Lost = Lost
    d1 = d1
    d2 = d2
    Domain <- TwoDomains
    Configured <- NoneOrOther
    Attempts = 1
    MaxKey = 2
    MaxCode = 2
    MaxSerial = 2
    MaxRow = 2
    MaxFault = 1
    Restores = TRUE
INVARIANTS OneActiveSubordinate ToldStaysRevoked OnlyApprovedDomains ServesAsEnrolled
PROPERTIES ReopenNotUndone
CHECK_DEADLOCK FALSE
