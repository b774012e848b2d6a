\* A backup of a broker that had issued nothing is restored.
SPECIFICATION Spec
CONSTANTS
    Leaf <- Two
    Page = 1
    MaxRestore = 1
    MaxLedgerFault = 1
    EmptyBackup = TRUE
    Account <- Two
    Key <- Two
    Client <- Clients
    Capacity = 2
    MaxNonce = 3
    Host <- Hosts
    Control <- Controls
    Issuer <- Issuers
    Period <- Periods
    MaxIdentifiers = 3
    MaxRedirects = 2
    Backdate = 1
    MaxNow = 2
INVARIANT CursorMissesNothing
CHECK_DEADLOCK FALSE
