\* Two certificates in pages of one, one restore, a fault; two accounts, two keys, two requests.
SPECIFICATION Spec
CONSTANTS
    Leaf <- Two
    Page = 1
    MaxRestore = 1
    MaxLedgerFault = 1
    EmptyBackup = FALSE
    Account <- Two
    Key <- Two
    Client <- Clients
    Capacity = 2
    MaxNonce = 3
    Host <- Hosts
    Control <- Controls
    Issuer <- Issuers
    Period <- Periods
    MaxIdentifiers = 3
    MaxRedirects = 2
    Backdate = 1
    MaxNow = 2
INVARIANTS CursorMissesNothing OneAccountPerKey EffectOnce IssuedRightly
PROPERTIES CrlAdvances RevocationPublished
CHECK_DEADLOCK FALSE
