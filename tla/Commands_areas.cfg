\* Two names in each area, one failing call or death of the process; two vaults in a session.
SPECIFICATION Spec
CONSTANTS
    Name <- TwoNames
    Area <- Areas
    MaxFault = 1
    ImportSerial = {1}
    Vault = {v1, v2}
    NoVault = NoVault
    MaxSession = 2
    MaxJob = 2
    MaxFailed = 1
    Row = {1, 2}
    KeepCopies = 2
    Dump = {"a", "b", "c"}
    MaxClock = 4
    Cn = {1}
    MaxIssued = 2
    MaxProfile = 1
    Life = {1, 3}
    Soon = 1
    Caution = 2
    MaxDay = 2
SYMMETRY Symmetric
INVARIANTS TitlesUnambiguous RowsHold DamageRecoverable OwnVault LocksCleanedUp MigrationSound RecentKept ShownTrue
PROPERTIES TemplatesKept RevokedInCrl RestoreWhole SkippedIsUploaded
CHECK_DEADLOCK FALSE
