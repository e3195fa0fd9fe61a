SPECIFICATION FairSpec
CONSTANTS
    Ids = {w0, w1, w2}
    OldWallet = w0
    None = None
    MaxFaults = 2
    Slots = {s1, s2, s3}
INVARIANTS
    UpgradeKeeps
    RememberedSound
    BackupKept
PROPERTIES
    NoSecondWallet
    SetupEnds
CHECK_DEADLOCK FALSE
