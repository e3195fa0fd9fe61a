SPECIFICATION FairSpec
CONSTANTS
    Tx = {x, y}
    MaxHash = 3
    Faults = {"drop", "reorg", "fail", "put", "crash"}
INVARIANTS
    HistorySound
    MissedOnlyIfTorn
PROPERTY MinedIsListed
