SPECIFICATION FairSpec
CONSTANTS
    Tx = {x, y}
    MaxHash = 2
    Faults = {"reorg"}
PROPERTY OrphanResyncs
