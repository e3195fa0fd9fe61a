SPECIFICATION FairSpec
CONSTANTS
    Instances = {o1, o2, o3}
    Timers = {t1}
    None = None
    Wallets = {A, B}
    Home = A
    RequestsFail = TRUE
INVARIANTS
    OnlyActivePolls
    BufferSound
PROPERTY SwitchEnds
CHECK_DEADLOCK FALSE
