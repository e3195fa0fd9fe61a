SPECIFICATION PollingFairSpec
CONSTANTS
    Instances = {w1, w2}
    Timers = {t1, t2}
    None = None
    RequestsFail = TRUE
INVARIANTS
    OneTimer
    DisabledIsQuiet
    NeverForgotten
PROPERTY KeepsPolling
CHECK_DEADLOCK FALSE
