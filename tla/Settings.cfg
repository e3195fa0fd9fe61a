SPECIFICATION FairSpec
CONSTANTS
    Calls = {c1, c2}
    Currencies = {v1, v2}
    Pics = {p1}
    NoPic = NoPic
    Purchases = {t1}
    Default = Default
    Unset = Unset
    MaxFaults = 2
INVARIANTS
    ChoiceKept
    OnlyAsked
    InStep
PROPERTY
    WaitersRun
CHECK_DEADLOCK FALSE
