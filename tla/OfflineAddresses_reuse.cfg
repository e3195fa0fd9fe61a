SPECIFICATION Spec
CONSTANTS
    c1 = c1
    c2 = c2
    Callers <- TwoCallers
    Amount = 3
    RefillMax = 2
    BatchCap = 5
    MaxIssued = 4
SYMMETRY CallerSymmetry

INVARIANT HandedOutOnce
