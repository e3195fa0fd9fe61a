SPECIFICATION Spec
CONSTANTS
    c1 = c1
    c2 = c2
    Calls <- TwoCalls
    Passwords = {p, q}
    Original = p
    MaxSecrets = 3
INVARIANTS
    TypeOK
    RecoverableUnlessMishap
    UnlockedHasRightKey
    LocalInStep
SYMMETRY CallSymmetry
