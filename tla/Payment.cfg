SPECIFICATION Spec
CONSTANTS
    Calls = {c1}
    Pays <- SmallPays
    Answers <- SmallAnswers
    feeSanityCheck = TRUE
    useNewCashAddr = TRUE
    DUST = 2730
    BASE_FEE = 10000
INVARIANTS
    TypeOK
    FeeAsNamed
    NoDustOutput
    ChangeComesHome
    EstimateHolds
PROPERTIES
    PaySettles
