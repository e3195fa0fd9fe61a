SPECIFICATION FairStoreSpec
CONSTANTS
    f = f
    g = g
    c1 = c1
    c2 = c2
    c3 = c3
    c4 = c4
    zero = zero
    one = one
    two = two
    Fields <- MCFields
    Calls <- MCCalls
    Defaults <- MCDefaults
    Data <- MCData
    StoreFails = TRUE
PROPERTIES
    ImplementsRegister
    PromisesSettle
