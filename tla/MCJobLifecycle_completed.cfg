SPECIFICATION Spec
CONSTANTS
    k1 = k1
    Stoppers = {k1}
    ErrorCodes = {1}
    WaitMayFail = FALSE
INVARIANT CompletedMeansSuccess
