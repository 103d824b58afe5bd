SPECIFICATION Spec
CONSTANTS
    Stoppers = {}
    ErrorCodes = {1}
    WaitMayFail = FALSE
PROPERTY StaysInCgroup
