SPECIFICATION Spec
CONSTANTS
    a = a
    b = b
    Users = {a, b}
    Limit = 2
    MaxMessages = 3
    MaxScreens = 2
    Scenarios <- SafetyScenarios
INVARIANTS
    DeletedStaysDeleted
    ReadMeansTakenIn
    NoRowTwice
PROPERTIES
    ReadStaysRead
CHECK_DEADLOCK FALSE
