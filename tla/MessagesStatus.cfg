SPECIFICATION FairSpec
CONSTANTS
    a = a
    b = b
    Users = {a, b}
    Limit = 2
    MaxMessages = 1
    MaxScreens = 1
    Scenarios <- StatusScenarios
PROPERTIES
    LocalMessageUpdated
CHECK_DEADLOCK FALSE
