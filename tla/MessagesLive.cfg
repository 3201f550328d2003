SPECIFICATION FairSpec
CONSTANTS
    a = a
    b = b
    Users = {a, b}
    Limit = 2
    MaxMessages = 2
    MaxScreens = 1
    Scenarios <- LiveScenarios
PROPERTIES
    ArrivedIsShown
    ReceiptMarksRead
CHECK_DEADLOCK FALSE
