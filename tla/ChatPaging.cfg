SPECIFICATION FairPagingSpec
CONSTANTS
    NumberOfMessages = 10
    FirstQuery = 11
    MaxOlder = 45
INVARIANTS
    RowsInOrder
    ButtonWhileEarlier
    NoTrapOnceLoaded
PROPERTIES
    AllShown
CHECK_DEADLOCK FALSE
