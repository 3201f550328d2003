SPECIFICATION FairSpec
CONSTANTS
    a = a
    b = b
    Users <- TwoUsers
    Budgets <- PrivateOnly
PROPERTIES
    SentIsShown
    BlockErases
CHECK_DEADLOCK FALSE
INVARIANTS
    MembersCompleteUnlessMuted
