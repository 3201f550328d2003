SPECIFICATION Spec
CONSTANTS
    a = a
    b = b
    Users <- TwoUsers
    Budgets <- GroupAndPrivate
INVARIANTS
    UnreadNeverOvercounts
    BurstCountedExactly
    AgreeOnLastMessage
    PartnerIsTheOther
PROPERTIES
    BoardSpec
CHECK_DEADLOCK FALSE
