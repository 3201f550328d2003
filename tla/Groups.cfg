SPECIFICATION Spec
CONSTANTS
    a = a
    b = b
    c = c
    d = d
    nil = nil
    Nil = nil
    Users <- Four
    Active <- Two
    Owner = a
    Picks <- PickB
    MaxPresses = 2
    MaxLevels = 3
    MaxInputs = 4
    MaxCrossing = 3
INVARIANTS
    NobodyLost
    RecentsFollow
    OneRecentEach
    InvitedHaveRecent
CHECK_DEADLOCK FALSE
