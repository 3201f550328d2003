SPECIFICATION Spec
CONSTANTS
    u1 = u1
    u2 = u2
    c1 = c1
    c2 = c2
    c3 = c3
    Typists = {u1, u2}
    MaxKeys = 2
    MaxOpened = 2
    Members = {u1, u2, c1, c2}
    Myself = u1
    Senders = {u1, u2}
    MediaKinds = {"picture", "video", "audio"}
    Dates = {1, 2}
    MaxMedia = 2
    MaxDisplays = 2
    Chats = {c1, c2, c3}
    Matching = {c2, c3}
    MaxChanges = 3
    MaxTouches = 3
INVARIANTS
    IndicatorGoesOff
    EachFailureCompletes
    ShownIsSent
    ListFollows
    RowsLeadToChats
CHECK_DEADLOCK FALSE
