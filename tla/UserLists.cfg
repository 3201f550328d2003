SPECIFICATION Spec
CONSTANTS
    me = me
    ann = ann
    bob = bob
    cyd = cyd
    adam = adam
    Me = me
    Names <- ByName
    Initial <- FirstLetter
    City <- InCity
    Country <- InCountry
    Phone <- Numbers
    Books <- TwoBooks
    Texts = {{ann, adam}}
    Blocked = {bob}
    MaxLoads = 3
    MaxChanges = 2
INVARIANTS
    EachListedOnce
    FilterChosenIsShown
CHECK_DEADLOCK FALSE
