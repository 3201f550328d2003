SPECIFICATION FairSpec
CONSTANTS
    alice = alice
    bob = bob
    p = p
    q = q
    nil = nil
    Nil = nil
    Accounts <- Two
    Existing = {alice}
    People = {p, q}
    Blocked = {p, q}
    OneSignal = {"player"}
    MaxInputs = 3
    MaxFailures = 1
INVARIANTS
    LocalIsOwn
    LocalMirrors
PROPERTIES
    OnlyMeantMove
    RegistrationEnds
CHECK_DEADLOCK FALSE
