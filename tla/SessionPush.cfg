SPECIFICATION Spec
CONSTANTS
    alice = alice
    bob = bob
    p = p
    q = q
    nil = nil
    Nil = nil
    Accounts = {alice}
    Existing = {alice}
    People = {p}
    Blocked = {}
    OneSignal = {"player"}
    MaxInputs = 2
    MaxFailures = 0
INVARIANTS
    PushIdAnnounced
CHECK_DEADLOCK FALSE
