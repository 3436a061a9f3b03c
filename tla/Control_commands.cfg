SPECIFICATION Spec
CONSTANTS
    Daemons = {d1, d2}
    Clients = {c1}
    Keys = {k1, k2}
    Nil = Nil
    MaxTokens = 2
    MaxCrashes = 1
INVARIANTS
    TypeOK
    IdentityMatchesKey
    UnlockedIsStored
    AppliedOnce
    RunningReachable
    AddressPersisted
PROPERTIES
    Settles
CHECK_DEADLOCK FALSE
