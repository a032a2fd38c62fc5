SPECIFICATION StoreSpec
CONSTANTS
    a = a
    b = b
    o = o
    None = None
    Party <- MCParty
    Outsider = o
    LowOrder = {}
    Alice = a
    Bob = b
    Redelivery = FALSE
    Retry = FALSE
    Damage = FALSE
    OutsideKeys = {}
    HeaderNumbers = {}
    MaxSends = 3
    MaxKeys = 4
    MAX_SKIP = 3
    MaxCrashes = 1
CHECK_DEADLOCK FALSE
INVARIANTS
    StoreTypeOK
    RestartKeysUnique
    RestartLosesNothing
