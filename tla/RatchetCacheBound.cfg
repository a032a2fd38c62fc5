SPECIFICATION Spec
CONSTANTS
    a = a
    b = b
    o = o
    None = None
    Party <- MCParty
    Outsider = o
    LowOrder = {}
    Alice = a
    Bob = b
    Redelivery = FALSE
    Retry = FALSE
    Damage = FALSE
    OutsideKeys = {}
    HeaderNumbers = {}
    MaxSends = 4
    MaxKeys = 5
    MAX_SKIP = 1
CHECK_DEADLOCK FALSE
INVARIANT
    SkippedKeysBounded
