SPECIFICATION Spec
CONSTANTS
    a = a
    b = b
    o = o
    None = None
    Party <- MCParty
    Outsider = o
    LowOrder = {}
    Alice = a
    Bob = b
    Redelivery = TRUE
    Retry = FALSE
    Damage = FALSE
    OutsideKeys = {}
    HeaderNumbers = {}
    MaxSends = 3
    MaxKeys = 4
    MAX_SKIP = 3
CHECK_DEADLOCK FALSE
INVARIANT
    LateArrivalsOpen
