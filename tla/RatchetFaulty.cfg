SPECIFICATION Spec
CONSTANTS
    a = a
    b = b
    o = o
    None = None
    Party <- MCParty
    Outsider = o
    LowOrder <- MCLowOrder
    Alice = a
    Bob = b
    Redelivery = TRUE
    Retry = FALSE
    Damage = TRUE
    OutsideKeys <- MCOutsideKeys
    HeaderNumbers = {1}
    MaxSends = 2
    MaxKeys = 2
    MAX_SKIP = 1
CHECK_DEADLOCK FALSE
INVARIANTS
    ReplayRejected
    UniqueMessageKeys
    ForwardSecrecy
PROPERTY
    ImplementsChannel
