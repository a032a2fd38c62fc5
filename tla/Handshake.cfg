SPECIFICATION Spec
CONSTANTS
    a = a
    b = b
    r = r
    o = o
    None = None
    Party <- MCParty
    Outsider = o
    LowOrder = {}
    Initiators <- MCInitiators
    Recipient = r
    MAX_SKIP = 1
    SIGNED_PREKEY_ROTATION_INTERVAL = 2
    SIGNED_PREKEY_GRACE_PERIOD = 2
    MIN_ONE_TIME_PREKEYS = 1
    ONE_TIME_PREKEY_BATCH_SIZE = 1
    MaxTime = 5
    MaxInits = 2
    MaxBatches = 2
    MaxAccepts = 3
CHECK_DEADLOCK FALSE
SYMMETRY
    MCSymmetry
INVARIANTS
    TypeOK
    TimelyInitOpens
    OneTimeOnce
    OneTimeForwardSecrecy
    PublishedAreHeld
