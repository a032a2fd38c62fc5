SPECIFICATION Spec
CONSTANTS
    a = a
    b = b
    Accounts <- MCAccounts
    Targets <- MCTargets
    Queries = {none, q}
    Bodies <- MCBodies
    ByKeyPaths = {}
    BundlePaths = {}
    MediaPaths <- MCMediaPaths
    Missing = Missing
    Garbled = Garbled
    None = None
    Skews <- MCSkews
    MAX_TIMESTAMP_DRIFT_SECS = 1
    StartTime = 0
    MaxTime = 2
    MaxSigned = 2
    MaxArrivals = 1
SYMMETRY MCSymmetry
CHECK_DEADLOCK FALSE
INVARIANTS
    TypeOK
    OnlyQueryUnsigned
    AdmittedFresh
    HonestNotRefused
    DeletedStayOut
