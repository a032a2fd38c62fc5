SPECIFICATION Spec
CONSTANTS
    a = a
    b = b
    Accounts <- MCAccounts
    Targets <- MCTargetsOne
    Queries = {none}
    Bodies <- MCBodiesOne
    ByKeyPaths = {}
    BundlePaths = {}
    MediaPaths <- MCMediaPaths
    Missing = Missing
    Garbled = Garbled
    None = None
    Skews <- MCSkewsNone
    MAX_TIMESTAMP_DRIFT_SECS = 1
    StartTime = 5
    MaxTime = 6
    MaxSigned = 1
    MaxArrivals = 2
CHECK_DEADLOCK FALSE
INVARIANT
    HandledOnce
