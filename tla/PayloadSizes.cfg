SPECIFICATION Spec
CONSTANTS
    None = None
    MIN_BUCKET = 256
    MAX_BUCKET = 65536
    ByteBase = 64
    MaxExponent = 30
    BodyLens <- MCBodyLens
    AttachmentLens = {400}
    DummySizes = {0, 1024}
    MaxMessages = 1
CHECK_DEADLOCK FALSE
INVARIANTS
    TypeOK
    DeliveredAsSent
    NothingLost
    SmallestBucket
    GroupInvisible
