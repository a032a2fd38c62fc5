SPECIFICATION FairSpec
CONSTANTS
    a = a
    b = b
    c = c
    None = None
    Devices <- MCDevices
    Strangers <- MCStrangers
    GroupIds = {g}
    GivenLists <- MCGivenLists
    FileSizes <- MCSizes
    UploadPaths <- MCBelowPrefix
    MaxMessages = 2
    MaxChanges = 1
CHECK_DEADLOCK FALSE
INVARIANTS
    TypeOK
    NoExtraCopies
    AttachmentsTrue
PROPERTIES
    ImplementsGroupChannel
    EveryMemberReads
