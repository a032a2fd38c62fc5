SPECIFICATION Spec
CONSTANTS
    a = a
    b = b
    c = c
    None = None
    Devices <- MCDevices
    Strangers <- MCStrangers
    GroupIds = {g}
    GivenLists <- MCGivenLists
    FileSizes = {2097152}
    UploadPaths <- MCDocumented
    MaxMessages = 1
    MaxChanges = 0
CHECK_DEADLOCK FALSE
INVARIANT
    UploadsAccepted
