SPECIFICATION FairSpec
CONSTANTS
    NumFiles = 2
    Large = {2}
    Parts = {1, 2}
    MaxCaptures = 2
    MaxKeys = 4
    MaxEdits = 3
    MaxFaults = 1
    SpoolLimit = 3
    MaxReceipts = 1
INVARIANTS HeadIsReadable RegisteredOnce SyncedIsCaptured SpoolIsBounded
PROPERTIES CapturedBytesSurvive PendingSettles
CHECK_DEADLOCK FALSE
