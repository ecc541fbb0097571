SPECIFICATION FairSpec
CONSTANTS
    w1 = w1
    w2 = w2
    r1 = r1
    r2 = r2
    Workers <- OneWorker
    NoWorker = NoWorker
    Requests <- TwoRequests
    MaxRequestAttempts = 3
    MaxWorkAttempts = 2
    MaxUploads = 3
    MaxExpired = 1
CHECK_DEADLOCK FALSE
PROPERTIES BatchSettles EndedIsCleaned
