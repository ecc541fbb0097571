SPECIFICATION FairSpec
CONSTANTS
    w1 = w1
    w2 = w2
    Workers <- OneWorker
    NoWorker = NoWorker
    MaxVersions = 2
    MaxChunks = 1
    MaxAttempts = 1
    MaxTurns = 1
    MaxLate = 1
    Native = TRUE
    RootDeletable = FALSE
PROPERTY CleanupRemovesObsolete
CHECK_DEADLOCK FALSE
