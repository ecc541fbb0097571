SPECIFICATION Spec
CONSTANTS
    w1 = w1
    w2 = w2
    Workers <- OneWorker
    NoWorker = NoWorker
    MaxVersions = 3
    MaxChunks = 1
    MaxAttempts = 1
    MaxTurns = 1
    MaxLate = 0
    Native = TRUE
    RootDeletable = FALSE
INVARIANT PriorStaysSearchable
CHECK_DEADLOCK FALSE
