SPECIFICATION Spec
CONSTANTS
    w1 = w1
    w2 = w2
    Workers <- TwoWorkers
    NoWorker = NoWorker
    MaxVersions = 2
    MaxChunks = 1
    MaxAttempts = 2
    MaxTurns = 1
    MaxLate = 1
    Native = TRUE
    RootDeletable = TRUE
SYMMETRY Symmetry
INVARIANTS PublishedIsSearchable RetiredIsUnreferenced CursorIsConfirmed
PROPERTIES ImplementsFileHead FinishedIsFinal
CHECK_DEADLOCK FALSE
