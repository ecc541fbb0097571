SPECIFICATION Spec
CONSTANTS
    w1 = w1
    w2 = w2
    r1 = r1
    r2 = r2
    Workers <- TwoWorkers
    NoWorker = NoWorker
    Requests <- TwoRequests
    MaxRequestAttempts = 2
    MaxWorkAttempts = 2
    MaxUploads = 2
    MaxExpired = 0
SYMMETRY AllSymmetry
INVARIANTS OneJobPerAttempt RunningJobKeepsInput NoResultBoughtTwice CleanedLeavesNothing
PROPERTIES ResultsAccumulate
CHECK_DEADLOCK FALSE
