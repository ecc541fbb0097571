SPECIFICATION FairSpec
CONSTANTS
    NumFiles = 2
    InDir = {2}
    Hidden = {1}
    Deniable = {1}
    Shared = {1}
    Selections = {{2}}
    PageLimit = 1
    OutboxBatch = 1
    MaxMarks = 1
    MaxSameFailures = 2
    MaxEdits = 2
    MaxOther = 1
    MaxFaults = 1
INVARIANTS TypeOK CacheCatchesUp NoChangeIsLost ProofIsLocal
PROPERTIES Converges
CHECK_DEADLOCK FALSE
