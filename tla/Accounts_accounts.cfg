SPECIFICATION Spec
CONSTANTS
    Emails = {a, b}
    NoEmail = NoEmail
    Assignable = {"owner", "admin", "viewer"}
    Requests = {r1, r2}
    MaxAttempts = 1
    RateLimit = 2
    MaxUsers = 3
    MaxKeys = 1
    MaxCodes = 1
    MaxInvites = 1
    MaxCalls = 3
SYMMETRY Symmetry
INVARIANTS TypeOK OwnerRemains CodeBuysOneLogin AuthorityIsGranted
CHECK_DEADLOCK FALSE
