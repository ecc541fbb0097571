SPECIFICATION Spec
CONSTANTS
    Files = {1, 2}
    LegacyFiles = {2}
    Requests = {r1, r2}
    Tenants = {t}
    TenantOf <- MCTenantOf
    Rankings = {"ann", "fts"}
    Rank <- MCRank
    Limit = 1
    PageSize = 1
    GlobalLimit = 1
    TenantLimit = 1
    Deadline = 2
    LeaseTime = 3
    Grace = 4
    MaxVersion = 3
    MaxChanges = 2
    MaxPasses = 3
    MaxReads = 1
INVARIANTS SearchIsExact ReadIsWhole SearchesFitCapacity
CHECK_DEADLOCK FALSE
SYMMETRY Symmetry
