SPECIFICATION FairSpec
CONSTANTS
    Users = {u}
    NoUser = NoUser
    Requests = {r1, r2}
    Keyed = {u}
    Scopes = {"org", "user", "restricted"}
    FirstRoles = {"editor"}
    Grantable = {"sync"}
    Deniable = {"editor"}
    MaxChanges = 2
    MaxFaults = 1
INVARIANT CommitIsAuthorized
CHECK_DEADLOCK FALSE
PROPERTIES DeletedRootVanishes
