SPECIFICATION FairSpec
CONSTANTS
    Handlers = {h1}
    Packs = {p1, p2}
    Multipart = {p1}
    Sessions = {s1}
    NoSession = NoSession
    Files = {f1}
    SourceSets = {{p1}, {p2}}
    MaxCaptures = 2
    Lifetime = 1
CHECK_DEADLOCK FALSE
INVARIANTS NeededIsReadable SignedUploadIsPinned
PROPERTIES RetirementIsFinal RetiredVanishes LeftoversRetire
