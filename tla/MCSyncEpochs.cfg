SPECIFICATION Spec
CONSTANTS
    G = G
    P = P
    a = a
    b = b
    x = x
    y = y
    g = g
    plain = plain
    inG = inG
    Item = {a}
    Value = {x, y}
    Nil = Nil
    Fits <- MCFits
    Refs <- MCNoRefs
    Code <- MCCode
    PageSize = 2
    RetryCodes = {"ACCOUNT_UNAVAILABLE"}
    FatalCodes = {"QUOTA_EXCEEDED"}
    Choices = {"use_cloud"}
    Faults = {"expire", "replace", "crash"}
    Switch = {TRUE, FALSE}
    Spare = {}
    MaxTransaction = 1
    MaxRevision = 2
    MaxPeerWrites = 2
SYMMETRY Symmetry
INVARIANTS
    TypeOK
    EpochIsCloudAtCursor
    ShadowIsCloudAtCursor
    EditsBuildOnCloud
PROPERTIES
    PausedFreezesNothing
