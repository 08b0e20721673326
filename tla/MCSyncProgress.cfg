SPECIFICATION FairSpec
CONSTANTS
    G = G
    P = P
    a = a
    b = b
    x = x
    y = y
    g = g
    plain = plain
    inG = inG
    Item = {a}
    Value = {x}
    Nil = Nil
    Fits <- MCFits
    Refs <- MCNoRefs
    Code <- MCCode
    PageSize = 1
    RetryCodes = {"ACCOUNT_UNAVAILABLE"}
    FatalCodes = {}
    Choices = {}
    Faults = {"lose", "crash"}
    Switch = {}
    Spare = {}
    MaxTransaction = 1
    MaxRevision = 2
    MaxPeerWrites = 1
PROPERTIES
    FrozenSettles
    EditsReachCloud
