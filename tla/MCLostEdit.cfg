SPECIFICATION Spec
CONSTANTS
    G = G
    P = P
    a = a
    b = b
    x = x
    y = y
    g = g
    plain = plain
    inG = inG
    Item = {G, P}
    Value = {g, plain, inG}
    Nil = Nil
    Fits <- MCFitsRefs
    Refs <- MCRefs
    Code <- MCCode
    PageSize = 1
    RetryCodes = {}
    FatalCodes = {}
    Choices = {"use_cloud"}
    Faults = {}
    Switch = {}
    Spare = {}
    MaxTransaction = 1
    MaxRevision = 5
    MaxPeerWrites = 2
INVARIANTS
    PendingIsLocal
