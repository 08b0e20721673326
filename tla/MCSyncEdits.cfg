SPECIFICATION Spec
CONSTANTS
    G = G
    P = P
    a = a
    b = b
    x = x
    y = y
    g = g
    plain = plain
    inG = inG
    Item = {a, b}
    Value = {x, y}
    Nil = Nil
    Fits <- MCFits
    Refs <- MCNoRefs
    Code <- MCCode
    PageSize = 1
    RetryCodes = {}
    FatalCodes = {}
    Choices = {"keep_local", "use_cloud", "merge", "keep_both"}
    Faults = {"lose", "duplicate", "crash"}
    Switch = {}
    Spare = {b}
    MaxTransaction = 1
    MaxRevision = 3
    MaxPeerWrites = 2
SYMMETRY Symmetry
INVARIANTS
    PendingIsLocal
    HistoryAgrees
    SyncedIsCloud
    ConflictShowsCloud
    EditsBuildOnCloud
    NoProtocolError
    AbandonedNeverApplies
PROPERTIES
    NoEditDropped
    ResolvesWhatWasSeen
