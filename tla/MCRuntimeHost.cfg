SPECIFICATION Spec
CONSTANTS
    a = a
    k = k
    local = local
    account = account
    Call = {a, k}
    Computes = {k}
    Guarded = {a}
    Workspace = {local, account}
    Offline = local
    Commit = Commit
    Close = Close
    Nil = Nil
    Capacity = 1
    MaxPending = 2
    MaxHosts = 3
    MaxFaults = 1
CHECK_DEADLOCK FALSE
INVARIANTS
    TypeOK
    SingleOwner
    WritesStayHome
    ActiveIsRunning
PROPERTIES
    OutcomesAreTrue
    CallsReturn
    SwitchEnds
