SPECIFICATION MCSpec
CHECK_DEADLOCK FALSE
CONSTANTS
    c = c
    u = u
    x = x
    y = y
    none = none
    Nil = none
    Copy = {c}
    Upload = {u}
    Caller = {x, y}
    Size = 2
    MaxActive = 1
    MaxNames = 2
    MaxFaults = 1
INVARIANTS
    TypeOK
    SlotsAccounted
    CompletedIsDelivered
    AckedIsKept
PROPERTIES
    DestinationKept
