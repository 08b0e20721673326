SPECIFICATION Spec
CONSTANTS
    call = call
    Caller = {call}
    Timer = Timer
    Nil = Nil
    MaxDue = 1
    MaxLogins = 1
    MaxFaults = 1
CHECK_DEADLOCK FALSE
INVARIANTS
    TypeOK
    OneTimeTokens
    HoldsLiveToken
PROPERTIES
    SessionStays
    SyncChoiceStays
    RenewedOrEnded
    CallsReturn
