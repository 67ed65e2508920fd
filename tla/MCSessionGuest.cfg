SPECIFICATION Spec
CONSTANTS
    Users = {u1}
    TIDs = {t1}
    NoTID = NoTID
    MaxFaults = 1
    MaxCalls = 1
INVARIANT GuestKnown
CHECK_DEADLOCK FALSE
