SPECIFICATION Spec
CONSTANTS
    Users = {u1, u2}
    TIDs = {t1, t2}
    NoTID = NoTID
    MaxFaults = 1
    MaxCalls = 2
INVARIANTS
    KeysAgree
    NothingLeft
    MapIsCurrent
PROPERTY EndsClosed
CHECK_DEADLOCK FALSE
