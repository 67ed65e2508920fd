SPECIFICATION Spec
CONSTANTS
    Requests = {p1, s1, t1}
    Settled = {s1}
    Transactions = {t1}
    NumMIDs = 2
    QueueDepth = 1
    MaxFragments = 2
    NoReq = NoReq
    Down = Down
INVARIANTS
    RepliesAreOwn
    HeldMIDsAwaitReply
    SettledBeforeReturn
    ConnIInv
PROPERTY
    TornDownOnce
