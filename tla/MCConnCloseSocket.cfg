SPECIFICATION Spec
CONSTANTS
    Requests = {p1}
    Settled = {}
    Transactions = {}
    NumMIDs = 2
    QueueDepth = 1
    MaxFragments = 1
    NoReq = NoReq
    Down = Down
INVARIANT CloseClosesSocket
