SPECIFICATION Spec
CONSTANTS
    Requests = {s1, t1}
    Settled = {s1}
    Transactions = {t1}
    NumMIDs = 2
    QueueDepth = 2
    MaxFragments = 2
    NoReq = NoReq
    Down = Down
INVARIANT
    NoPanic
PROPERTIES
    CancelReturns
    AnsweredReturns
    TeardownWakesAll
    ImplementsCalls
