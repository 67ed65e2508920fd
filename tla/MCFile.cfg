SPECIFICATION Spec
CONSTANTS
    streamer = streamer
    other = other
    Callers <- MCCallers
    Ops <- Roles
    MaxSize = 3
    InitialSize = 2
    ReadChunk = 2
    WriteChunk = 2
    Lengths = {3}
    Starts = {0}
    Seeks <- Backwards
    MaxCalls = 2
INVARIANTS
    ReadContiguous
    TruthfulWrite
    NothingLeftBehind
    PositionAddsUp
PROPERTY
    CancelledReturns
CHECK_DEADLOCK FALSE
