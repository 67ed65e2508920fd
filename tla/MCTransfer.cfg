SPECIFICATION Spec
CONSTANTS
    TotalSize = 7
    ChunkSize = 2
    MaxMpxCount = 3
    DepthCap = 2
INVARIANTS
    SettledOnReturn
    EntriesOwned
    TruthfulCount
    ReadHasNoHole
PROPERTY EndsWhenCancelled
