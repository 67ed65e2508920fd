SPECIFICATION Spec
CONSTANTS
    MaxTerms = 4
    MaxNameChars = 3
    MaxPathChars = 5
    MaxWrappers = 4
    MaxShares = 3
    Sizes <- MCSizes
    BufferSizes <- MCBufferSizes
    MaxEntries = 2
    MaxNameLength = 2
    MaxTrans2Fragments = 2
    MaxSkipped = 2
CHECK_DEADLOCK FALSE
INVARIANTS
    MatchAgrees
    PathsAgree
    ErrorsKeepClass
    RepliesWhole
    MessagesFit
    InfoKept
