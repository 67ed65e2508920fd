SPECIFICATION Spec
CONSTANTS
    Paths <- MCPaths
    Patterns <- MCPatterns
    FileLen = 2
    MaxTrouble = 1
    Ops = {"remove", "removeAll", "mkdir", "mkdirAll", "rename", "walk", "glob", "copy", "dirFS"}
    Batch = 1
    MaxRetries = 1
    PageSize = 1
    MaxCalls = 1
INVARIANTS NilMeansDone NothingLeftOpen WalkComplete ListingsComplete
PROPERTIES CallReturns
CHECK_DEADLOCK FALSE
