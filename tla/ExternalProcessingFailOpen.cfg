SPECIFICATION ExtProcSpec
CONSTANTS
    MaxFrames = 2
    MergeLimit = 2
INVARIANTS
    FailOpenKeepsBody
CHECK_DEADLOCK FALSE
