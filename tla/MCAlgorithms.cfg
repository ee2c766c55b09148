CONSTANTS
    Modulus = 1024
    MaxNodes = 3
    MaxCount = 26
    ManyNodes = 4
    SmallCount = 9
    MaxPerPage = 5
    MaxSize = 3
    Unrun = Unrun
    FirstCounts <- SomeCounts
    Crash = Crash
    NoRecord = NoRecord
    NotFound = NotFound
    Nothing = Nothing
SPECIFICATION MCSpec
CHECK_DEADLOCK FALSE
INVARIANTS
    NothingOverdrawn
    EndsBalanced
    Stable
    PagesPartition
    MasterPageIsRight
    PatchReplacesCalls
    MergeIgnoresOrder
