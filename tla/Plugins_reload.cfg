\* Two files, three changes, and a pipeline at any time.
SPECIFICATION FairSpec
CONSTANTS
    Low = Low
    High = High
    AlsoHigh = AlsoHigh
    Files = {f1, f2}
    Versions = {Low, High}
    Priority <- MCPriority
    Threads = {t1}
    SlashInDir = FALSE
    EarlyEdits = FALSE
    MaxEdits = 3
    Broken = Broken
    Absent = Absent
    None = None
INVARIANTS TypeOK Converges PriorityOrder OthersKept
PROPERTY HotReload
CHECK_DEADLOCK FALSE
