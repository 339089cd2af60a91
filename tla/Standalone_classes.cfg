\* The parts that call no other, explored one at a time.
SPECIFICATION SpecAll
CONSTANTS
    Keys = {k1}
    Limits <- MCLimits
    Second = 2
    MaxClock = 6
    Absent = Absent
    Models = {"local", "other"}
    Star = "*"
    Local = "local"
    Configs <- MCConfigs
    Fallback <- MCFallback
    MaxPicks = 10
    MaxMarks = 1
    BufSize = 3
    MaxLines = 4
    StoreKeys = {k1, k2, k3}
    MaxSize = 2
    TTLs = {0, 1, 2}
    LastTime = 3
    Nothing = None
    Plugins <- MCPlugins
    PoolSize = 2
    Limit = 7
    Costs = {2}
    StackSize = 6
    MaxRuns = 3
    Threads = {t1, t2}
    Empty = Empty
    Garbled = Garbled
    NoName = NoName
    None = None
    Data = Data
    CR = CR
    LF = LF
    Close = Close
    DoneMark = DoneMark
INVARIANTS
    TypeOK TypesOK RateBound SpacedIsAdmitted WeightsBounded WeightedShare NoStarvation
    LoggedInOrder CutsDoNotMatter RecentAreKept ChainOfHooks Verdict NoAlienGlobals
CHECK_DEADLOCK FALSE
