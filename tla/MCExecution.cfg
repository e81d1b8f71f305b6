SPECIFICATION MCSpec
CONSTANTS
    Types = {"shell", "http", "probe", "drill"}
    TimeoutSeconds = {20}
    Retries = {1}
    MaxChecks = 1
    MaxDurations = {1}
    Second = 1
    DefaultTimeout = 1
    KillGrace = 1
    CleanupTimeout = 1
    Forever = 6
    MaxLag = 1
    Letters = {"a"}
    Lead = "L"
    Cont = "C"
    NUL = "0"
    Limit = 2
    MaxPrinted = 9
    Chunks = {1, 3}
CHECK_DEADLOCK FALSE
INVARIANTS
    WithinLimit
    
    
    
PROPERTIES
    RunEnds
