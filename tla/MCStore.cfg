SPECIFICATION MCSpec
CONSTANTS
    LogRids = {"", "r1"}
    Sizes = {1, 2}
    MaxRun = 1
    MaxPings = 2
    MaxBytes = 3
    MaxId = 5
    LogMaxTime = 2
    Ids = {1}
    Names = {"a"}
    Rids = {r1}
    NoRid = norid
    Periods = {1}
    Graces = {0, 1}
    Requests = {q1, q2}
    MaxTime = 4
    MaxFaults = 1
    MaxRestarts = 0
    Unborn = unborn
    Gone = gone
    Sessions = {s1, s2}
    Runs = {1, 2}
    Channels = {1, 2}
    Dels = {1, 2}
    MaxTx = 3
SYMMETRY Alike
CHECK_DEADLOCK FALSE
INVARIANTS
    PairedOnce
    
    NoDeadlock
    RecordedOnce
    ForgottenWithJob
    
PROPERTIES
    
    PingWinsRace
