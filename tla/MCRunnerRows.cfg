SPECIFICATION Spec
CONSTANTS
    Jobs = {1}
    MaxRuns = 1
    Limits = {0, 1}
    MaxLimit = 1
    Slack = 2
    Manual = {}
    Serve = serve
    NoOne = noone
    Unborn = unborn
    Deleted = deleted
    Workers = {w1}
    Clients = {c1}
    ClientOps = {"run", "sync"}
    JobKinds = {"repeat"}
    Damages = {"none", "unreadable"}
    MaxTries = 2
    LoadDelay = 0
    FinishDelay = 1
    MaxFaults = 1
    MaxCrashes = 0
    MayStick = {}
CHECK_DEADLOCK FALSE
INVARIANTS
    TypeOK
    HealthyNotReaped
