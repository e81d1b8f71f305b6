SPECIFICATION FairSpec
CONSTANTS
    Jobs = {1}
    MaxRuns = 2
    Limits = {1}
    MaxLimit = 1
    Slack = 1
    Manual = {m1}
    Serve = serve
    NoOne = noone
    Unborn = unborn
    Deleted = deleted
    Workers = {w1}
    Clients = {}
    ClientOps = {}
    JobKinds = {"repeat"}
    Damages = {}
    MaxTries = 2
    LoadDelay = 0
    FinishDelay = 0
    MaxFaults = 0
    MaxCrashes = 1
    MayStick = {w1}
CHECK_DEADLOCK FALSE
PROPERTIES
    OrphanRecovered
    DueJobFires
