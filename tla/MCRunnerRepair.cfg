SPECIFICATION Spec
CONSTANTS
    Jobs = {1}
    MaxRuns = 1
    Limits = {1}
    MaxLimit = 1
    Slack = 2
    Manual = {}
    Serve = serve
    NoOne = noone
    Unborn = unborn
    Deleted = deleted
    Workers = {w1}
    Clients = {c1}
    ClientOps = {"sync"}
    JobKinds = {"repeat"}
    Damages = {"unreadable"}
    MaxTries = 2
    LoadDelay = 0
    FinishDelay = 1
    MaxFaults = 0
    MaxCrashes = 1
    MayStick = {w1}
CHECK_DEADLOCK FALSE
PROPERTIES
    RepairedStaysScheduled
