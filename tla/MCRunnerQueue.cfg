SPECIFICATION Spec
CONSTANTS
    Jobs = {1}
    MaxRuns = 2
    Limits = {1}
    MaxLimit = 1
    Slack = 2
    Manual = {m1}
    Serve = serve
    NoOne = noone
    Unborn = unborn
    Deleted = deleted
    Workers = {w1}
    Clients = {}
    ClientOps = {}
    JobKinds = {"repeat"}
    Damages = {}
    MaxTries = 2
    LoadDelay = 0
    FinishDelay = 1
    MaxFaults = 1
    MaxCrashes = 1
    MayStick = {w1}
CHECK_DEADLOCK FALSE
INVARIANTS
    OneTerminalEvent
    ExecutedByOne
    SchedulerNoOverlap
PROPERTIES
    ImplementsLifecycle
