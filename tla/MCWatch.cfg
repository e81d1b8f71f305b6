SPECIFICATION MCSpec
CONSTANTS
    Ids = {1, 2}
    Names = {"a"}
    Rids = {r1}
    NoRid = norid
    Periods = {1}
    Graces = {0, 1}
    Requests = {q1}
    MaxTime = 4
    MaxFaults = 0
    MaxRestarts = 1
    Unborn = unborn
    Gone = gone
    Signals = {2, 15}
    SigBuffer = 4
    MaxSignals = 2
    Retries = 2
    Timeout = 2
    StartBudget = 3
    FinishBudget = 5
    FirstBackoff = 1
    MaxBackoff = 2
    RetryAfters = {1, 9}
    MaxRetryAfter = 3
    None = none
    Day = 1
    WarnDays = 1
    Num = 2
    Den = 3
    RenewalGraceMax = 2
    Lifetimes = {0, 3, 5}
    Domains = {d1, d2}
    TTL = 2
    MaxLines = 2
    ProbeMaxTime = 5
    MaxChanges = 1
CHECK_DEADLOCK FALSE
INVARIANTS
    SignalsHeard
    PingsWithinBudget
    CompletionHonest
    BootstrapFresh
PROPERTIES
    OverdueDetected
    WrapperEnds
    
    TalkEnds
