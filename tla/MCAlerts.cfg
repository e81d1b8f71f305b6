SPECIFICATION MCSpec
CONSTANTS
    Channels = {1}
    Hour = 4
    Minute = 1
    SlackDiv = 3
    Repeats = {0, 2, 6}
    Scopes = {"all", "job"}
    KeepRuns = 3
    MaxTime = 11
    MaxChanges = 1
    MaxFaults = 1
    Unset = unset
    Off = off
    None = none
    JobNames = {"a", "b"}
    ChannelNames = {"c"}
    Files <- TwoFiles
    CheckLists <- TwoLists
    Slugs <- OneSlug
    Values = {"v1", "v2"}
    DefaultPeriod = 3
    MaxSyncs = 2
    MaxImports = 2
    MaxOps = 1
    MaxSyncFaults = 1
    Nil = nil
    Random = random
    Damaged = damaged
CHECK_DEADLOCK FALSE
INVARIANTS
    HeldIsNews
    Announced
    SyncConverges
    ImportReaches
PROPERTIES
    Spaced
    RecoveryFollows
    HeldSettles
