SPECIFICATION FairSpec
CONSTANTS
    Channels = {1}
    AlertRoute = {1}
    FailRoute = {1}
    Workers = {serve, manual}
    ServeWorker = serve
    Lease = 1
    Hold = 1
    Limit = 1
    MaxAge = 1
    Destinations = {{"ok", "error"}, {"refused"}}
    Backoffs = {1}
    KeepEvents = 1
    KeepDeliveries = 1
    MaxAlerts = 2
    MaxEvents = 4
    MaxRows = 4
    MaxTime = 2
    MaxFaults = 1
    Absent = absent
    NoRow = norow
CHECK_DEADLOCK FALSE
INVARIANTS
    QueuedHasEvent
    NoSilentLoss
PROPERTIES
    ChannelOrder
    QueueDrains
