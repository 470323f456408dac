CONSTANTS
    s1 = s1
    s2 = s2
    s3 = s3
    Streams = {s1, s2, s3}
    Network = {s3}
    Linked = {}
    Cached = {}
    Refused = {}
    Broker <- BrokerOfStreams
    Empty = {s3}
    Urls <- UrlsOfStreams
    Unplayable = {}
    Unopenable <- UnopenableUrls
    MaxItems = 2
    Commands = {"ACTIVATE", "DEACTIVATE", "START", "STOP", "NEXT", "DEVICE_REMOVED", "PUSH", "CLEAR"}
    KeepArgs <- AnyKeep
    ClearArgs = {0, 1}
    Percents = {}
    Reasons = {}
    GstEvents <- NoEvents
    Pool = {}
    Tasks = {}
    MaxBus = 2
    MaxIdle = 1
SPECIFICATION Spec
SYMMETRY StreamSymmetry
INVARIANTS
    OnlyHeadIsActivated
    QueuedIsOwed
CHECK_DEADLOCK FALSE
