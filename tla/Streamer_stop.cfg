CONSTANTS
    s1 = s1
    s2 = s2
    s3 = s3
    Streams = {s1, s2, s3}
    Network = {}
    Linked = {}
    Cached = {}
    Refused = {}
    Broker <- BrokerOfStreams
    Empty = {}
    Urls <- UrlsOfStreams
    Unplayable = {}
    Unopenable <- UnopenableUrls
    MaxItems = 2
    Commands = {"ACTIVATE", "DEACTIVATE", "START", "STOP", "PAUSE", "DEVICE_REMOVED", "PUSH", "CLEAR"}
    KeepArgs <- JustAppend
    ClearArgs = {1}
    Percents = {}
    Reasons = {}
    GstEvents <- NoEvents
    Pool = {}
    Tasks = {}
    MaxBus = 3
    MaxIdle = 1
SPECIFICATION Spec
SYMMETRY StreamSymmetry
INVARIANTS
    SilentWhenStopped
    ProgressIsWatched
    NoRestartInStreamingThread
CHECK_DEADLOCK FALSE
