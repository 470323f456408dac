CONSTANTS
    s1 = s1
    s2 = s2
    Streams = {s1, s2}
    Network = {}
    Linked = {}
    Cached = {}
    Refused = {}
    Broker <- BrokerOfStreams
    Empty = {}
    Urls <- UrlsOfStreams
    Unplayable = {}
    Unopenable <- UnopenableUrls
    MaxItems = 1
    Commands = {"ACTIVATE", "START", "PUSH", "CLEAR"}
    KeepArgs <- JustAppend
    ClearArgs = {0}
    Percents = {}
    Reasons = {}
    GstEvents <- NoEvents
    Pool = {}
    Tasks = {}
    MaxBus = 2
    MaxIdle = 1
SPECIFICATION Spec
SYMMETRY StreamSymmetry
INVARIANTS
    HeardIsKnown
CHECK_DEADLOCK FALSE
