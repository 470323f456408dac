CONSTANTS
    s1 = s1
    s2 = s2
    Streams = {s1, s2}
    Network = {}
    Linked = {s1}
    Cached = {}
    Refused = {}
    Broker <- BrokerOfStreams
    Empty = {}
    Urls <- UrlsOfStreams
    Unplayable = {}
    Unopenable <- UnopenableUrls
    MaxItems = 2
    Commands = {"ACTIVATE", "START", "STOP", "NEXT", "PUSH", "CLEAR"}
    KeepArgs <- AnyKeep
    ClearArgs = {1}
    Percents = {}
    Reasons = {"RETRY"}
    GstEvents <- NoEvents
    Pool = {}
    Tasks = {}
    MaxBus = 2
    MaxIdle = 1
SPECIFICATION Spec
SYMMETRY StreamSymmetry
INVARIANTS
    ResolverInCharge
CHECK_DEADLOCK FALSE
