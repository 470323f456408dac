CONSTANTS
    s1 = s1
    s2 = s2
    Streams = {s1, s2}
    Network = {}
    Linked = {}
    Cached = {}
    Refused = {}
    Broker <- BrokerOfStreams
    Empty = {}
    Urls <- UrlsOfStreams
    Unplayable = {}
    Unopenable <- UnopenableUrls
    MaxItems = 1
    Commands = {"ACTIVATE", "START", "PAUSE", "PUSH"}
    KeepArgs <- JustAppend
    ClearArgs = {}
    Percents = {}
    Reasons = {"FINAL"}
    GstEvents <- NoEvents
    Pool = {}
    Tasks = {}
    MaxBus = 2
    MaxIdle = 1
SPECIFICATION FairSpec
INVARIANTS
    PlainInv
PROPERTIES
    EveryStreamGetsItsTurn
CHECK_DEADLOCK TRUE
