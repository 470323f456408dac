CONSTANTS
    s1 = s1
    s2 = s2
    Streams = {s1, s2}
    Network = {}
    Linked = {s1}
    Cached = {}
    Refused = {}
    Broker <- BrokerOfStreams
    Empty = {}
    Urls <- UrlsOfStreams
    Unplayable = {}
    Unopenable <- UnopenableUrls
    MaxItems = 1
    Commands = {"ACTIVATE", "START", "PUSH"}
    KeepArgs <- JustAppend
    ClearArgs = {}
    Percents = {}
    Reasons = {}
    GstEvents <- NoEvents
    Pool = {}
    Tasks = {}
    MaxBus = 2
    MaxIdle = 1
SPECIFICATION Spec
SYMMETRY StreamSymmetry
INVARIANTS
    CurrentWhilePlaying
CHECK_DEADLOCK FALSE
