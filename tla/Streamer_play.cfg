CONSTANTS
    s1 = s1
    s2 = s2
    s3 = s3
    Streams = {s1, s2, s3}
    Network = {s2}
    Linked = {s1}
    Cached = {s1}
    Refused = {}
    Broker <- BrokerOfStreams
    Empty = {}
    Urls <- UrlsOfStreams
    Unplayable = {}
    Unopenable <- UnopenableUrls
    MaxItems = 1
    Commands = {"ACTIVATE", "START", "PAUSE", "SEEK", "PUSH"}
    KeepArgs <- JustAppend
    ClearArgs = {}
    Percents = {"0", "LOW", "100"}
    Reasons = {}
    GstEvents <- PrerollAndClock
    Pool = {}
    Tasks = {}
    MaxBus = 2
    MaxIdle = 1
SPECIFICATION Spec
SYMMETRY StreamSymmetry
INVARIANTS
    TypeOK
    HeardIsKnown
    PlayingWhenAsked
    NoLostWakeup
    ResolverInCharge
    NoRealtimeWhileBuffering
CHECK_DEADLOCK TRUE
