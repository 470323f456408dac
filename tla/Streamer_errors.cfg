CONSTANTS
    s1 = s1
    s2 = s2
    s3 = s3
    Streams = {s1, s2, s3}
    Network = {}
    Linked = {s1}
    Cached = {}
    Refused = {s1}
    Broker <- BrokerOfStreams
    Empty = {}
    Urls <- UrlsOfStreams
    Unplayable = {s3}
    Unopenable <- UnopenableUrls
    MaxItems = 2
    Commands = {"ACTIVATE", "START", "PAUSE", "PUSH"}
    KeepArgs <- JustAppend
    ClearArgs = {}
    Percents = {}
    Reasons = {"RETRY", "FINAL"}
    GstEvents <- VideoStreams
    t1 = t1
    Pool = {t1}
    Tasks = {"dmultiqueue", "typefind:sink"}
    MaxBus = 2
    MaxIdle = 1
SPECIFICATION Spec
SYMMETRY StreamSymmetry
INVARIANTS
    
    PrefetchedIsNext
    
    RealtimeWhilePlaying
    SchedulingFollows
PROPERTIES
    HonestNowPlaying
    
CHECK_DEADLOCK TRUE
