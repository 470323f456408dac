CONSTANTS
    Streams = {1, 2}
    Preset = p
    TagLists = {p, a}
    Cooldown = 2
    MaxPos = 1
    Sources = {t1, t2}
    p = p
    a = a
    t1 = t1
    t2 = t2
SPECIFICATION FairSpec
INVARIANTS
    NoUpdateLost
    KnownPositionIsOwn
PROPERTIES
    
    EveryTagListIsShown
    LastPositionIsShown
