CONSTANTS
    MainLoop = MainLoop
    g1 = g1
    g2 = g2
    Streaming = {g1, g2}
    c1 = c1
    c2 = c2
    Calls = {c1, c2}
    CallLocks = {c1, c2}
    Locks <- PlayerLocks
    Rank <- PlayerRank
    Outer <- PlayerOuter
    Inner <- PlayerInner
    Programs <- PlayerPrograms
SPECIFICATION Spec
SYMMETRY Symmetry
INVARIANTS
    NoCircularWait
    
