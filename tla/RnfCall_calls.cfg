CONSTANTS
    c1 = c1
    c2 = c2
    c3 = c3
    Calls = {c1, c2, c3}
    Nobody = Nobody
    Abortable = {c3}
SPECIFICATION FairSpec
INVARIANTS
    TypeOK
    SignalFindsItsCall
    NeverDestroyedActive
    ToldTheTruthOnce
    ToldOnceInSpiteOfAbort
PROPERTIES
    EveryCookieIsAnswered
