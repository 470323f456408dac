SPECIFICATION Spec
CONSTANTS
    MaxItems = 3
    MaxPushes = 6
INVARIANTS
    TypeOK
    Bounded
    NoStreamLost
    QueuedIsNowhereElse
    InOrder
PROPERTY
    StepKeepsOrder

