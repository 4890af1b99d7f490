\* Three proposal rows, two requests that revise them at once.
SPECIFICATION Spec
CONSTANTS
    Ids = {p1, p2, p3}
    Sessions = {s1, s2}
    MaxTotal = 1
    None = None
SYMMETRY MCSymmetry
INVARIANTS
    TypeOK
    LiveRevisionIsLatest
    ChainNumbered
    DecidedOnce
PROPERTIES
    SentIsFrozen
    LiveRootIsSuperseded
CHECK_DEADLOCK FALSE
