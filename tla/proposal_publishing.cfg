\* Two publishers of one agent draft, one reviser and the office around them.
SPECIFICATION PubSpec
CONSTANTS
    Ids = {p1, p2}
    Sessions = {s1}
    Drafts = {d1}
    Operators = {o1, o2}
    MaxTotal = 2
    Nte = 1
    None = None
SYMMETRY MCSymmetry
INVARIANTS
    PubTypeOK
    PublishedOnce
    BilledOnlyByPublication
PROPERTIES
    LinkIsFinal
    DisposedStaysUnpublished
CHECK_DEADLOCK FALSE
