\* Two copies of one message, one portal order, a schedule of one location, a storm
\* over two sites; two requests at once, three in all.
SPECIFICATION Spec
CONSTANTS
    m1 = m1
    Emails = {e1, e2}
    MessageOf <- MCMessageOf
    Orders = {w1}
    Visits = {v1, v2, v3}
    Members = {l1}
    Sites = {x1, x2}
    Workers = {s1, s2}
    MaxRequests = 3
    None = None
SYMMETRY MCSymmetry
INVARIANTS
    IntakeTypeOK
    EveryJobAccounted
    OneDraftPerMessage
    NoCycleLost
CHECK_DEADLOCK FALSE
