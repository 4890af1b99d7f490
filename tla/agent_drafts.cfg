\* Two scope drafts, one rewrite draft, two communications, two requests at once.
SPECIFICATION Spec
CONSTANTS
    ScopeDrafts = {d1, d2}
    RewriteDrafts = {u1}
    Comms = {c1, c2}
    Texts = {t1, t2}
    Requests = {r1, r2}
    MaxRequests = 3
    None = None
SYMMETRY MCSymmetry
INVARIANTS
    AgentTypeOK
    ScopeIsOneDraft
    ClientSeesReviewedText
    DeliveredOnce
CHECK_DEADLOCK FALSE
