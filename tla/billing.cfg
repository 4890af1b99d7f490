\* One change order, two vendor invoices approved by two requests, two client
\* invoices created by two requests and one invoice draft.
SPECIFICATION Spec
CONSTANTS
    MaxAmount = 2
    Orders = {o1}
    Invoices = {i1, i2}
    Approvers = {a1, a2}
    MaxPaid = 2
    JobLevel = JobLevel
    Links = {1, JobLevel}
    Bills = {b1, b2}
    Drafts = {d1}
    Clerks = {c1, c2}
    MaxReceived = 2
    MaxRequests = 5
    None = None
SYMMETRY MCSymmetry
INVARIANTS
    BillingTypeOK
    NoSilentOverrun
    EachCeilingCrossedOnce
    PaymentsMatch
    NumbersGapless
    SnapshotNeverOverstatesCost
PROPERTIES
    MaterializedOnce
    CommitmentsFrozen
CHECK_DEADLOCK FALSE
