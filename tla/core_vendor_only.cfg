\* Vendors report their milestones; operators prepare assignments and move jobs
\* where a follow may start.  j2's moves meet j1's at the status rows.
SPECIFICATION FairSpec
CONSTANTS
    j1 = j1
    a1 = a1
    a2 = a2
    j2 = j2
    Jobs = {j1, j2}
    Assignments = {a1, a2}
    JobOf <- MCJobOf
    Sessions = {s1, s2}
    PoolSize = 3
    MaxRequests = 4
    OperatorTargets = {"CONFIRMED"}
    JobTargets = {"NEW", "DISPATCHED"}
    OfficeOps = {}
    None = None
INVARIANTS
    FollowNeverRegresses
PROPERTY RequestsFinish
CHECK_DEADLOCK FALSE
