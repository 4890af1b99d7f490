SPECIFICATION Spec
CONSTANTS
    j1 = j1
    a1 = a1
    a2 = a2
    Jobs = {j1}
    Assignments = {a1, a2}
    JobOf <- MCJobOf
    Sessions = {s1, s2}
    PoolSize = 3
    MaxRequests = 4
    OperatorTargets = {"ON_SITE", "WORK_COMPLETE"}
    JobTargets = {"ON_HOLD"}
    OfficeOps = {"close"}
    None = None
INVARIANT FollowNeverRegresses
CHECK_DEADLOCK FALSE
