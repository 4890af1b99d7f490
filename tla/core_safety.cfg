\* Two requests in flight, one job, two assignments.
SPECIFICATION Spec
CONSTANTS
    j1 = j1
    a1 = a1
    a2 = a2
    Jobs = {j1}
    Assignments = {a1, a2}
    JobOf <- MCJobOf
    Sessions = {s1, s2}
    PoolSize = 3
    MaxRequests = 4
    OperatorTargets = {"ON_SITE", "WORK_COMPLETE", "CANCELLED"}
    JobTargets = {"ON_HOLD", "COMPLETED", "NEW"}
    OfficeOps = {"ready", "close"}
    None = None
SYMMETRY MCSymmetry
INVARIANTS
    TypeOK
    SentAtMostOnce
    AssignmentHistoryChain
    LockedWritersOverwriteWhatTheyRead
PROPERTIES
    FirstCloseWins
    SendRespectsJob
    ImplementsContract
CHECK_DEADLOCK FALSE
