\* One request at a time over one job, among vendors and operators.
SPECIFICATION RSpec
CONSTANTS
    j1 = j1
    j2 = j2
    a1 = a1
    a2 = a2
    a3 = a3
    a4 = a4
    Jobs = {j1}
    Assignments = {a1, a2, a3}
    JobOf <- OneJob
    Workers = {w1}
    Ops = {"sweep", "retry", "prepare", "approve", "cancel", "dispatch"}
    MaxAttempts = 2
    Cap = 2
    OperatorTargets = {"GHOSTED"}
    JobTargets = {"CANCELLED"}
    JobCodes = {"NEW", "DISPATCHED", "PENDING_INVOICE", "CANCELLED"}
    AsgCodes = {"DRAFT", "SENT", "ACCEPTED", "DECLINED", "GHOSTED"}
    Dispatchable = {"NEW", "DISPATCHED"}
    AdvanceFrom = {"NEW"}
    Milestones = {"WORK_COMPLETE"}
    FollowTo <- MCFollowTo
    None = None
SYMMETRY MCSymmetry
INVARIANTS
    RTypeOK
    ReplacedOnce
    AutonomyBounded
PROPERTIES
    GhostedWasStuck
CHECK_DEADLOCK FALSE
