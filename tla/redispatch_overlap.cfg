\* Two sweeps that overlap.
SPECIFICATION RSpec
CONSTANTS
    j1 = j1
    j2 = j2
    a1 = a1
    a2 = a2
    a3 = a3
    a4 = a4
    Jobs = {j1}
    Assignments = {a1, a2, a3}
    JobOf <- OneJob
    Workers = {w1, w2}
    Ops = {"sweep"}
    MaxAttempts = 2
    Cap = 2
    OperatorTargets = {}
    JobTargets = {}
    JobCodes = {"NEW", "DISPATCHED", "PENDING_INVOICE", "CANCELLED"}
    AsgCodes = {"DRAFT", "SENT", "ACCEPTED", "DECLINED", "GHOSTED"}
    Dispatchable = {"NEW", "DISPATCHED"}
    AdvanceFrom = {"NEW"}
    Milestones = {"WORK_COMPLETE"}
    FollowTo <- MCFollowTo
    None = None
SYMMETRY MCSymmetry
INVARIANTS
    ReplacedOnce
CHECK_DEADLOCK FALSE
