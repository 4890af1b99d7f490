\* One sweep over the silent vendors of two jobs, a ceiling that allows one.
SPECIFICATION RSpec
CONSTANTS
    j1 = j1
    j2 = j2
    a1 = a1
    a2 = a2
    a3 = a3
    a4 = a4
    Jobs = {j1, j2}
    Assignments = {a1, a2, a3, a4}
    JobOf <- TwoJobs
    Workers = {w1}
    Ops = {"sweep"}
    MaxAttempts = 2
    Cap = 2
    OperatorTargets = {}
    JobTargets = {}
    JobCodes = {"NEW", "DISPATCHED", "PENDING_INVOICE", "CANCELLED"}
    AsgCodes = {"DRAFT", "SENT", "ACCEPTED", "DECLINED", "GHOSTED"}
    Dispatchable = {"NEW", "DISPATCHED"}
    AdvanceFrom = {"NEW"}
    Milestones = {"WORK_COMPLETE"}
    FollowTo <- MCFollowTo
    None = None
INVARIANTS
    SpendHalted
CHECK_DEADLOCK FALSE
