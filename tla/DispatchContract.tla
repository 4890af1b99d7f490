---------------------------- MODULE DispatchContract ----------------------------
(***************************************************************************)
(* What the dispatch layer promises, with no sessions, locks or            *)
(* transactions: an assignment is drafted once, sent at most once, only    *)
(* out of DRAFT and only while its job is dispatchable, in the same        *)
(* instant as the job's advance; afterwards it moves freely but never back *)
(* to DRAFT or SENT; a milestone may carry its own job, and no other.      *)
(* JobDispatch is shown to implement it.                                   *)
(***************************************************************************)
EXTENDS Naturals

CONSTANTS Jobs, Assignments, JobOf, None,
          JobCodes, AsgCodes,
          Dispatchable, AdvanceFrom,  \* a job that takes a send; one it advances
          Milestones, FollowTo        \* what a milestone makes of the job

VARIABLES status, \* status of an assignment, None before it is drafted
          sends,  \* times an assignment was sent to its vendor
          job     \* status of a job

Init ==
    /\ status = [a \in Assignments |-> None]
    /\ sends  = [a \in Assignments |-> 0]
    /\ job    = [j \in Jobs |-> "NEW"]

Draft(a) ==
    /\ status[a] = None
    /\ status' = [status EXCEPT ![a] = "DRAFT"]
    /\ UNCHANGED <<sends, job>>

Send(a) ==
    /\ status[a] = "DRAFT"
    /\ sends[a] = 0
    /\ job[JobOf[a]] \in Dispatchable
    /\ status' = [status EXCEPT ![a] = "SENT"]
    /\ sends' = [sends EXCEPT ![a] = 1]
    /\ job' = [job EXCEPT ![JobOf[a]] = IF @ \in AdvanceFrom THEN "DISPATCHED" ELSE @]

Move(a, to) ==
    /\ status[a] \notin {None, to}
    /\ to \notin {"DRAFT", "SENT"}
    /\ status' = [status EXCEPT ![a] = to]
    /\ \/ job' = job
       \/ to \in Milestones /\ job' = [job EXCEPT ![JobOf[a]] = FollowTo[to]]
    /\ UNCHANGED sends

\* An operator's or accounting's own decision about the job.
SetJob(j, to) ==
    /\ job' = [job EXCEPT ![j] = to]
    /\ UNCHANGED <<status, sends>>

Next ==
    \/ \E a \in Assignments : Draft(a) \/ Send(a)
    \/ \E a \in Assignments, to \in AsgCodes : Move(a, to)
    \/ \E j \in Jobs, to \in JobCodes : SetJob(j, to)

Spec == Init /\ [][Next]_<<status, sends, job>>
=============================================================================
