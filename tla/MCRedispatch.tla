------------------------------ MODULE MCRedispatch ------------------------------
(* Small instances of Redispatch for TLC. *)
EXTENDS Redispatch, TLC

CONSTANTS j1, j2, a1, a2, a3, a4

\* All assignments are of one job, or two of each of two jobs.
OneJob  == [a \in Assignments |-> j1]
TwoJobs == [a \in Assignments |-> IF a \in {a1, a2} THEN j1 ELSE j2]

MCFollowTo == [m \in Milestones |-> "PENDING_INVOICE"]

MCSymmetry == Permutations(Assignments)
=============================================================================
