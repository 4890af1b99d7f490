----------------------------- MODULE MCJobDispatch -----------------------------
(* Small instances of JobDispatch for TLC. *)
EXTENDS JobDispatch, TLC

CONSTANTS j1, a1, a2

MCJobOf == [a \in Assignments |-> j1]

MCSymmetry == Permutations(Sessions) \cup Permutations(Assignments)
=============================================================================
