------------------------------ MODULE MCPublishing ------------------------------
(* Small instances of ProposalPublishing for TLC. *)
EXTENDS ProposalPublishing, TLC

MCSymmetry == Permutations(Ids) \cup Permutations(Operators)
=============================================================================
