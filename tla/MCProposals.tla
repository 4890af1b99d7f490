------------------------------ MODULE MCProposals ------------------------------
(* Small instances of Proposals for TLC. *)
EXTENDS Proposals, TLC

MCSymmetry == Permutations(Ids) \cup Permutations(Sessions)
=============================================================================
