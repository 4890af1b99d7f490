------------------------------ MODULE MCAgentDrafts ------------------------------
(* Small instances of AgentDrafts for TLC. *)
EXTENDS AgentDrafts, TLC

MCSymmetry == Permutations(ScopeDrafts) \cup Permutations(RewriteDrafts)
              \cup Permutations(Comms) \cup Permutations(Texts)
              \cup Permutations(Requests)
=============================================================================
