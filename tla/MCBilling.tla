------------------------------- MODULE MCBilling -------------------------------
(* Small instances of Billing for TLC. *)
EXTENDS Billing, TLC

MCSymmetry == Permutations(Invoices) \cup Permutations(Approvers)
              \cup Permutations(Bills) \cup Permutations(Clerks)
=============================================================================
