-------------------------------- MODULE MCIntake --------------------------------
(* Small instances of Intake for TLC. *)
EXTENDS Intake, TLC

CONSTANT m1   \* a Message-ID

\* Every stored e-mail is a copy of one message.
MCMessageOf == [e \in Emails |-> m1]

MCSymmetry == Permutations(Emails) \cup Permutations(Visits) \cup Permutations(Members)
              \cup Permutations(Sites) \cup Permutations(Workers)
=============================================================================
