--------------------------------- MODULE Money ---------------------------------
(***************************************************************************)
(* Amounts of money, as the billing modules use them.  An amount is a      *)
(* number of units; the sum of an amount over a set of rows is the number  *)
(* of units those rows have, so that sums are cardinalities.               *)
(***************************************************************************)
EXTENDS Integers, FiniteSets

CONSTANTS MaxAmount, \* bound: greatest amount of one row
          None       \* NULL / no row

ASSUME MoneyAssumption == MaxAmount \in Nat /\ None \notin Int

Amounts == 0..MaxAmount

Units(amount, S) == {u \in S \X (1..MaxAmount) : u[2] <= amount[u[1]]}

Total(amount, S) == Cardinality(Units(amount, S))

\* Overpayment reads "paid"; so does any payment on a total of zero.
DerivePaymentStatus(paid, total) ==
    IF paid >= total THEN "paid" ELSE IF paid > 0 THEN "partially_paid" ELSE "unpaid"

PaymentStatuses == {"unpaid", "partially_paid", "paid"}
=============================================================================
