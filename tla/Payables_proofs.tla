---------------------------- MODULE Payables_proofs ----------------------------
(***************************************************************************)
(* Theorems of Payables, for any number of change orders, invoices and     *)
(* concurrent approvals, and any amounts.                                  *)
(*                                                                         *)
(* The argument: the job's lock makes what an approval read still true     *)
(* when it commits (ReadsCurrent).  Approved cost then only grows, at one  *)
(* place, and the effective NTE only grows unless it is adjusted by hand.  *)
(***************************************************************************)
EXTENDS Payables, FiniteSetTheorems, TLAPS

\* Who holds what: an approval past its first lock holds a received invoice no
\* other approval holds, and past its second the job.
LocksOK ==
    /\ \A s \in Approvers :
          /\ pc[s] = "idle" <=> cur[s] = None
          /\ cur[s] # None => invStatus[cur[s]] = "received"
          /\ pc[s] = "job" <=> jobHolder = s
    /\ \A s, t \in Approvers : cur[s] = cur[t] /\ cur[s] # None => s = t

\* What an approval read under the job's lock is still so.
ReadsCurrent ==
    \A s \in Approvers :
        pc[s] = "job" => ceiling[s] = EffectiveNte /\ prior[s] = ApprovedCost

PInv == /\ PayablesTypeOK
        /\ LocksOK
        /\ ReadsCurrent
        /\ NoSilentOverrun
        /\ EachCeilingCrossedOnce
        /\ VendorPaymentsMatch

-----------------------------------------------------------------------------
(* Sums. *)

\* A finite set of rows has a finite sum, which grows with the set.
LEMMA TotalIsNat ==
    ASSUME NEW S, IsFiniteSet(S), NEW amount
    PROVE  /\ IsFiniteSet(Units(amount, S))
           /\ Total(amount, S) \in Nat
<1>1. IsFiniteSet(1..MaxAmount)
  BY MoneyAssumption, FS_Interval
<1>2. IsFiniteSet(S \X (1..MaxAmount))
  BY <1>1, FS_Product
<1>3. IsFiniteSet(Units(amount, S))
  BY <1>2, FS_Subset DEF Units
<1> QED
  BY <1>3, FS_CardinalityType DEF Total

\* The sum depends on the summed rows' amounts only.
LEMMA TotalSame ==
    ASSUME NEW S, NEW f, NEW g, \A x \in S : f[x] = g[x]
    PROVE  Total(f, S) = Total(g, S)
<1>1. Units(f, S) = Units(g, S)
  BY DEF Units
<1> QED
  BY <1>1 DEF Total

\* A row more adds its amount.
LEMMA TotalAdds ==
    ASSUME NEW S, IsFiniteSet(S), NEW x, x \notin S, NEW amount, amount[x] \in Amounts
    PROVE  Total(amount, S \cup {x}) = Total(amount, S) + amount[x]
<1> DEFINE new == {x} \X (1..amount[x])
<1>1. amount[x] \in Nat /\ amount[x] <= MaxAmount
  BY MoneyAssumption DEF Amounts
<1>2. Units(amount, S \cup {x}) = Units(amount, S) \cup new
  <2>1. ASSUME NEW u \in Units(amount, S \cup {x})
        PROVE  u \in Units(amount, S) \cup new
    BY <1>1, <2>1, MoneyAssumption DEF Units
  <2>2. ASSUME NEW u \in Units(amount, S) \cup new
        PROVE  u \in Units(amount, S \cup {x})
    BY <1>1, <2>2, MoneyAssumption DEF Units
  <2> QED
    BY <2>1, <2>2
<1>3. Units(amount, S) \cap new = {}
  BY DEF Units
<1>4. IsFiniteSet(new) /\ Cardinality(new) = amount[x]
  <2>1. IsFiniteSet({x}) /\ Cardinality({x}) = 1
    BY FS_Singleton
  <2>2. IsFiniteSet(1..amount[x]) /\ Cardinality(1..amount[x]) = amount[x]
    BY <1>1, FS_Interval
  <2>3. IsFiniteSet(new) /\ Cardinality(new) = Cardinality({x}) * Cardinality(1..amount[x])
    BY <2>1, <2>2, FS_Product, Zenon
  <2>4. Cardinality(new) = 1 * amount[x]
    BY <2>1, <2>2, <2>3, Zenon
  <2> QED
    BY <1>1, <2>3, <2>4
<1>5. IsFiniteSet(Units(amount, S)) /\ Cardinality(Units(amount, S)) \in Nat
  BY TotalIsNat DEF Total
<1>6. Cardinality(Units(amount, S) \cup new)
        = Cardinality(Units(amount, S)) + Cardinality(new) - Cardinality({})
  BY <1>3, <1>4, <1>5, FS_Union
<1>7. Cardinality({}) = 0
  BY FS_EmptySet
<1>8. Cardinality(Units(amount, S) \cup new) = Cardinality(Units(amount, S)) + amount[x]
  <2> HIDE DEF new
  <2> QED
    BY <1>1, <1>4, <1>5, <1>6, <1>7
<1> QED
  BY <1>2, <1>8 DEF Total

\* A larger set has at least the sum of a smaller one.
LEMMA TotalGrows ==
    ASSUME NEW S, NEW T, IsFiniteSet(T), S \subseteq T, NEW amount
    PROVE  Total(amount, S) <= Total(amount, T)
<1>1. Units(amount, S) \subseteq Units(amount, T)
  BY DEF Units
<1> QED
  BY <1>1, TotalIsNat, FS_Subset DEF Total

\* The derived sums are numbers.
LEMMA SumsAreNat ==
    /\ IsFiniteSet(ApprovedOrders) /\ IsFiniteSet(ApprovedInvoices)
    /\ ApprovedCost \in Nat
    /\ Total(coTotal, ApprovedOrders) \in Nat
    /\ nte \in Amounts \cup {None} => EffectiveNte \in Nat \cup {None}
<1>1. ApprovedOrders \subseteq Orders /\ ApprovedInvoices \subseteq Invoices
  BY DEF ApprovedOrders, ApprovedInvoices
<1>2. IsFiniteSet(ApprovedOrders) /\ IsFiniteSet(ApprovedInvoices)
  BY <1>1, PayablesAssumption, FS_Subset
<1>3. ApprovedCost \in Nat /\ Total(coTotal, ApprovedOrders) \in Nat
  BY <1>2, TotalIsNat DEF ApprovedCost
<1>4. nte \in Amounts \cup {None} => EffectiveNte \in Nat \cup {None}
  BY <1>3, MoneyAssumption DEF EffectiveNte, WithOrders, Amounts
<1> QED
  BY <1>2, <1>3, <1>4

\* While neither the approved rows nor their totals change, the sums do not.
LEMMA CostKept ==
    ASSUME ApprovedInvoices' = ApprovedInvoices,
           \A i \in ApprovedInvoices : invTotal'[i] = invTotal[i]
    PROVE  ApprovedCost' = ApprovedCost
<1>1. Total(invTotal, ApprovedInvoices) = Total(invTotal', ApprovedInvoices)
  BY TotalSame
<1> QED
  BY <1>1 DEF ApprovedCost

LEMMA OrdersKept ==
    ASSUME ApprovedOrders' = ApprovedOrders,
           \A o \in ApprovedOrders : coTotal'[o] = coTotal[o]
    PROVE  Total(coTotal, ApprovedOrders)' = Total(coTotal, ApprovedOrders)
<1>1. Total(coTotal, ApprovedOrders) = Total(coTotal', ApprovedOrders)
  BY TotalSame
<1> QED
  BY <1>1

LEMMA CeilingKept ==
    ASSUME UNCHANGED <<nte, coStatus, coTotal>>
    PROVE  EffectiveNte' = EffectiveNte
BY DEF EffectiveNte, WithOrders, Total, Units, ApprovedOrders

-----------------------------------------------------------------------------
(* What a step does to the two sums. *)

Quiet == /\ ApprovedCost' = ApprovedCost
         /\ EffectiveNte' = EffectiveNte
         /\ UNCHANGED <<crossed, cut>>

Adjusts == /\ jobHolder = None /\ UNCHANGED <<crossed, approvals>>
           /\ ApprovedCost' = ApprovedCost
           /\ EffectiveNte' \in Nat \cup {None}
           /\ cut' = (cut \/ (EffectiveNte' # None /\ ApprovedCost > EffectiveNte'))

Raises == /\ jobHolder = None /\ UNCHANGED <<crossed, cut, approvals>>
          /\ ApprovedCost' = ApprovedCost
          /\ EffectiveNte = None <=> EffectiveNte' = None
          /\ EffectiveNte # None => EffectiveNte' \in Nat /\ EffectiveNte <= EffectiveNte'

Commits(s) == /\ ApproveCommit(s)
              /\ cur[s] \in Invoices /\ invTotal[cur[s]] \in Nat
              /\ EffectiveNte' = EffectiveNte
              /\ ceiling[s] = EffectiveNte /\ prior[s] = ApprovedCost
              /\ ApprovedCost' = ApprovedCost + invTotal[cur[s]]

LEMMA InvoiceFrame ==
    ASSUME UNCHANGED <<nte, coStatus, coTotal, invStatus, invTotal, crossed, cut>>
    PROVE  Quiet
BY DEF Quiet, EffectiveNte, WithOrders, ApprovedCost, Total, Units,
       ApprovedOrders, ApprovedInvoices

LEMMA OrderFrame ==
    ASSUME PInv, NEW o \in Orders, NEW status, NEW total,
           status # "approved", OrderIs(o, status, total), coStatus[o] # "approved"
    PROVE  Quiet
<1> USE DEF PInv, PayablesTypeOK, OrderIs
<1>1. ApprovedOrders' = ApprovedOrders /\ \A x \in ApprovedOrders : coTotal'[x] = coTotal[x]
  BY DEF ApprovedOrders
<1>2. EffectiveNte' = EffectiveNte
  BY <1>1, OrdersKept DEF EffectiveNte, WithOrders
<1>3. ApprovedCost' = ApprovedCost
  BY DEF ApprovedCost, ApprovedInvoices, Total, Units
<1> QED
  BY <1>2, <1>3 DEF Quiet

LEMMA ApproveOrderRaises ==
    ASSUME PInv, NEW o \in Orders, ApproveChangeOrder(o)
    PROVE  Raises
<1>1. /\ JobTakesForeignKey /\ coStatus[o] = "submitted"
      /\ OrderIs(o, "approved", coTotal[o])
  BY DEF ApproveChangeOrder, MoveChangeOrder
<1>2. UNCHANGED <<nte, invStatus, invTotal, crossed, cut, approvals>>
  BY <1>1 DEF OrderIs
<1>3. \A x \in Orders : coTotal'[x] = coTotal[x]
  BY <1>1 DEF PInv, PayablesTypeOK, OrderIs
<1>4. ApprovedOrders \subseteq ApprovedOrders' /\ ApprovedOrders' \subseteq Orders
  BY <1>1 DEF PInv, PayablesTypeOK, OrderIs, ApprovedOrders
<1>5. IsFiniteSet(ApprovedOrders') /\ IsFiniteSet(ApprovedOrders)
  BY <1>4, PayablesAssumption, FS_Subset
<1>6. Total(coTotal, ApprovedOrders) <= Total(coTotal, ApprovedOrders')
  BY <1>4, <1>5, TotalGrows
<1>7. Total(coTotal, ApprovedOrders') = Total(coTotal', ApprovedOrders')
  BY <1>3, <1>4, TotalSame
<1>8. Total(coTotal, ApprovedOrders) \in Nat /\ Total(coTotal, ApprovedOrders') \in Nat
  BY <1>5, TotalIsNat
<1>9. nte \in Nat \cup {None}
  BY MoneyAssumption DEF PInv, PayablesTypeOK, Amounts
<1>10. ApprovedCost' = ApprovedCost
  BY <1>2 DEF ApprovedCost, ApprovedInvoices, Total, Units
<1>11. /\ EffectiveNte = None <=> EffectiveNte' = None
       /\ EffectiveNte # None => EffectiveNte' \in Nat /\ EffectiveNte <= EffectiveNte'
  BY <1>2, <1>6, <1>7, <1>8, <1>9, MoneyAssumption DEF EffectiveNte, WithOrders
<1> QED
  BY <1>1, <1>2, <1>10, <1>11 DEF Raises, JobTakesForeignKey

LEMMA CommitCommits ==
    ASSUME PInv, NEW s \in Approvers, ApproveCommit(s)
    PROVE  Commits(s)
<1> DEFINE i == cur[s]
<1>1. /\ pc[s] = "job" /\ i \in Invoices /\ invStatus[i] = "received"
      /\ invTotal[i] \in Amounts
  BY PayablesAssumption DEF ApproveCommit, PInv, PayablesTypeOK, LocksOK
<1>2. /\ invStatus' = [invStatus EXCEPT ![i] = "approved"]
      /\ UNCHANGED <<nte, coStatus, coTotal, invTotal>>
  BY DEF ApproveCommit
<1>3. ApprovedInvoices' = ApprovedInvoices \cup {i} /\ i \notin ApprovedInvoices
  BY <1>1, <1>2 DEF PInv, PayablesTypeOK, ApprovedInvoices
<1>4. Total(invTotal, ApprovedInvoices \cup {i}) = ApprovedCost + invTotal[i]
  BY <1>1, <1>3, SumsAreNat, TotalAdds DEF ApprovedCost
<1>5. ApprovedCost' = ApprovedCost + invTotal[i]
  BY <1>2, <1>3, <1>4 DEF ApprovedCost
<1>6. EffectiveNte' = EffectiveNte
  BY <1>2, CeilingKept
<1>7. ceiling[s] = EffectiveNte /\ prior[s] = ApprovedCost
  BY <1>1 DEF PInv, ReadsCurrent
<1>8. invTotal[i] \in Nat
  BY <1>1, MoneyAssumption DEF Amounts
<1> QED
  BY <1>1, <1>5, <1>6, <1>7, <1>8 DEF Commits

LEMMA StepEffect ==
    ASSUME PInv, PayablesNext
    PROVE  Quiet \/ Adjusts \/ Raises \/ \E s \in Approvers : Commits(s)
<1>1. ASSUME NEW a \in Amounts \cup {None}, AdjustNte(a)
      PROVE  Adjusts
  <2>1. ApprovedCost' = ApprovedCost
    BY <1>1 DEF AdjustNte, ApprovedCost, ApprovedInvoices, Total, Units
  <2>2. EffectiveNte' = WithOrders(a)
    BY <1>1 DEF AdjustNte, EffectiveNte, WithOrders, Total, Units, ApprovedOrders
  <2>3. WithOrders(a) = None <=> a = None
    BY SumsAreNat, MoneyAssumption DEF WithOrders, Amounts
  <2>4. WithOrders(a) \in Nat \cup {None}
    BY SumsAreNat, MoneyAssumption DEF WithOrders, Amounts
  <2> QED
    BY <1>1, <2>1, <2>2, <2>3, <2>4 DEF AdjustNte, Adjusts, JobTakesForeignKey
<1>2. ASSUME NEW o \in Orders, OrderRequest(o)
      PROVE  Quiet \/ Raises
  <2>1. CASE ApproveChangeOrder(o)
    BY <2>1, ApproveOrderRaises
  <2>2. CASE CreateChangeOrder(o)
    BY <2>2, OrderFrame, PayablesAssumption DEF CreateChangeOrder, OrderStatuses
  <2>3. CASE \E t \in Amounts : EditChangeOrder(o, t)
    BY <2>3, OrderFrame DEF EditChangeOrder
  <2>4. CASE SubmitChangeOrder(o)
    BY <2>4, OrderFrame DEF SubmitChangeOrder, MoveChangeOrder
  <2>5. CASE DeclineChangeOrder(o)
    BY <2>5, OrderFrame DEF DeclineChangeOrder, MoveChangeOrder
  <2>6. CASE WithdrawChangeOrder(o)
    BY <2>6, OrderFrame DEF WithdrawChangeOrder, MoveChangeOrder
  <2> QED
    BY <1>2, <2>1, <2>2, <2>3, <2>4, <2>5, <2>6 DEF OrderRequest
<1>3. ASSUME NEW i \in Invoices, InvoiceRequest(i)
      PROVE  Quiet
  <2>1. ASSUME invStatus[i] # "approved", invStatus'[i] # "approved",
               UNCHANGED <<nte, coStatus, coTotal, crossed, cut>>,
               \A j \in Invoices \ {i} :
                  invStatus'[j] = invStatus[j] /\ invTotal'[j] = invTotal[j]
        PROVE  Quiet
    <3>1. /\ ApprovedInvoices' = ApprovedInvoices
          /\ \A j \in ApprovedInvoices : invTotal'[j] = invTotal[j]
      BY <2>1 DEF ApprovedInvoices
    <3> QED
      BY <2>1, <3>1, CostKept, CeilingKept DEF Quiet
  <2> USE DEF PInv, PayablesTypeOK
  <2>2. CASE \E link \in Links, t \in Amounts : RecordVendorInvoice(i, link, t)
    BY <2>1, <2>2, PayablesAssumption DEF RecordVendorInvoice, InvoiceStatuses
  <2>3. CASE \E t \in Amounts : EditVendorInvoice(i, t)
    BY <2>1, <2>3 DEF EditVendorInvoice
  <2>4. CASE DisputeVendorInvoice(i)
    BY <2>1, <2>4 DEF DisputeVendorInvoice
  <2>5. CASE \E a \in 1..MaxPaid : PayVendor(i, a)
    BY <2>5, InvoiceFrame DEF PayVendor
  <2>6. CASE \E s \in Approvers : ApproveLocksInvoice(s, i)
    BY <2>6, InvoiceFrame DEF ApproveLocksInvoice, ledger
  <2> QED
    BY <1>3, <2>2, <2>3, <2>4, <2>5, <2>6 DEF InvoiceRequest
<1>4. ASSUME NEW s \in Approvers, ApproveLocksJob(s) \/ ApproveFails(s)
      PROVE  Quiet
  BY <1>4, InvoiceFrame DEF ApproveLocksJob, ApproveReads, ApproveFails, ledger
<1> QED
  BY <1>1, <1>2, <1>3, <1>4, CommitCommits DEF PayablesNext, PayablesRequest, PayablesStep

-----------------------------------------------------------------------------
(* The invariant. *)

LEMMA InitPInv == PayablesInit => PInv
<1> SUFFICES ASSUME PayablesInit PROVE PInv
  OBVIOUS
<1>1. ApprovedInvoices = {}
  BY PayablesAssumption DEF PayablesInit, ApprovedInvoices, InvoiceStatuses
<1>2. ApprovedCost = 0
  BY <1>1, FS_EmptySet DEF ApprovedCost, Total, Units
<1>3. EffectiveNte \in Nat \cup {None}
  BY SumsAreNat DEF PayablesInit
<1>4. PayablesTypeOK
  <2>1. 0 \in Amounts /\ <<>> \in Seq(Nat)
    BY MoneyAssumption DEF Amounts
  <2> QED
    BY <2>1 DEF PayablesInit, PayablesTypeOK, PaymentStatuses
<1>5. LocksOK /\ ReadsCurrent
  BY PayablesAssumption DEF PayablesInit, LocksOK, ReadsCurrent
<1>6. NoSilentOverrun
  BY <1>1, <1>2, <1>3, MoneyAssumption DEF NoSilentOverrun
<1>7. EachCeilingCrossedOnce
  BY DEF EachCeilingCrossedOnce, PayablesInit
<1>8. VendorPaymentsMatch
  BY DEF VendorPaymentsMatch, PayablesInit
<1> QED
  BY <1>4, <1>5, <1>6, <1>7, <1>8 DEF PInv

LEMMA StepTypes ==
    ASSUME PInv, PayablesNext
    PROVE  PayablesTypeOK'
<1> USE DEF PInv, PayablesTypeOK, approvals
<1>1. ASSUME NEW a \in Amounts \cup {None}, AdjustNte(a) PROVE PayablesTypeOK'
  BY <1>1 DEF AdjustNte
<1>2. ASSUME NEW o \in Orders, OrderRequest(o) PROVE PayablesTypeOK'
  <2>1. ASSUME NEW status \in OrderStatuses, NEW total \in Amounts, OrderIs(o, status, total)
        PROVE  PayablesTypeOK'
    BY <2>1 DEF OrderIs
  <2>2. 0 \in Amounts /\ coTotal[o] \in Amounts
    BY MoneyAssumption DEF Amounts
  <2> QED
    BY <1>2, <2>1, <2>2 DEF OrderRequest, CreateChangeOrder, EditChangeOrder,
       SubmitChangeOrder, ApproveChangeOrder, DeclineChangeOrder, WithdrawChangeOrder,
       MoveChangeOrder, OrderStatuses
<1>3. ASSUME NEW i \in Invoices, InvoiceRequest(i) PROVE PayablesTypeOK'
  <2>1. CASE \E link \in Links, t \in Amounts : RecordVendorInvoice(i, link, t)
    BY <2>1, PayablesAssumption DEF RecordVendorInvoice, InvoiceStatuses
  <2>2. CASE \E t \in Amounts : EditVendorInvoice(i, t)
    BY <2>2 DEF EditVendorInvoice
  <2>3. CASE DisputeVendorInvoice(i)
    BY <2>3 DEF DisputeVendorInvoice, InvoiceStatuses
  <2>4. CASE \E a \in 1..MaxPaid : PayVendor(i, a)
    BY <2>4, PayablesAssumption DEF PayVendor, DerivePaymentStatus, PaymentStatuses
  <2>5. CASE \E s \in Approvers : ApproveLocksInvoice(s, i)
    BY <2>5 DEF ApproveLocksInvoice, ledger
  <2> QED
    BY <1>3, <2>1, <2>2, <2>3, <2>4, <2>5 DEF InvoiceRequest
<1>4. ASSUME NEW s \in Approvers, ApproveLocksJob(s) PROVE PayablesTypeOK'
  <2>1. ApprovedInvoices \ {cur[s]} \subseteq ApprovedInvoices
    OBVIOUS
  <2>2. Total(invTotal, ApprovedInvoices \ {cur[s]}) \in Nat
    BY <2>1, SumsAreNat, FS_Subset, TotalIsNat
  <2> QED
    BY <1>4, <2>2, SumsAreNat DEF ApproveLocksJob, ApproveReads, ledger
<1>5. ASSUME NEW s \in Approvers, ApproveFails(s) PROVE PayablesTypeOK'
  BY <1>5 DEF ApproveFails, Release, ledger
<1>6. ASSUME NEW s \in Approvers, ApproveCommit(s) PROVE PayablesTypeOK'
  <2>1. invStatus' \in [Invoices -> InvoiceStatuses \cup {None}]
    BY <1>6 DEF ApproveCommit, InvoiceStatuses
  <2>2. breached' \in [Invoices -> BOOLEAN]
    <3>1. (Baseline(s) # None /\ invTotal[cur[s]] > Baseline(s)) \in BOOLEAN
      OBVIOUS
    <3> QED
      BY <1>6, <3>1, Zenon DEF ApproveCommit
  <2>3. crossed' \in Seq(Nat)
    BY <1>6 DEF ApproveCommit, CrossesNow
  <2> QED
    BY <1>6, <2>1, <2>2, <2>3 DEF ApproveCommit, Release
<1> QED
  BY <1>1, <1>2, <1>3, <1>4, <1>5, <1>6 DEF PayablesNext, PayablesRequest, PayablesStep

LEMMA StepLocks ==
    ASSUME PInv, PayablesNext
    PROVE  LocksOK'
<1> USE PayablesAssumption DEF PInv, PayablesTypeOK, LocksOK
<1>1. ASSUME NEW a \in Amounts \cup {None}, AdjustNte(a) PROVE LocksOK'
  BY <1>1 DEF AdjustNte, approvals
<1>2. ASSUME NEW o \in Orders, OrderRequest(o) PROVE LocksOK'
  <2>1. UNCHANGED <<invStatus, approvals>>
    BY <1>2 DEF OrderRequest, CreateChangeOrder, EditChangeOrder, SubmitChangeOrder,
       ApproveChangeOrder, DeclineChangeOrder, WithdrawChangeOrder, MoveChangeOrder, OrderIs
  <2> QED
    BY <2>1 DEF approvals
<1>3. ASSUME NEW i \in Invoices, InvoiceRequest(i) PROVE LocksOK'
  <2>1. CASE \E s \in Approvers : ApproveLocksInvoice(s, i)
    <3>1. PICK s \in Approvers : ApproveLocksInvoice(s, i)
      BY <2>1
    <3>2. /\ i # None /\ invStatus' = invStatus /\ jobHolder' = jobHolder
          /\ pc[s] = "idle" /\ invStatus[i] = "received"
          /\ \A t \in Approvers : cur[t] # i
          /\ pc' = [pc EXCEPT ![s] = "invoice"] /\ cur' = [cur EXCEPT ![s] = i]
      BY <3>1 DEF ApproveLocksInvoice, InvoiceFree, Approvable, ledger
    <3> QED
      BY <3>2
  <2>2. ASSUME UNCHANGED approvals, \A j \in Invoices : \/ invStatus'[j] = invStatus[j]
                                                        \/ invStatus[j] # "received"
                                                        \/ InvoiceFree(j)
        PROVE  LocksOK'
    BY <2>2 DEF approvals, InvoiceFree
  <2>3. CASE \E link \in Links, t \in Amounts : RecordVendorInvoice(i, link, t)
    BY <2>2, <2>3 DEF RecordVendorInvoice, InvoiceStatuses
  <2>4. CASE \E t \in Amounts : EditVendorInvoice(i, t)
    BY <2>2, <2>4 DEF EditVendorInvoice
  <2>5. CASE DisputeVendorInvoice(i)
    BY <2>2, <2>5 DEF DisputeVendorInvoice
  <2>6. CASE \E a \in 1..MaxPaid : PayVendor(i, a)
    BY <2>2, <2>6 DEF PayVendor
  <2> QED
    BY <1>3, <2>1, <2>3, <2>4, <2>5, <2>6 DEF InvoiceRequest
<1>4. ASSUME NEW s \in Approvers, ApproveLocksJob(s) PROVE LocksOK'
  BY <1>4 DEF ApproveLocksJob, ApproveReads, ledger
<1>5. ASSUME NEW s \in Approvers, ApproveFails(s) PROVE LocksOK'
  BY <1>5 DEF ApproveFails, Release, ledger
<1>6. ASSUME NEW s \in Approvers, ApproveCommit(s) PROVE LocksOK'
  BY <1>6 DEF ApproveCommit, Release
<1> QED
  BY <1>1, <1>2, <1>3, <1>4, <1>5, <1>6 DEF PayablesNext, PayablesRequest, PayablesStep

\* Only the step that takes the job's lock starts to hold what it read.
LEMMA ApprovalsKept ==
    ASSUME PInv, PayablesNext, NEW s \in Approvers, pc'[s] = "job"
    PROVE  \/ pc[s] = "job" /\ ceiling'[s] = ceiling[s] /\ prior'[s] = prior[s]
           \/ ApproveLocksJob(s)
<1> USE DEF PInv, PayablesTypeOK
<1>1. CASE PayablesRequest
  <2>1. CASE UNCHANGED approvals
    BY <2>1 DEF approvals
  <2>2. CASE \E i \in Invoices, t \in Approvers : ApproveLocksInvoice(t, i)
    BY <2>2 DEF ApproveLocksInvoice
  <2> QED
    BY <1>1, <2>1, <2>2 DEF PayablesRequest, AdjustNte, OrderRequest, CreateChangeOrder,
       EditChangeOrder, SubmitChangeOrder, ApproveChangeOrder, DeclineChangeOrder,
       WithdrawChangeOrder, MoveChangeOrder, OrderIs, InvoiceRequest, RecordVendorInvoice,
       EditVendorInvoice, DisputeVendorInvoice, PayVendor
<1>2. CASE PayablesStep
  <2>1. PICK t \in Approvers : ApproveLocksJob(t) \/ ApproveCommit(t) \/ ApproveFails(t)
    BY <1>2 DEF PayablesStep
  <2> QED
    BY <2>1 DEF ApproveLocksJob, ApproveReads, ApproveCommit, ApproveFails, Release
<1> QED
  BY <1>1, <1>2 DEF PayablesNext

LEMMA StepReads ==
    ASSUME PInv, PayablesNext
    PROVE  ReadsCurrent'
<1> SUFFICES ASSUME NEW s \in Approvers, pc'[s] = "job"
             PROVE  ceiling'[s] = EffectiveNte' /\ prior'[s] = ApprovedCost'
  BY DEF ReadsCurrent
<1>1. CASE Quiet
  <2>1. CASE ApproveLocksJob(s)
    <3>1. cur[s] \notin ApprovedInvoices
      BY <2>1, PayablesAssumption DEF PInv, LocksOK, PayablesTypeOK, ApproveLocksJob, ApprovedInvoices
    <3>2. ApprovedInvoices \ {cur[s]} = ApprovedInvoices
      BY <3>1
    <3>3. ceiling'[s] = EffectiveNte /\ prior'[s] = ApprovedCost
      BY <2>1, <3>2 DEF PInv, PayablesTypeOK, ApproveLocksJob, ApproveReads, ApprovedCost
    <3> QED
      BY <1>1, <3>3 DEF Quiet
  <2>2. CASE pc[s] = "job" /\ ceiling'[s] = ceiling[s] /\ prior'[s] = prior[s]
    BY <1>1, <2>2 DEF Quiet, PInv, ReadsCurrent
  <2> QED
    BY <2>1, <2>2, ApprovalsKept
<1>2. CASE Adjusts \/ Raises
  BY <1>2, PayablesAssumption DEF Adjusts, Raises, approvals, PInv, LocksOK
<1>3. CASE \E t \in Approvers : Commits(t)
  BY <1>3 DEF Commits, ApproveCommit, Release, PInv, LocksOK, PayablesTypeOK
<1> QED
  BY <1>1, <1>2, <1>3, StepEffect

\* What an approval says of the invoice's own ceiling stays with the invoice.
LEMMA StepBreached ==
    ASSUME PInv, PayablesNext, NEW i \in ApprovedInvoices', agreed'[i] \in Amounts,
           invTotal'[i] > agreed'[i]
    PROVE  breached'[i]
<1> USE DEF PInv, PayablesTypeOK
<1>1. i \in Invoices /\ invStatus'[i] = "approved"
  BY DEF ApprovedInvoices
<1>2. ASSUME UNCHANGED <<invStatus, invTotal, agreed, breached>> PROVE breached'[i]
  BY <1>1, <1>2 DEF NoSilentOverrun, ApprovedInvoices
<1>3. ASSUME NEW j \in Invoices, InvoiceRequest(j) PROVE breached'[i]
  <2>1. \/ UNCHANGED <<invStatus, invTotal, agreed, breached>>
        \/ j # i /\ invStatus'[i] = invStatus[i] /\ invTotal'[i] = invTotal[i]
           /\ agreed'[i] = agreed[i] /\ breached' = breached
    BY <1>1, <1>3 DEF InvoiceRequest, RecordVendorInvoice, EditVendorInvoice,
       DisputeVendorInvoice, PayVendor, ApproveLocksInvoice, ledger
  <2> QED
    BY <1>1, <1>2, <2>1 DEF NoSilentOverrun, ApprovedInvoices
<1>4. ASSUME NEW s \in Approvers, ApproveCommit(s) PROVE breached'[i]
  <2>1. CASE cur[s] = i
    <3>1. agreed[i] \in Amounts /\ invTotal[i] > agreed[i]
      BY <1>4 DEF ApproveCommit
    <3>2. Baseline(s) = agreed[i] /\ Baseline(s) # None
      BY <2>1, <3>1, PayablesAssumption, MoneyAssumption DEF Baseline, Amounts
    <3> QED
      BY <1>1, <1>4, <2>1, <3>1, <3>2 DEF ApproveCommit
  <2>2. CASE cur[s] # i
    <3>1. invStatus[i] = "approved" /\ agreed[i] \in Amounts /\ invTotal[i] > agreed[i]
      BY <1>1, <1>4, <2>2 DEF ApproveCommit
    <3>2. breached[i] /\ breached'[i] = breached[i]
      BY <1>1, <1>4, <2>2, <3>1 DEF NoSilentOverrun, ApprovedInvoices, ApproveCommit
    <3> QED
      BY <3>2
  <2> QED
    BY <2>1, <2>2
<1> QED
  BY <1>2, <1>3, <1>4 DEF PayablesNext, PayablesRequest, PayablesStep, AdjustNte,
     OrderRequest, CreateChangeOrder, EditChangeOrder, SubmitChangeOrder, ApproveChangeOrder,
     DeclineChangeOrder, WithdrawChangeOrder, MoveChangeOrder, OrderIs, ApproveLocksJob,
     ApproveReads, ApproveFails, ledger

LEMMA StepOverrun ==
    ASSUME PInv, PayablesNext
    PROVE  NoSilentOverrun'
<1>1. ApprovedCost \in Nat /\ EffectiveNte \in Nat \cup {None} /\ None \notin Int
      /\ crossed \in Seq(Nat) /\ cut \in BOOLEAN
  BY SumsAreNat, MoneyAssumption DEF PInv, PayablesTypeOK
<1>2. EffectiveNte # None /\ ApprovedCost > EffectiveNte /\ ~cut
         => Len(crossed) > 0 /\ crossed[Len(crossed)] <= EffectiveNte
  BY DEF PInv, NoSilentOverrun
<1>3. ASSUME EffectiveNte' # None, ApprovedCost' > EffectiveNte', ~cut'
      PROVE  Len(crossed') > 0 /\ crossed'[Len(crossed')] <= EffectiveNte'
  <2>1. CASE Quiet
    BY <1>2, <1>3, <2>1 DEF Quiet
  <2>2. CASE Adjusts
    BY <1>3, <2>2 DEF Adjusts
  <2>3. CASE Raises
    <3>1. /\ EffectiveNte \in Nat /\ EffectiveNte' \in Nat /\ EffectiveNte <= EffectiveNte'
          /\ ApprovedCost > EffectiveNte /\ ~cut /\ crossed' = crossed
      BY <1>1, <1>3, <2>3 DEF Raises
    <3>2. Len(crossed) > 0 /\ crossed[Len(crossed)] <= EffectiveNte
      BY <1>1, <1>2, <3>1
    <3>3. crossed[Len(crossed)] \in Nat
      BY <1>1, <3>2
    <3> QED
      BY <3>1, <3>2, <3>3
  <2>4. ASSUME NEW s \in Approvers, Commits(s)
        PROVE  Len(crossed') > 0 /\ crossed'[Len(crossed')] <= EffectiveNte'
    <3>1. /\ EffectiveNte' = EffectiveNte /\ EffectiveNte \in Nat
          /\ ceiling[s] = EffectiveNte /\ prior[s] = ApprovedCost /\ invTotal[cur[s]] \in Nat
          /\ prior[s] + invTotal[cur[s]] > ceiling[s] /\ ~cut
          /\ crossed' = IF CrossesNow(s) THEN Append(crossed, ceiling[s]) ELSE crossed
      BY <1>1, <1>3, <2>4 DEF Commits, ApproveCommit
    <3>2. CASE CrossesNow(s)
      BY <1>1, <3>1, <3>2
    <3>3. CASE ~CrossesNow(s)
      BY <1>1, <1>2, <3>1, <3>3 DEF CrossesNow
    <3> QED
      BY <3>2, <3>3
  <2> QED
    BY <2>1, <2>2, <2>3, <2>4, StepEffect
<1> QED
  BY <1>3, StepBreached DEF NoSilentOverrun

LEMMA StepCrossed ==
    ASSUME PInv, PayablesNext
    PROVE  EachCeilingCrossedOnce'
<1>1. /\ ApprovedCost \in Nat /\ None \notin Int /\ crossed \in Seq(Nat)
      /\ EffectiveNte \in Nat \cup {None}
  BY SumsAreNat, MoneyAssumption DEF PInv, PayablesTypeOK
<1>2. /\ \A j, k \in 1..Len(crossed) : j < k => crossed[j] < crossed[k]
      /\ \A j \in 1..Len(crossed) : crossed[j] < ApprovedCost
  BY DEF PInv, EachCeilingCrossedOnce
<1>3. CASE Quiet \/ Adjusts \/ Raises
  BY <1>2, <1>3 DEF Quiet, Adjusts, Raises, EachCeilingCrossedOnce
<1>4. ASSUME NEW s \in Approvers, Commits(s) PROVE EachCeilingCrossedOnce'
  <2>1. /\ ceiling[s] = EffectiveNte /\ prior[s] = ApprovedCost /\ invTotal[cur[s]] \in Nat
        /\ ApprovedCost' = ApprovedCost + invTotal[cur[s]]
        /\ crossed' = IF CrossesNow(s) THEN Append(crossed, ceiling[s]) ELSE crossed
    BY <1>4 DEF Commits, ApproveCommit
  <2>2. \A j \in 1..Len(crossed) : crossed[j] \in Nat
    BY <1>1
  <2>3. CASE ~CrossesNow(s)
    BY <1>1, <1>2, <2>1, <2>2, <2>3 DEF EachCeilingCrossedOnce
  <2>4. CASE CrossesNow(s)
    <3>1. /\ EffectiveNte \in Nat /\ ApprovedCost <= EffectiveNte
          /\ EffectiveNte < ApprovedCost' /\ ApprovedCost' \in Nat
          /\ crossed' = Append(crossed, EffectiveNte)
      BY <1>1, <2>1, <2>4 DEF CrossesNow
    <3>2. \A j \in 1..Len(crossed) : crossed[j] < EffectiveNte
      BY <1>2, <2>2, <3>1, <1>1
    <3>3. /\ Len(crossed') = Len(crossed) + 1
          /\ \A j \in 1..Len(crossed) : crossed'[j] = crossed[j]
          /\ crossed'[Len(crossed) + 1] = EffectiveNte
      BY <1>1, <3>1
    <3> QED
      BY <1>1, <1>2, <2>2, <3>1, <3>2, <3>3 DEF EachCeilingCrossedOnce
  <2> QED
    BY <2>3, <2>4
<1> QED
  BY <1>3, <1>4, StepEffect

LEMMA StepPayments ==
    ASSUME PInv, PayablesNext
    PROVE  VendorPaymentsMatch'
<1> USE DEF PInv, PayablesTypeOK, VendorPaymentsMatch
<1>1. ASSUME UNCHANGED <<invStatus, invTotal, paid, payStatus, paidEvents>>
      PROVE  VendorPaymentsMatch'
  BY <1>1
<1>2. ASSUME NEW i \in Invoices, invStatus[i] # "approved",
             UNCHANGED <<paid, payStatus, paidEvents>>,
             \A j \in Invoices \ {i} : invStatus'[j] = invStatus[j] /\ invTotal'[j] = invTotal[j]
      PROVE  VendorPaymentsMatch'
  <2>1. paid[i] = 0 /\ payStatus[i] = "unpaid" /\ paidEvents[i] = 0
    BY <1>2
  <2>2. \A j \in Invoices \ {i} :
           /\ paid'[j] = paid[j] /\ payStatus'[j] = payStatus[j]
           /\ paidEvents'[j] = paidEvents[j] /\ invTotal'[j] = invTotal[j]
           /\ invStatus'[j] = invStatus[j]
    BY <1>2
  <2>3. paid'[i] = 0 /\ payStatus'[i] = "unpaid" /\ paidEvents'[i] = 0
    BY <1>2, <2>1
  <2> QED
    BY <2>2, <2>3 DEF DerivePaymentStatus
<1>3. ASSUME NEW i \in Invoices, NEW a \in 1..MaxPaid, PayVendor(i, a)
      PROVE  VendorPaymentsMatch'
  <2>1. a \in Nat /\ a > 0 /\ paid[i] \in Nat /\ invTotal[i] \in Nat
    BY PayablesAssumption, MoneyAssumption DEF Amounts
  <2>2. UNCHANGED <<invStatus, invTotal>> /\ invStatus[i] = "approved"
    BY <1>3 DEF PayVendor
  <2>3. /\ paid'[i] = paid[i] + a
        /\ payStatus'[i] = DerivePaymentStatus(paid[i] + a, invTotal[i])
        /\ paidEvents'[i] = IF payStatus[i] # "paid" /\ payStatus'[i] = "paid"
                            THEN paidEvents[i] + 1 ELSE paidEvents[i]
        /\ \A j \in Invoices \ {i} :
              paid'[j] = paid[j] /\ payStatus'[j] = payStatus[j] /\ paidEvents'[j] = paidEvents[j]
    BY <1>3 DEF PayVendor
  <2>4. payStatus[i] = "paid" => payStatus'[i] = "paid"
    <3> SUFFICES ASSUME payStatus[i] = "paid" PROVE payStatus'[i] = "paid"
      OBVIOUS
    <3>1. paid[i] # 0 /\ DerivePaymentStatus(paid[i], invTotal[i]) = "paid"
      OBVIOUS
    <3>2. paid[i] >= invTotal[i]
      BY <3>1 DEF DerivePaymentStatus
    <3> QED
      BY <2>1, <2>3, <3>2 DEF DerivePaymentStatus
  <2>5. paidEvents'[i] = IF payStatus'[i] = "paid" THEN 1 ELSE 0
    <3>1. CASE payStatus[i] = "paid"
      BY <2>3, <2>4, <3>1
    <3>2. CASE payStatus[i] # "paid"
      <4>1. paidEvents[i] = 0
        BY <3>2
      <4> QED
        BY <2>3, <3>2, <4>1
    <3> QED
      BY <3>1, <3>2
  <2> QED
    BY <2>1, <2>2, <2>3, <2>5
<1>4. ASSUME NEW i \in Invoices, InvoiceRequest(i) PROVE VendorPaymentsMatch'
  BY <1>1, <1>2, <1>3, <1>4, PayablesAssumption DEF InvoiceRequest, RecordVendorInvoice,
     EditVendorInvoice, DisputeVendorInvoice, ApproveLocksInvoice, ledger, InvoiceStatuses
<1>5. ASSUME NEW s \in Approvers, ApproveCommit(s) PROVE VendorPaymentsMatch'
  <2>1. cur[s] \in Invoices /\ invStatus[cur[s]] = "received"
    BY <1>5, PayablesAssumption DEF ApproveCommit, LocksOK
  <2> QED
    BY <1>2, <1>5, <2>1 DEF ApproveCommit
<1> QED
  BY <1>1, <1>4, <1>5 DEF PayablesNext, PayablesRequest, PayablesStep, AdjustNte,
     OrderRequest, CreateChangeOrder, EditChangeOrder, SubmitChangeOrder, ApproveChangeOrder,
     DeclineChangeOrder, WithdrawChangeOrder, MoveChangeOrder, OrderIs, ApproveLocksJob,
     ApproveReads, ApproveFails, ledger

LEMMA StutterPInv ==
    ASSUME PInv, UNCHANGED payables
    PROVE  PInv'
<1> USE DEF PInv, payables, ledger, approvals
<1>1. PayablesTypeOK' /\ LocksOK'
  BY DEF PayablesTypeOK, LocksOK
<1>2. /\ ApprovedInvoices' = ApprovedInvoices /\ ApprovedCost' = ApprovedCost
      /\ EffectiveNte' = EffectiveNte
  BY DEF EffectiveNte, WithOrders, ApprovedCost, Total, Units, ApprovedOrders, ApprovedInvoices
<1>3. ReadsCurrent'
  BY <1>2 DEF ReadsCurrent
<1>4. NoSilentOverrun' /\ EachCeilingCrossedOnce'
  BY <1>2 DEF NoSilentOverrun, EachCeilingCrossedOnce
<1>5. VendorPaymentsMatch'
  BY DEF VendorPaymentsMatch, DerivePaymentStatus
<1> QED
  BY <1>1, <1>3, <1>4, <1>5

\* The invariant is inductive.
THEOREM PayablesInvariant == PayablesSpec => []PInv
<1>1. PInv /\ [PayablesNext]_payables => PInv'
  <2> SUFFICES ASSUME PInv, [PayablesNext]_payables PROVE PInv'
    OBVIOUS
  <2>1. CASE PayablesNext
    BY <2>1, StepTypes, StepLocks, StepReads, StepOverrun, StepCrossed, StepPayments DEF PInv
  <2> QED
    BY <2>1, StutterPInv
<1> QED
  BY <1>1, InitPInv, PTL DEF PayablesSpec

\* vendor-invoices.ts: every state of the payables is typed.
THEOREM PayablesTypes == PayablesSpec => []PayablesTypeOK
BY PayablesInvariant, PTL DEF PInv

\* approveVendorInvoice: no overrun that approvals brought about is without its
\* nte.exceeded event, however many approvals of the job run at once.
THEOREM OverrunsAreReported == PayablesSpec => []NoSilentOverrun
BY PayablesInvariant, PTL DEF PInv

\* approveVendorInvoice: the aggregate event is emitted at the first crossing of
\* a ceiling only.
THEOREM CeilingsCrossedOnce == PayablesSpec => []EachCeilingCrossedOnce
BY PayablesInvariant, PTL DEF PInv

\* recordVendorPayment: payments are made on approved invoices, and payment_status
\* and the paid event follow from what was paid.
THEOREM VendorPayments == PayablesSpec => []VendorPaymentsMatch
BY PayablesInvariant, PTL DEF PInv

\* vendor-invoices.ts, change-orders.ts: what was committed does not change.
THEOREM ApprovedStaysFrozen == PayablesSpec => ApprovedIsFrozen
<1>1. PInv /\ [PayablesNext]_payables =>
        [/\ \A i \in Invoices : invStatus[i] = "approved" =>
               invStatus'[i] = "approved" /\ invTotal'[i] = invTotal[i]
         /\ \A o \in Orders :
               /\ coStatus[o] \notin {None, "draft"} => coTotal'[o] = coTotal[o]
               /\ coStatus[o] = "approved" => coStatus'[o] = "approved"]_payables
  <2> SUFFICES ASSUME PInv, PayablesNext
               PROVE  /\ \A i \in Invoices : invStatus[i] = "approved" =>
                            invStatus'[i] = "approved" /\ invTotal'[i] = invTotal[i]
                      /\ \A o \in Orders :
                            /\ coStatus[o] \notin {None, "draft"} => coTotal'[o] = coTotal[o]
                            /\ coStatus[o] = "approved" => coStatus'[o] = "approved"
    OBVIOUS
  <2> USE DEF PInv, PayablesTypeOK
  <2>1. ASSUME NEW i \in Invoices, invStatus[i] = "approved"
        PROVE  invStatus'[i] = "approved" /\ invTotal'[i] = invTotal[i]
    <3>1. ASSUME NEW s \in Approvers, ApproveCommit(s)
          PROVE  invStatus'[i] = "approved" /\ invTotal'[i] = invTotal[i]
      BY <2>1, <3>1 DEF ApproveCommit
    <3>2. ASSUME NEW j \in Invoices, InvoiceRequest(j)
          PROVE  invStatus'[i] = "approved" /\ invTotal'[i] = invTotal[i]
      BY <2>1, <3>2, PayablesAssumption DEF InvoiceRequest, RecordVendorInvoice,
         EditVendorInvoice, DisputeVendorInvoice, PayVendor, ApproveLocksInvoice, ledger,
         InvoiceStatuses
    <3> QED
      BY <2>1, <3>1, <3>2 DEF PayablesNext, PayablesRequest, PayablesStep, AdjustNte,
         OrderRequest, CreateChangeOrder, EditChangeOrder, SubmitChangeOrder,
         ApproveChangeOrder, DeclineChangeOrder, WithdrawChangeOrder, MoveChangeOrder,
         OrderIs, ApproveLocksJob, ApproveReads, ApproveFails, ledger
  <2>2. ASSUME NEW o \in Orders
        PROVE  /\ coStatus[o] \notin {None, "draft"} => coTotal'[o] = coTotal[o]
               /\ coStatus[o] = "approved" => coStatus'[o] = "approved"
    <3>1. ASSUME NEW q \in Orders, OrderRequest(q)
          PROVE  /\ coStatus[o] \notin {None, "draft"} => coTotal'[o] = coTotal[o]
                 /\ coStatus[o] = "approved" => coStatus'[o] = "approved"
      BY <3>1, PayablesAssumption DEF OrderRequest, CreateChangeOrder, EditChangeOrder,
         SubmitChangeOrder, ApproveChangeOrder, DeclineChangeOrder, WithdrawChangeOrder,
         MoveChangeOrder, OrderIs, OrderStatuses
    <3> QED
      BY <3>1 DEF PayablesNext, PayablesRequest, PayablesStep, AdjustNte, InvoiceRequest,
         RecordVendorInvoice, EditVendorInvoice, DisputeVendorInvoice, PayVendor,
         ApproveLocksInvoice, ApproveLocksJob, ApproveReads, ApproveCommit, ApproveFails, ledger
  <2> QED
    BY <2>1, <2>2
<1> QED
  BY <1>1, PayablesInvariant, PTL DEF PayablesSpec, ApprovedIsFrozen
=============================================================================
