-------------------------------- MODULE Payables --------------------------------
(***************************************************************************)
(* What one job costs: its not-to-exceed amount (jobs.ts, updateJob), its  *)
(* change orders (billing/change-orders.ts), the vendors' invoices         *)
(* (billing/vendor-invoices.ts) and what is paid on them (payments.ts).    *)
(*                                                                         *)
(* A transaction that locks one row, checks it and writes it is one step.  *)
(* The approval of an invoice locks the invoice, then the job, and reads   *)
(* what other transactions write: it is one step per lock and its commit.  *)
(* Whatever inserts a row that references the job, a billing event above   *)
(* all, waits while an approval holds the job FOR UPDATE.                  *)
(***************************************************************************)
EXTENDS Money, Sequences

CONSTANTS Orders,     \* ids of change orders
          Invoices,   \* ids of vendor invoices
          Approvers,  \* requests that approve an invoice
          MaxPaid,    \* bound: payments on one invoice, summed
          JobLevel,   \* "no assignment": the job's ceiling governs
          Links       \* agreed amounts that assignments have, or JobLevel

OrderStatuses   == {"draft", "submitted", "approved", "declined", "withdrawn"}
InvoiceStatuses == {"received", "approved", "disputed"}

\* "under_review" is in the code's lists; no code writes it.
Approvable == {"received"}

ASSUME PayablesAssumption ==
    /\ MaxPaid \in Nat
    /\ IsFiniteSet(Orders) /\ IsFiniteSet(Invoices)
    /\ None \notin Orders \cup Invoices \cup Approvers
    /\ None \notin OrderStatuses \cup InvoiceStatuses
    /\ JobLevel \notin Int /\ JobLevel # None
    /\ Links \subseteq Amounts \cup {JobLevel, None}

VARIABLES nte,        \* jobs.not_to_exceed_amount
          coStatus,   \* status of a change order (None: no row)
          coTotal,    \* its total
          invStatus,  \* status of a vendor invoice (None: no row)
          invTotal,   \* its total
          agreed,     \* agreed NTE of the assignment it is billed under
          breached,   \* it has an nte.exceeded event of its own
          paid,       \* payment_records on it, summed
          payStatus,  \* payment_status
          paidEvents, \* vendor_invoice.paid events
          crossed,    \* ceilings of the job_aggregate nte.exceeded events, in order
          cut,        \* history: the NTE was set below what was already approved
          jobHolder,  \* the approval that holds the job FOR UPDATE
          pc, cur,    \* where an approval is, and its invoice
          ceiling,    \* the effective NTE it read
          prior       \* the other approved totals it read

ledger    == <<nte, coStatus, coTotal, invStatus, invTotal, agreed, breached,
               paid, payStatus, paidEvents, crossed, cut>>
approvals == <<jobHolder, pc, cur, ceiling, prior>>
payables  == <<ledger, approvals>>

ApprovedOrders   == {o \in Orders : coStatus[o] = "approved"}
ApprovedInvoices == {i \in Invoices : invStatus[i] = "approved"}
ApprovedCost     == Total(invTotal, ApprovedInvoices)

\* A job without a base has no ceiling, whatever is approved on top.
WithOrders(base) ==
    IF base = None THEN None ELSE base + Total(coTotal, ApprovedOrders)

EffectiveNte == WithOrders(nte)

\* The foreign key of an inserted row takes the job KEY SHARE.
JobTakesForeignKey == jobHolder = None
InvoiceFree(i)     == \A s \in Approvers : cur[s] # i

PayablesInit ==
    /\ nte \in Amounts \cup {None}
    /\ coStatus   = [o \in Orders |-> None]
    /\ coTotal    = [o \in Orders |-> 0]
    /\ invStatus  = [i \in Invoices |-> None]
    /\ invTotal   = [i \in Invoices |-> 0]
    /\ agreed     = [i \in Invoices |-> None]
    /\ breached   = [i \in Invoices |-> FALSE]
    /\ paid       = [i \in Invoices |-> 0]
    /\ payStatus  = [i \in Invoices |-> "unpaid"]
    /\ paidEvents = [i \in Invoices |-> 0]
    /\ crossed    = <<>>
    /\ cut        = FALSE
    /\ jobHolder  = None
    /\ pc         = [s \in Approvers |-> "idle"]
    /\ cur        = [s \in Approvers |-> None]
    /\ ceiling    = [s \in Approvers |-> None]
    /\ prior      = [s \in Approvers |-> 0]

-----------------------------------------------------------------------------
(* The ceiling: the job's NTE and its change orders. *)

\* updateJob locks the job and writes any amount, or none.
AdjustNte(a) ==
    /\ JobTakesForeignKey
    /\ nte' = a
    /\ cut' = (cut \/ (a # None /\ ApprovedCost > WithOrders(a)))
    /\ UNCHANGED <<coStatus, coTotal, invStatus, invTotal, agreed, breached,
                   paid, payStatus, paidEvents, crossed, approvals>>

OrderIs(o, status, total) ==
    /\ coStatus' = [coStatus EXCEPT ![o] = status]
    /\ coTotal' = [coTotal EXCEPT ![o] = total]
    /\ UNCHANGED <<nte, invStatus, invTotal, agreed, breached,
                   paid, payStatus, paidEvents, crossed, cut, approvals>>

CreateChangeOrder(o) ==
    /\ coStatus[o] = None
    /\ JobTakesForeignKey
    /\ OrderIs(o, "draft", 0)

\* Mutant: a submitted change order can still be edited.
EditOpenOrder(o, t) ==
    /\ coStatus[o] \in {"draft", "submitted"}
    /\ OrderIs(o, coStatus[o], t)

\* A line is added, changed or removed and the total recalculated.
EditChangeOrder(o, t) ==
    /\ coStatus[o] = "draft"
    /\ OrderIs(o, "draft", t)

MoveChangeOrder(o, from, to) ==
    /\ coStatus[o] \in from
    /\ JobTakesForeignKey
    /\ OrderIs(o, to, coTotal[o])

SubmitChangeOrder(o)   == MoveChangeOrder(o, {"draft"}, "submitted")
ApproveChangeOrder(o)  == MoveChangeOrder(o, {"submitted"}, "approved")
DeclineChangeOrder(o)  == MoveChangeOrder(o, {"submitted"}, "declined")
\* Mutant: a status the schema does not have.
CancelChangeOrder(o)   == MoveChangeOrder(o, {"draft", "submitted"}, "cancelled")
WithdrawChangeOrder(o) == MoveChangeOrder(o, {"draft", "submitted"}, "withdrawn")

-----------------------------------------------------------------------------
(* Vendor invoices and payments. *)

\* The office or the vendor's portal; a ceiling of its own, the job's, or none.
RecordVendorInvoice(i, link, t) ==
    /\ invStatus[i] = None
    /\ JobTakesForeignKey
    /\ invStatus' = [invStatus EXCEPT ![i] = "received"]
    /\ invTotal' = [invTotal EXCEPT ![i] = t]
    /\ agreed' = [agreed EXCEPT ![i] = link]
    /\ UNCHANGED <<nte, coStatus, coTotal, breached, paid, payStatus, paidEvents,
                   crossed, cut, approvals>>

\* Mutant: an approved invoice can be edited until it is paid.
EditUnpaidInvoice(i, t) ==
    /\ invStatus[i] \in {"received", "approved"} /\ payStatus[i] = "unpaid"
    /\ InvoiceFree(i)
    /\ invTotal' = [invTotal EXCEPT ![i] = t]
    /\ UNCHANGED <<nte, coStatus, coTotal, invStatus, agreed, breached,
                   paid, payStatus, paidEvents, crossed, cut, approvals>>

EditVendorInvoice(i, t) ==
    /\ invStatus[i] = "received"
    /\ InvoiceFree(i)
    /\ invTotal' = [invTotal EXCEPT ![i] = t]
    /\ UNCHANGED <<nte, coStatus, coTotal, invStatus, agreed, breached,
                   paid, payStatus, paidEvents, crossed, cut, approvals>>

DisputeVendorInvoice(i) ==
    /\ invStatus[i] = "received"
    /\ InvoiceFree(i)
    /\ JobTakesForeignKey
    /\ invStatus' = [invStatus EXCEPT ![i] = "disputed"]
    /\ UNCHANGED <<nte, coStatus, coTotal, invTotal, agreed, breached,
                   paid, payStatus, paidEvents, crossed, cut, approvals>>

\* The paid event comes with the first payment that reaches the total.
PayVendor(i, a) ==
    LET status == DerivePaymentStatus(paid[i] + a, invTotal[i]) IN
    /\ invStatus[i] = "approved"
    /\ InvoiceFree(i)
    /\ JobTakesForeignKey
    /\ paid[i] + a <= MaxPaid
    /\ paid' = [paid EXCEPT ![i] = @ + a]
    /\ payStatus' = [payStatus EXCEPT ![i] = status]
    /\ paidEvents' = [paidEvents EXCEPT
          ![i] = IF payStatus[i] # "paid" /\ status = "paid" THEN @ + 1 ELSE @]
    /\ UNCHANGED <<nte, coStatus, coTotal, invStatus, invTotal, agreed, breached,
                   crossed, cut, approvals>>

-----------------------------------------------------------------------------
(* approveVendorInvoice: the invoice FOR UPDATE, then the job. *)

ApproveLocksInvoice(s, i) ==
    /\ pc[s] = "idle"
    /\ invStatus[i] \in Approvable
    /\ InvoiceFree(i)
    /\ pc' = [pc EXCEPT ![s] = "invoice"]
    /\ cur' = [cur EXCEPT ![s] = i]
    /\ UNCHANGED <<ledger, jobHolder, ceiling, prior>>

\* What the approval reads once it holds the job: the effective NTE and the
\* approved totals of the job's other invoices.
ApproveReads(s) ==
    /\ pc' = [pc EXCEPT ![s] = "job"]
    /\ ceiling' = [ceiling EXCEPT ![s] = EffectiveNte]
    /\ prior' = [prior EXCEPT ![s] = Total(invTotal, ApprovedInvoices \ {cur[s]})]
    /\ UNCHANGED <<ledger, cur>>

\* Mutant: the job is read, not locked.
ApproveReadsJob(s) ==
    /\ pc[s] = "invoice"
    /\ ApproveReads(s)
    /\ UNCHANGED jobHolder

ApproveLocksJob(s) ==
    /\ pc[s] = "invoice"
    /\ jobHolder = None
    /\ jobHolder' = s
    /\ ApproveReads(s)

\* COMMIT and ROLLBACK let go of both rows.
Release(s) ==
    /\ jobHolder' = IF jobHolder = s THEN None ELSE jobHolder
    /\ pc' = [pc EXCEPT ![s] = "idle"]
    /\ cur' = [cur EXCEPT ![s] = None]
    /\ ceiling' = [ceiling EXCEPT ![s] = None]
    /\ prior' = [prior EXCEPT ![s] = 0]

\* The invoice's own ceiling: its assignment's agreed amount, else the job's.
Baseline(s) == IF agreed[cur[s]] = JobLevel THEN ceiling[s] ELSE agreed[cur[s]]

\* Mutant: the event whenever the job is over its ceiling.
OverNow(s) == ceiling[s] # None /\ prior[s] + invTotal[cur[s]] > ceiling[s]

\* The first crossing only: the others alone were within the ceiling.
CrossesNow(s) ==
    /\ ceiling[s] # None
    /\ prior[s] <= ceiling[s]
    /\ prior[s] + invTotal[cur[s]] > ceiling[s]

ApproveCommit(s) ==
    LET i == cur[s] IN
    /\ pc[s] = "job"
    /\ invStatus' = [invStatus EXCEPT ![i] = "approved"]
    /\ breached' = [breached EXCEPT
          ![i] = Baseline(s) # None /\ invTotal[i] > Baseline(s)]
    /\ crossed' = IF CrossesNow(s) THEN Append(crossed, ceiling[s]) ELSE crossed
    /\ Release(s)
    /\ UNCHANGED <<nte, coStatus, coTotal, invTotal, agreed, paid, payStatus,
                   paidEvents, cut>>

\* An error, a lost connection or a crash rolls the approval back.
ApproveFails(s) ==
    /\ pc[s] # "idle"
    /\ Release(s)
    /\ UNCHANGED ledger

-----------------------------------------------------------------------------
OrderRequest(o) ==
    \/ CreateChangeOrder(o)
    \/ \E t \in Amounts : EditChangeOrder(o, t)
    \/ SubmitChangeOrder(o) \/ ApproveChangeOrder(o)
    \/ DeclineChangeOrder(o) \/ WithdrawChangeOrder(o)

InvoiceRequest(i) ==
    \/ \E link \in Links, t \in Amounts : RecordVendorInvoice(i, link, t)
    \/ \E t \in Amounts : EditVendorInvoice(i, t)
    \/ DisputeVendorInvoice(i)
    \/ \E a \in 1..MaxPaid : PayVendor(i, a)
    \/ \E s \in Approvers : ApproveLocksInvoice(s, i)

PayablesRequest ==
    \/ \E a \in Amounts \cup {None} : AdjustNte(a)
    \/ \E o \in Orders : OrderRequest(o)
    \/ \E i \in Invoices : InvoiceRequest(i)

PayablesStep ==
    \E s \in Approvers : ApproveLocksJob(s) \/ ApproveCommit(s) \/ ApproveFails(s)

PayablesNext == PayablesRequest \/ PayablesStep

PayablesSpec == PayablesInit /\ [][PayablesNext]_payables
-----------------------------------------------------------------------------
(* Properties. *)

PayablesTypeOK ==
    /\ nte \in Amounts \cup {None}
    /\ coStatus \in [Orders -> OrderStatuses \cup {None}]
    /\ coTotal \in [Orders -> Amounts]
    /\ invStatus \in [Invoices -> InvoiceStatuses \cup {None}]
    /\ invTotal \in [Invoices -> Amounts]
    /\ agreed \in [Invoices -> Amounts \cup {JobLevel, None}]
    /\ breached \in [Invoices -> BOOLEAN]
    /\ paid \in [Invoices -> Nat]
    /\ payStatus \in [Invoices -> PaymentStatuses]
    /\ paidEvents \in [Invoices -> Nat]
    /\ crossed \in Seq(Nat)
    /\ cut \in BOOLEAN
    /\ jobHolder \in Approvers \cup {None}
    /\ pc \in [Approvers -> {"idle", "invoice", "job"}]
    /\ cur \in [Approvers -> Invoices \cup {None}]
    /\ ceiling \in [Approvers -> Nat \cup {None}]
    /\ prior \in [Approvers -> Nat]

\* vendor-invoices.ts: "concurrent approvals on the same job serialize and the
\* aggregate crossing is detected exactly once".  An overrun of the ceiling that
\* approvals (not a cut of the ceiling) brought about has its event, against a
\* ceiling no higher than the present one; nor does an invoice above what its
\* vendor agreed to pass without one.
NoSilentOverrun ==
    /\ EffectiveNte # None /\ ApprovedCost > EffectiveNte /\ ~cut
          => Len(crossed) > 0 /\ crossed[Len(crossed)] <= EffectiveNte
    /\ \A i \in ApprovedInvoices :
          agreed[i] \in Amounts /\ invTotal[i] > agreed[i] => breached[i]

\* "FIRST crossing only (not re-emitted once already over)": however the ceiling
\* moves, an event is about a higher ceiling than all before it, and a ceiling
\* that was reported crossed stays below the approved cost.
EachCeilingCrossedOnce ==
    /\ \A j, k \in 1..Len(crossed) : j < k => crossed[j] < crossed[k]
    /\ \A j \in 1..Len(crossed) : crossed[j] < ApprovedCost

\* An approval is a commitment: neither the approved invoice nor a change order
\* that was submitted changes its total any more, and neither is unapproved.
ApprovedIsFrozen ==
    [][/\ \A i \in Invoices : invStatus[i] = "approved" =>
             invStatus'[i] = "approved" /\ invTotal'[i] = invTotal[i]
       /\ \A o \in Orders :
             /\ coStatus[o] \notin {None, "draft"} => coTotal'[o] = coTotal[o]
             /\ coStatus[o] = "approved" => coStatus'[o] = "approved"]_payables

\* Payments are made on what was approved and derive the status of the total they
\* were made against; the paid event is emitted once, when it is reached.
VendorPaymentsMatch ==
    \A i \in Invoices :
        /\ paid[i] > 0 => invStatus[i] = "approved"
        /\ payStatus[i] =
              IF paid[i] = 0 THEN "unpaid" ELSE DerivePaymentStatus(paid[i], invTotal[i])
        /\ paidEvents[i] = IF payStatus[i] = "paid" THEN 1 ELSE 0
=============================================================================
