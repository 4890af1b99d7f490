-------------------------------- MODULE Billing --------------------------------
(***************************************************************************)
(* The money of one job: Payables and Receivables side by side, and the    *)
(* billing close (billing/close.ts, margin.ts) that reads both.  They meet *)
(* at the job row: while an approval holds it FOR UPDATE, whatever inserts *)
(* a row that references the job waits, receivables included.              *)
(***************************************************************************)
EXTENDS Payables, Receivables

CONSTANT MaxRequests   \* bound: requests that arrive

ASSUME BillingAssumption == MaxRequests \in Nat

VARIABLES requests,   \* requests that have arrived
          seenCost,   \* the cost in the margin a closing request has read
          closedCost  \* the cost recorded with the last billing.closed event

close == <<seenCost, closedCost>>
vars  == <<payables, receivables, close, requests>>

Init ==
    /\ PayablesInit
    /\ ReceivablesInit
    /\ requests = 0
    /\ seenCost = None
    /\ closedCost = None

Arrives == requests < MaxRequests /\ requests' = requests + 1

\* The margin is read through the pool, before the transaction.
MarkBillingClosed ==
    /\ seenCost = None
    /\ seenCost' = ApprovedCost
    /\ UNCHANGED <<payables, receivables, closedCost>>

\* The job is locked, closed, and the margin recorded as it was read.  The job may
\* have been closed before: the operator's status picker reopens it.
RecordClose ==
    /\ seenCost # None
    /\ JobTakesForeignKey
    /\ closedCost' = seenCost
    /\ seenCost' = None
    /\ UNCHANGED <<payables, receivables>>

CloseFails ==
    /\ seenCost # None
    /\ seenCost' = None
    /\ UNCHANGED <<payables, receivables, closedCost>>

PayablesMove(A)    == A /\ UNCHANGED <<receivables, close>>
ReceivablesMove(A) == A /\ UNCHANGED <<payables, close>>

Next ==
    \/ PayablesMove(PayablesRequest) /\ Arrives
    \/ PayablesMove(PayablesStep) /\ UNCHANGED requests
    \/ ReceivablesMove(JobBillingWrite) /\ JobTakesForeignKey /\ Arrives
    \/ ReceivablesMove(OtherRequest) /\ Arrives
    \/ ReceivablesMove(CreateStep) /\ JobTakesForeignKey /\ UNCHANGED requests
    \/ ReceivablesMove(ClerkStep) /\ UNCHANGED requests
    \/ MarkBillingClosed /\ Arrives
    \/ (RecordClose \/ CloseFails) /\ UNCHANGED requests

Spec == Init /\ [][Next]_vars
-----------------------------------------------------------------------------
(* Properties of the composed system. *)

BillingTypeOK ==
    /\ PayablesTypeOK
    /\ ReceivablesTypeOK
    /\ requests \in Nat
    /\ seenCost \in Nat \cup {None}
    /\ closedCost \in Nat \cup {None}

\* What was approved or issued keeps its amount, on both sides of the books.
CommitmentsFrozen == ApprovedIsFrozen /\ IssuedIsFrozen

\* Payments recorded, payment status and paid events agree, in both directions.
PaymentsMatch == VendorPaymentsMatch /\ ReceiptsMatch

\* close.ts: the margin of the billing.closed event is computed before the
\* transaction, "the just-before read is consistent".  Invoices approved meanwhile
\* are missing from it, but the cost it records is never more than what is owed.
SnapshotNeverOverstatesCost ==
    /\ seenCost # None => seenCost <= ApprovedCost
    /\ closedCost # None => closedCost <= ApprovedCost
=============================================================================
