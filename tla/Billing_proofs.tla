----------------------------- MODULE Billing_proofs -----------------------------
(***************************************************************************)
(* Theorems of Receivables and of the composed Billing, for any number of  *)
(* invoices, drafts and concurrent requests, and any amounts.              *)
(*                                                                         *)
(* Receivables: whoever is about to insert holds the counter and has read  *)
(* its present value, so numbers are handed out in order; and the invoice  *)
(* a publication has created is its own, linked to no draft yet.           *)
(*                                                                         *)
(* Billing: each half behaves as its own specification says, since the     *)
(* composition only takes steps away.  What is proved of a half then holds *)
(* of the whole.                                                           *)
(***************************************************************************)
EXTENDS Billing, Payables_proofs

-----------------------------------------------------------------------------
(* Receivables. *)

\* The request that inserts holds the counter, and its number is the next one.
CounterOK ==
    /\ next >= 1
    /\ \A s \in Clerks :
          /\ stage[s] = "insert" <=> counterHolder = s
          /\ stage[s] = "insert" => got[s] = next

\* A publication in its line loop has an invoice of its own; a request that will
\* write a draft has one.
OwnBill ==
    /\ \A s \in Clerks :
          /\ stage[s] = "lines" <=> bill[s] # None
          /\ stage[s] \in {"lines", "discard"} => source[s] # None
          /\ bill[s] # None => billStatus[bill[s]] # None
          /\ bill[s] # None => \A d \in Drafts : link[d] # bill[s]
    /\ \A s, t \in Clerks : bill[s] = bill[t] /\ bill[s] # None => s = t

\* A link leads to an invoice; a published draft has one.
LinksOK ==
    \A d \in Drafts :
        /\ link[d] # None => billStatus[link[d]] # None
        /\ link[d] # None => draftStatus[d] \in {"published", "discarded"}
        /\ draftStatus[d] = "published" => link[d] # None

RInv == /\ ReceivablesTypeOK
        /\ CounterOK
        /\ OwnBill
        /\ LinksOK
        /\ NumbersGapless
        /\ ReceiptsMatch

LEMMA InitRInv == ReceivablesInit => RInv
<1> SUFFICES ASSUME ReceivablesInit PROVE RInv
  OBVIOUS
<1> USE ReceivablesAssumption, MoneyAssumption DEF ReceivablesInit
<1>1. ReceivablesTypeOK
  <2>1. 0 \in Amounts
    BY DEF Amounts
  <2> QED
    BY <2>1 DEF ReceivablesTypeOK, PaymentStatuses, Stages
<1>2. CounterOK /\ OwnBill /\ LinksOK
  BY DEF CounterOK, OwnBill, LinksOK, DraftStatuses
<1>3. NumbersGapless
  BY DEF NumbersGapless
<1>4. ReceiptsMatch
  BY DEF ReceiptsMatch
<1> QED
  BY <1>1, <1>2, <1>3, <1>4 DEF RInv

-----------------------------------------------------------------------------
(* Types. *)

LEMMA ReceivablesStepTypes ==
    ASSUME RInv, ReceivablesNext
    PROVE  ReceivablesTypeOK'
<1> USE DEF RInv, ReceivablesTypeOK
<1>1. ASSUME NEW b \in Bills, SendClientInvoice(b) \/ VoidClientInvoice(b)
      PROVE  ReceivablesTypeOK'
  BY <1>1 DEF SendClientInvoice, VoidClientInvoice, MoveBill, BillStatuses, drafts, clerks
<1>2. ASSUME NEW b \in Bills, NEW a \in 1..MaxReceived, ReceivePayment(b, a)
      PROVE  ReceivablesTypeOK'
  BY <1>2, ReceivablesAssumption DEF ReceivePayment, DerivePaymentStatus, PaymentStatuses,
     drafts, clerks
<1>3. ASSUME NEW d \in Drafts, NEW n \in Amounts,
             CreateInvoiceDraft(d, n) \/ CreateInvoiceReview(d, n)
      PROVE  ReceivablesTypeOK'
  <2>1. PICK status \in DraftStatuses, lines \in Amounts : DraftIs(d, status, lines)
    BY <1>3 DEF CreateInvoiceDraft, CreateInvoiceReview, DraftStatuses
  <2> QED
    BY <2>1 DEF DraftIs, invoices, clerks
<1>4. ASSUME NEW b \in Bills, NEW t \in Amounts, EditBill(b, t)
      PROVE  ReceivablesTypeOK'
  BY <1>4 DEF EditBill, drafts, clerks
<1>5. ASSUME NEW s \in Clerks, NEW lines \in Amounts, NEW d \in Drafts \cup {None},
             NEW label \in Stages, Begin(s, label, d, lines)
      PROVE  ReceivablesTypeOK'
  <2>1. lines \in Nat
    BY MoneyAssumption DEF Amounts
  <2> QED
    BY <1>5, <2>1 DEF Begin, Goto, invoices, drafts
<1>6. CASE OtherRequest
  <2>1. {"create", "discard"} \subseteq Stages /\ 0 \in Amounts
    BY MoneyAssumption DEF Stages, Amounts
  <2> QED
    BY <1>3, <1>4, <1>5, <1>6, <2>1 DEF OtherRequest, BeginCreate, BeginPublish, BeginDiscard
<1>7. ASSUME NEW s \in Clerks, NEW b \in Bills, InsertBill(s, b)
      PROVE  ReceivablesTypeOK'
  BY <1>7 DEF InsertBill, Done, Goto, BillStatuses, Stages, drafts
<1>8. ASSUME NEW s \in Clerks, LockCounter(s) PROVE ReceivablesTypeOK'
  BY <1>8 DEF LockCounter, Goto, Stages, invoices, drafts
<1>9. ASSUME NEW s \in Clerks, AddLine(s) PROVE ReceivablesTypeOK'
  <2>1. bill[s] \in Bills
    BY <1>9 DEF AddLine, OwnBill
  <2>2. billTotal[bill[s]] + 1 \in Amounts
    BY <1>9, <2>1, MoneyAssumption DEF AddLine, Amounts
  <2> QED
    BY <1>9, <2>1, <2>2 DEF AddLine, drafts
<1>10. ASSUME NEW s \in Clerks, Finalize(s) PROVE ReceivablesTypeOK'
  BY <1>10 DEF Finalize, Done, Goto, DraftStatuses, Stages, invoices
<1>11. ASSUME NEW s \in Clerks, DiscardInvoiceDraft(s) PROVE ReceivablesTypeOK'
  BY <1>11 DEF DiscardInvoiceDraft, Done, Goto, DraftStatuses, Stages, invoices
<1>12. ASSUME NEW s \in Clerks, Fail(s) PROVE ReceivablesTypeOK'
  BY <1>12 DEF Fail, Done, Goto, Stages, invoices, drafts
<1> QED
  BY <1>1, <1>2, <1>3, <1>6, <1>7, <1>8, <1>9, <1>10, <1>11, <1>12
  DEF ReceivablesNext, JobBillingWrite, CreateStep, ClerkStep

-----------------------------------------------------------------------------
(* The counter. *)

\* What leaves the counter, its holder and the readers alone.
CounterKept == UNCHANGED <<next, counterHolder, stage, got>>

LEMMA StepCounter ==
    ASSUME RInv, ReceivablesNext
    PROVE  CounterOK'
<1> USE ReceivablesAssumption DEF RInv, ReceivablesTypeOK, CounterOK
<1>1. CASE CounterKept
  BY <1>1 DEF CounterKept
<1>2. ASSUME NEW s \in Clerks, NEW d, NEW lines, NEW label \in {"create", "discard"},
             Begin(s, label, d, lines)
      PROVE  CounterOK'
  BY <1>2 DEF Begin, Goto, invoices
<1>3. ASSUME NEW s \in Clerks, NEW b \in Bills, InsertBill(s, b)
      PROVE  CounterOK'
  BY <1>3 DEF InsertBill, Done, Goto
<1>4. ASSUME NEW s \in Clerks, LockCounter(s) PROVE CounterOK'
  BY <1>4 DEF LockCounter, Goto, invoices
<1>5. ASSUME NEW s \in Clerks, Finalize(s) \/ DiscardInvoiceDraft(s) PROVE CounterOK'
  BY <1>5 DEF Finalize, DiscardInvoiceDraft, Done, Goto, invoices
<1>6. ASSUME NEW s \in Clerks, Fail(s) PROVE CounterOK'
  BY <1>6 DEF Fail, Done, Goto, invoices
<1>7. CASE JobBillingWrite
  <2>1. CounterKept
    BY <1>7 DEF JobBillingWrite, SendClientInvoice, VoidClientInvoice, MoveBill,
       ReceivePayment, CreateInvoiceDraft, DraftIs, CounterKept, invoices, clerks
  <2> QED
    BY <1>1, <2>1
<1>8. CASE OtherRequest
  <2>1. CASE \E b \in Bills, t \in Amounts : EditBill(b, t)
    BY <1>1, <2>1 DEF EditBill, CounterKept, clerks
  <2>2. CASE \E d \in Drafts, n \in Amounts : CreateInvoiceReview(d, n)
    BY <1>1, <2>2 DEF CreateInvoiceReview, DraftIs, CounterKept, invoices, clerks
  <2> QED
    BY <1>2, <1>8, <2>1, <2>2 DEF OtherRequest, BeginCreate, BeginPublish, BeginDiscard
<1>9. ASSUME NEW s \in Clerks, AddLine(s) PROVE CounterOK'
  BY <1>1, <1>9 DEF AddLine, CounterKept
<1> QED
  BY <1>3, <1>4, <1>5, <1>6, <1>7, <1>8, <1>9 DEF ReceivablesNext, CreateStep, ClerkStep

LEMMA StepNumbers ==
    ASSUME RInv, ReceivablesNext
    PROVE  NumbersGapless'
<1> USE ReceivablesAssumption DEF RInv, ReceivablesTypeOK
<1>1. ASSUME UNCHANGED <<number, next>>,
             \A b \in Bills : billStatus'[b] = None <=> billStatus[b] = None
      PROVE  NumbersGapless'
  BY <1>1 DEF NumbersGapless
<1>2. ASSUME NEW s \in Clerks, NEW b \in Bills, InsertBill(s, b)
      PROVE  NumbersGapless'
  <2>1. /\ billStatus[b] = None /\ billStatus'[b] = "draft" /\ "draft" # None
        /\ got[s] = next /\ number'[b] = next /\ next' = next + 1 /\ next >= 1
    BY <1>2 DEF InsertBill, CounterOK, BillStatuses
  <2>2. \A c \in Bills \ {b} : number'[c] = number[c] /\ billStatus'[c] = billStatus[c]
    BY <1>2 DEF InsertBill
  <2>3. ASSUME NEW c \in Bills, billStatus'[c] # None
        PROVE  /\ number'[c] \in 1..(next' - 1)
               /\ \A e \in Bills : e # c /\ billStatus'[e] # None => number'[e] # number'[c]
    <3>1. \A e \in Bills \ {b} : billStatus[e] # None => number[e] \in 1..(next - 1)
      BY DEF NumbersGapless
    <3> QED
      BY <2>1, <2>2, <2>3, <3>1 DEF NumbersGapless
  <2>4. ASSUME NEW n \in 1..(next' - 1)
        PROVE  \E c \in Bills : billStatus'[c] # None /\ number'[c] = n
    <3>1. CASE n = next
      BY <2>1, <3>1
    <3>2. CASE n # next
      <4>1. n \in 1..(next - 1)
        BY <2>1, <3>2
      <4>2. PICK c \in Bills : billStatus[c] # None /\ number[c] = n
        BY <4>1 DEF NumbersGapless
      <4> QED
        BY <2>1, <2>2, <4>2
    <3> QED
      BY <3>1, <3>2
  <2> QED
    BY <2>3, <2>4 DEF NumbersGapless
<1>3. CASE JobBillingWrite
  BY <1>1, <1>3 DEF JobBillingWrite, SendClientInvoice, VoidClientInvoice, MoveBill,
     ReceivePayment, CreateInvoiceDraft, DraftIs, invoices, BillStatuses
<1>4. CASE OtherRequest
  BY <1>1, <1>4 DEF OtherRequest, EditBill, CreateInvoiceReview, DraftIs, BeginCreate,
     BeginPublish, BeginDiscard, Begin, invoices
<1>5. CASE ClerkStep
  BY <1>1, <1>5 DEF ClerkStep, LockCounter, AddLine, Finalize, DiscardInvoiceDraft, Fail, invoices
<1> QED
  BY <1>2, <1>3, <1>4, <1>5 DEF ReceivablesNext, CreateStep

-----------------------------------------------------------------------------
(* Invoices that are published. *)

LEMMA StepOwn ==
    ASSUME RInv, ReceivablesNext
    PROVE  OwnBill'
<1> USE ReceivablesAssumption DEF RInv, ReceivablesTypeOK, OwnBill
<1>1. ASSUME UNCHANGED <<link, stage, source, bill>>,
             \A b \in Bills : billStatus[b] # None => billStatus'[b] # None
      PROVE  OwnBill'
  BY <1>1
<1>2. ASSUME NEW s \in Clerks, Begin(s, "create", source'[s], left'[s]) PROVE OwnBill'
  BY <1>2 DEF Begin, Goto, invoices, drafts
<1>3. ASSUME NEW s \in Clerks, NEW d \in Drafts, BeginDiscard(s, d) PROVE OwnBill'
  BY <1>3 DEF BeginDiscard, Begin, Goto, invoices, drafts
<1>4. ASSUME NEW s \in Clerks, NEW b \in Bills, InsertBill(s, b)
      PROVE  OwnBill'
  <2>1. /\ billStatus[b] = None /\ b # None /\ stage[s] = "insert" /\ link' = link
        /\ \A c \in Bills : billStatus[c] # None => billStatus'[c] # None
        /\ billStatus'[b] # None
    BY <1>4 DEF InsertBill, BillStatuses, drafts
  <2>2. (\A t \in Clerks : bill[t] # b) /\ (\A d \in Drafts : link[d] # b)
    BY <2>1 DEF LinksOK
  <2>3. bill[s] = None
    BY <2>1
  <2>4. CASE source[s] = None
    BY <1>4, <2>1, <2>2, <2>3, <2>4 DEF InsertBill, Done, Goto
  <2>5. CASE source[s] # None
    <3>1. /\ stage' = [stage EXCEPT ![s] = "lines"] /\ bill' = [bill EXCEPT ![s] = b]
          /\ source' = source
      BY <1>4, <2>5 DEF InsertBill, Goto
    <3> QED
      BY <2>1, <2>2, <2>3, <2>5, <3>1
  <2> QED
    BY <2>4, <2>5
<1>5. ASSUME NEW s \in Clerks, LockCounter(s) PROVE OwnBill'
  BY <1>5 DEF LockCounter, Goto, invoices, drafts
<1>6. ASSUME NEW s \in Clerks, Finalize(s) PROVE OwnBill'
  BY <1>6 DEF Finalize, Done, Goto, invoices
<1>7. ASSUME NEW s \in Clerks, DiscardInvoiceDraft(s) \/ Fail(s) PROVE OwnBill'
  BY <1>7 DEF DiscardInvoiceDraft, Fail, Done, Goto, invoices, drafts
<1>8. ASSUME NEW s \in Clerks, AddLine(s) PROVE OwnBill'
  BY <1>1, <1>8 DEF AddLine, drafts
<1>9. CASE JobBillingWrite
  BY <1>1, <1>9 DEF JobBillingWrite, SendClientInvoice, VoidClientInvoice, MoveBill,
     ReceivePayment, CreateInvoiceDraft, DraftIs, invoices, drafts, clerks, BillStatuses
<1>10. CASE OtherRequest
  <2>1. CASE \E b \in Bills, t \in Amounts : EditBill(b, t)
    BY <1>1, <2>1 DEF EditBill, drafts, clerks
  <2>2. CASE \E d \in Drafts, n \in Amounts : CreateInvoiceReview(d, n)
    BY <1>1, <2>2 DEF CreateInvoiceReview, DraftIs, invoices, clerks
  <2>3. ASSUME NEW s \in Clerks, BeginCreate(s) \/ \E d \in Drafts : BeginPublish(s, d)
        PROVE  Begin(s, "create", source'[s], left'[s])
    BY <2>3 DEF BeginCreate, BeginPublish, Begin
  <2> QED
    BY <1>2, <1>3, <1>10, <2>1, <2>2, <2>3 DEF OtherRequest
<1> QED
  BY <1>4, <1>5, <1>6, <1>7, <1>8, <1>9, <1>10 DEF ReceivablesNext, CreateStep, ClerkStep

LEMMA StepLinks ==
    ASSUME RInv, ReceivablesNext
    PROVE  LinksOK'
<1> USE ReceivablesAssumption DEF RInv, ReceivablesTypeOK, LinksOK
<1>1. ASSUME UNCHANGED <<link, draftStatus>>,
             \A b \in Bills : billStatus[b] # None => billStatus'[b] # None
      PROVE  LinksOK'
  BY <1>1
<1>2. ASSUME NEW d \in Drafts, NEW n \in Amounts,
             CreateInvoiceDraft(d, n) \/ CreateInvoiceReview(d, n)
      PROVE  LinksOK'
  BY <1>2 DEF CreateInvoiceDraft, CreateInvoiceReview, DraftIs, invoices, DraftStatuses
<1>3. ASSUME NEW s \in Clerks, Finalize(s) PROVE LinksOK'
  <2>1. source[s] \in Drafts /\ bill[s] \in Bills /\ billStatus[bill[s]] # None
    BY <1>3 DEF Finalize, OwnBill
  <2> QED
    BY <1>3, <2>1 DEF Finalize, invoices
<1>4. ASSUME NEW s \in Clerks, DiscardInvoiceDraft(s) PROVE LinksOK'
  BY <1>4 DEF DiscardInvoiceDraft, invoices, OwnBill
<1>5. CASE JobBillingWrite
  BY <1>1, <1>2, <1>5 DEF JobBillingWrite, SendClientInvoice, VoidClientInvoice, MoveBill,
     ReceivePayment, drafts, BillStatuses
<1>6. CASE OtherRequest
  BY <1>1, <1>2, <1>6 DEF OtherRequest, EditBill, BeginCreate, BeginPublish, BeginDiscard,
     Begin, invoices, drafts
<1>7. CASE CreateStep
  BY <1>1, <1>7 DEF CreateStep, InsertBill, drafts, BillStatuses
<1>8. ASSUME NEW s \in Clerks, LockCounter(s) \/ AddLine(s) \/ Fail(s) PROVE LinksOK'
  BY <1>1, <1>8 DEF LockCounter, AddLine, Fail, invoices, drafts
<1> QED
  BY <1>3, <1>4, <1>5, <1>6, <1>7, <1>8 DEF ReceivablesNext, ClerkStep

-----------------------------------------------------------------------------
(* Payments. *)

LEMMA StepReceipts ==
    ASSUME RInv, ReceivablesNext
    PROVE  ReceiptsMatch'
<1> USE DEF RInv, ReceivablesTypeOK
<1>1. ASSUME UNCHANGED <<received, billPayStatus, billPaid>>,
             \A b \in Bills :
                \/ billTotal'[b] = billTotal[b] /\ billStatus'[b] = billStatus[b]
                \/ billTotal'[b] = billTotal[b] /\ billStatus'[b] \in {"sent", "void"}
                \/ billStatus[b] \notin {"sent", "void"}
      PROVE  ReceiptsMatch'
  <2> SUFFICES ASSUME NEW b \in Bills
               PROVE  /\ received'[b] > 0 => billStatus'[b] \in {"sent", "void"}
                      /\ billPayStatus'[b] = IF received'[b] = 0 THEN "unpaid"
                            ELSE DerivePaymentStatus(received'[b], billTotal'[b])
                      /\ billPaid'[b] = IF billPayStatus'[b] = "paid" THEN 1 ELSE 0
    BY DEF ReceiptsMatch, DerivePaymentStatus
  <2>1. CASE billStatus[b] \notin {"sent", "void"}
    <3>1. received[b] = 0 /\ billPayStatus[b] = "unpaid" /\ billPaid[b] = 0
      BY <2>1 DEF ReceiptsMatch
    <3> QED
      BY <1>1, <3>1
  <2>2. CASE billTotal'[b] = billTotal[b] /\ (\/ billStatus'[b] = billStatus[b]
                                              \/ billStatus'[b] \in {"sent", "void"})
    BY <1>1, <2>2 DEF ReceiptsMatch, DerivePaymentStatus
  <2> QED
    BY <1>1, <2>1, <2>2
<1>2. ASSUME NEW b \in Bills, NEW a \in 1..MaxReceived, ReceivePayment(b, a)
      PROVE  ReceiptsMatch'
  <2>1. a \in Nat /\ a > 0 /\ received[b] \in Nat /\ billTotal[b] \in Nat
    BY ReceivablesAssumption, MoneyAssumption DEF Amounts
  <2>2. UNCHANGED <<billStatus, billTotal>> /\ billStatus[b] = "sent"
    BY <1>2 DEF ReceivePayment
  <2>3. /\ received'[b] = received[b] + a
        /\ billPayStatus'[b] = DerivePaymentStatus(received[b] + a, billTotal[b])
        /\ billPaid'[b] = IF billPayStatus[b] # "paid" /\ billPayStatus'[b] = "paid"
                          THEN billPaid[b] + 1 ELSE billPaid[b]
        /\ \A c \in Bills \ {b} : /\ received'[c] = received[c]
                                  /\ billPayStatus'[c] = billPayStatus[c]
                                  /\ billPaid'[c] = billPaid[c]
    BY <1>2 DEF ReceivePayment
  <2>4. billPayStatus[b] = "paid" => billPayStatus'[b] = "paid"
    <3> SUFFICES ASSUME billPayStatus[b] = "paid" PROVE billPayStatus'[b] = "paid"
      OBVIOUS
    <3>1. received[b] # 0 /\ DerivePaymentStatus(received[b], billTotal[b]) = "paid"
      BY DEF ReceiptsMatch
    <3>2. received[b] >= billTotal[b]
      BY <3>1 DEF DerivePaymentStatus
    <3> QED
      BY <2>1, <2>3, <3>2 DEF DerivePaymentStatus
  <2>5. billPaid'[b] = IF billPayStatus'[b] = "paid" THEN 1 ELSE 0
    <3>1. CASE billPayStatus[b] = "paid"
      BY <2>3, <2>4, <3>1 DEF ReceiptsMatch
    <3>2. CASE billPayStatus[b] # "paid"
      <4>1. billPaid[b] = 0
        BY <3>2 DEF ReceiptsMatch
      <4> QED
        BY <2>3, <3>2, <4>1
    <3> QED
      BY <3>1, <3>2
  <2> QED
    BY <2>1, <2>2, <2>3, <2>5 DEF ReceiptsMatch
<1>3. CASE JobBillingWrite
  BY <1>1, <1>2, <1>3 DEF JobBillingWrite, SendClientInvoice, VoidClientInvoice, MoveBill,
     CreateInvoiceDraft, DraftIs, invoices
<1>4. CASE OtherRequest
  BY <1>1, <1>4 DEF OtherRequest, EditBill, CreateInvoiceReview, DraftIs, BeginCreate,
     BeginPublish, BeginDiscard, Begin, invoices
<1>5. CASE CreateStep
  BY <1>1, <1>5, ReceivablesAssumption DEF CreateStep, InsertBill, BillStatuses
<1>6. CASE ClerkStep
  <2>1. ASSUME NEW s \in Clerks, AddLine(s) PROVE ReceiptsMatch'
    <3>1. bill[s] \in Bills /\ billStatus[bill[s]] = "draft"
      BY <2>1 DEF AddLine, OwnBill
    <3> QED
      BY <1>1, <2>1, <3>1 DEF AddLine
  <2> QED
    BY <1>1, <1>6, <2>1 DEF ClerkStep, LockCounter, Finalize, DiscardInvoiceDraft, Fail, invoices
<1> QED
  BY <1>3, <1>4, <1>5, <1>6 DEF ReceivablesNext

LEMMA StutterRInv ==
    ASSUME RInv, UNCHANGED receivables
    PROVE  RInv'
<1> USE DEF RInv, receivables, invoices, drafts, clerks
<1>1. ReceivablesTypeOK' /\ CounterOK' /\ OwnBill' /\ LinksOK'
  BY DEF ReceivablesTypeOK, CounterOK, OwnBill, LinksOK
<1>2. NumbersGapless' /\ ReceiptsMatch'
  BY DEF NumbersGapless, ReceiptsMatch, DerivePaymentStatus
<1> QED
  BY <1>1, <1>2

\* The invariant is inductive.
THEOREM ReceivablesInvariant == ReceivablesSpec => []RInv
<1>1. RInv /\ [ReceivablesNext]_receivables => RInv'
  <2> SUFFICES ASSUME RInv, [ReceivablesNext]_receivables PROVE RInv'
    OBVIOUS
  <2>1. CASE ReceivablesNext
    BY <2>1, ReceivablesStepTypes, StepCounter, StepNumbers, StepOwn, StepLinks, StepReceipts
    DEF RInv
  <2> QED
    BY <2>1, StutterRInv
<1> QED
  BY <1>1, InitRInv, PTL DEF ReceivablesSpec

\* client-invoices.ts: every state of the receivables is typed.
THEOREM ReceivablesTypes == ReceivablesSpec => []ReceivablesTypeOK
BY ReceivablesInvariant, PTL DEF RInv

\* createClientInvoice: invoice numbers have no gap and no duplicate, however many
\* requests create invoices at once and fail at any point.
THEOREM NumbersStayGapless == ReceivablesSpec => []NumbersGapless
BY ReceivablesInvariant, PTL DEF RInv

\* recordClientPayment: payments, payment_status and paid events of issued invoices
\* agree.
THEOREM Receipts == ReceivablesSpec => []ReceiptsMatch
BY ReceivablesInvariant, PTL DEF RInv

\* publishInvoiceDraft: a draft becomes an invoice at most once, one of its own.
THEOREM DraftsMaterializeOnce == ReceivablesSpec => MaterializedOnce
<1> DEFINE Once ==
      \A d \in Drafts :
         /\ link[d] # None => link'[d] = link[d]
         /\ link'[d] # link[d] =>
               draftStatus'[d] = "published" /\ \A e \in Drafts \ {d} : link[e] # link'[d]
         /\ draftStatus'[d] = "published" => link'[d] # None
         /\ draftStatus[d] \in {"rejected", "discarded"} =>
               draftStatus'[d] \in {"rejected", "discarded"}
<1>1. RInv /\ RInv' /\ [ReceivablesNext]_receivables => [Once]_receivables
  <2> SUFFICES ASSUME RInv, RInv', ReceivablesNext PROVE Once
    OBVIOUS
  <2> USE ReceivablesAssumption DEF RInv, ReceivablesTypeOK, LinksOK
  <2>1. ASSUME UNCHANGED <<link, draftStatus>> PROVE Once
    BY <2>1
  <2>2. ASSUME NEW d \in Drafts, NEW n \in Amounts,
               CreateInvoiceDraft(d, n) \/ CreateInvoiceReview(d, n)
        PROVE  Once
    BY <2>2 DEF CreateInvoiceDraft, CreateInvoiceReview, DraftIs, DraftStatuses
  <2>3. ASSUME NEW s \in Clerks, Finalize(s) PROVE Once
    <3>1. /\ source[s] \in Drafts /\ bill[s] \in Bills
          /\ \A d \in Drafts : link[d] # bill[s]
      BY <2>3 DEF Finalize, OwnBill
    <3> QED
      BY <2>3, <3>1 DEF Finalize, StillPublishable
  <2>4. ASSUME NEW s \in Clerks, DiscardInvoiceDraft(s) PROVE Once
    BY <2>4 DEF DiscardInvoiceDraft
  <2>5. CASE JobBillingWrite
    BY <2>1, <2>2, <2>5 DEF JobBillingWrite, SendClientInvoice, VoidClientInvoice, MoveBill,
       ReceivePayment, drafts
  <2>6. CASE OtherRequest
    BY <2>1, <2>2, <2>6 DEF OtherRequest, EditBill, BeginCreate, BeginPublish, BeginDiscard,
       Begin, drafts
  <2> QED
    BY <2>1, <2>3, <2>4, <2>5, <2>6 DEF ReceivablesNext, CreateStep, InsertBill, ClerkStep,
       LockCounter, AddLine, Fail, drafts
<1> QED
  BY <1>1, ReceivablesInvariant, PTL DEF ReceivablesSpec, MaterializedOnce

\* client-invoices.ts: an issued invoice keeps its total and is never a draft again.
THEOREM IssuedStaysFrozen == ReceivablesSpec => IssuedIsFrozen
<1> DEFINE Frozen ==
      \A b \in Bills : billStatus[b] \in {"sent", "void"} =>
         billTotal'[b] = billTotal[b] /\ billStatus'[b] \in {"sent", "void"}
<1>1. RInv /\ [ReceivablesNext]_receivables => [Frozen]_receivables
  <2> SUFFICES ASSUME RInv, ReceivablesNext, NEW b \in Bills, billStatus[b] \in {"sent", "void"}
               PROVE  billTotal'[b] = billTotal[b] /\ billStatus'[b] \in {"sent", "void"}
    OBVIOUS
  <2> USE ReceivablesAssumption DEF RInv, ReceivablesTypeOK
  <2>1. CASE JobBillingWrite
    BY <2>1 DEF JobBillingWrite, SendClientInvoice, VoidClientInvoice, MoveBill,
       ReceivePayment, CreateInvoiceDraft, DraftIs, invoices
  <2>2. CASE OtherRequest
    BY <2>2 DEF OtherRequest, EditBill, CreateInvoiceReview, DraftIs, BeginCreate,
       BeginPublish, BeginDiscard, Begin, invoices
  <2>3. CASE CreateStep
    BY <2>3 DEF CreateStep, InsertBill, BillStatuses
  <2>4. CASE ClerkStep
    BY <2>4 DEF ClerkStep, LockCounter, AddLine, Finalize, DiscardInvoiceDraft, Fail, invoices
  <2> QED
    BY <2>1, <2>2, <2>3, <2>4 DEF ReceivablesNext
<1> QED
  BY <1>1, ReceivablesInvariant, PTL DEF ReceivablesSpec, IssuedIsFrozen

-----------------------------------------------------------------------------
(* The composition. *)

\* The payables half of a billing run is a run of Payables: the receivables, the
\* closing request and the job's lock they share only restrict it.
THEOREM BillingImplementsPayables == Spec => PayablesSpec
<1>1. Init => PayablesInit
  BY DEF Init
<1>2. [Next]_vars => [PayablesNext]_payables
  BY DEF Next, vars, PayablesMove, ReceivablesMove, PayablesNext, MarkBillingClosed,
     RecordClose, CloseFails
<1> QED
  BY <1>1, <1>2, PTL DEF Spec, PayablesSpec

\* The receivables half of a billing run is a run of Receivables.
THEOREM BillingImplementsReceivables == Spec => ReceivablesSpec
<1>1. Init => ReceivablesInit
  BY DEF Init
<1>2. [Next]_vars => [ReceivablesNext]_receivables
  BY DEF Next, vars, PayablesMove, ReceivablesMove, ReceivablesNext, MarkBillingClosed,
     RecordClose, CloseFails
<1> QED
  BY <1>1, <1>2, PTL DEF Spec, ReceivablesSpec

\* What a closing request has read or recorded is no more than the present cost.
CloseOK == /\ requests \in Nat
           /\ seenCost \in Nat \cup {None}
           /\ closedCost \in Nat \cup {None}
           /\ SnapshotNeverOverstatesCost

\* Approved invoices stay approved and keep their totals: cost never falls.
LEMMA CostNeverFalls ==
    ASSUME PInv, [PayablesNext]_payables
    PROVE  ApprovedCost \in Nat /\ ApprovedCost' \in Nat /\ ApprovedCost <= ApprovedCost'
<1>1. ApprovedCost \in Nat
  BY SumsAreNat
<1>2. CASE UNCHANGED payables
  <2>1. ApprovedCost' = ApprovedCost
    BY <1>2 DEF payables, ledger, ApprovedCost, ApprovedInvoices, Total, Units
  <2> QED
    BY <1>1, <2>1
<1>3. CASE PayablesNext
  BY <1>1, <1>3, StepEffect DEF Quiet, Adjusts, Raises, Commits
<1> QED
  BY <1>2, <1>3

LEMMA CloseInvariant == Spec => []CloseOK
<1>1. Init => CloseOK
  BY DEF Init, CloseOK, SnapshotNeverOverstatesCost
<1>2. PInv /\ CloseOK /\ [PayablesNext]_payables /\ [Next]_vars => CloseOK'
  <2> SUFFICES ASSUME PInv, CloseOK, [PayablesNext]_payables, [Next]_vars PROVE CloseOK'
    OBVIOUS
  <2>1. ApprovedCost \in Nat /\ ApprovedCost' \in Nat /\ ApprovedCost <= ApprovedCost'
    BY CostNeverFalls
  <2> USE BillingAssumption, MoneyAssumption DEF CloseOK, SnapshotNeverOverstatesCost
  <2>2. requests' \in Nat
    BY DEF Next, vars, Arrives
  <2>3. CASE UNCHANGED close
    BY <2>1, <2>2, <2>3 DEF close
  <2>4. CASE MarkBillingClosed
    BY <2>1, <2>2, <2>4 DEF MarkBillingClosed
  <2>5. CASE RecordClose
    BY <2>1, <2>2, <2>5 DEF RecordClose
  <2>6. CASE CloseFails
    BY <2>1, <2>2, <2>6 DEF CloseFails
  <2> QED
    BY <2>3, <2>4, <2>5, <2>6 DEF Next, vars, PayablesMove, ReceivablesMove
<1> QED
  BY <1>1, <1>2, BillingImplementsPayables, PayablesInvariant, PTL DEF Spec, PayablesSpec

\* Every state of the composed system is typed.
THEOREM BillingTypes == Spec => []BillingTypeOK
<1>1. PayablesTypeOK /\ ReceivablesTypeOK /\ CloseOK => BillingTypeOK
  BY DEF CloseOK, BillingTypeOK
<1> QED
  BY <1>1, BillingImplementsPayables, PayablesTypes, BillingImplementsReceivables,
     ReceivablesTypes, CloseInvariant, PTL

\* approveVendorInvoice, with everything else that touches the job running beside it:
\* an overrun that approvals brought about has its event.
THEOREM BillingReportsOverruns == Spec => []NoSilentOverrun
BY BillingImplementsPayables, OverrunsAreReported

\* approveVendorInvoice: a ceiling is reported crossed once.
THEOREM BillingReportsOnce == Spec => []EachCeilingCrossedOnce
BY BillingImplementsPayables, CeilingsCrossedOnce

\* payments.ts, in both directions: payments, statuses and paid events agree.
THEOREM BillingPayments == Spec => []PaymentsMatch
<1>1. VendorPaymentsMatch /\ ReceiptsMatch => PaymentsMatch
  BY DEF PaymentsMatch
<1> QED
  BY <1>1, BillingImplementsPayables, VendorPayments, BillingImplementsReceivables,
     Receipts, PTL

\* client-invoices.ts: invoice numbers have no gap and no duplicate.
THEOREM BillingNumbers == Spec => []NumbersGapless
BY BillingImplementsReceivables, NumbersStayGapless

\* publish.ts: an invoice draft is published at most once.
THEOREM BillingPublishesOnce == Spec => MaterializedOnce
BY BillingImplementsReceivables, DraftsMaterializeOnce

\* What was approved or issued keeps its amount, on both sides.
THEOREM BillingFreezes == Spec => CommitmentsFrozen
BY BillingImplementsPayables, ApprovedStaysFrozen, BillingImplementsReceivables,
   IssuedStaysFrozen DEF CommitmentsFrozen

\* close.ts: the cost a billing.closed event records is never more than is owed.
THEOREM SnapshotIsSafe == Spec => []SnapshotNeverOverstatesCost
<1>1. CloseOK => SnapshotNeverOverstatesCost
  BY DEF CloseOK
<1> QED
  BY <1>1, CloseInvariant, PTL
=============================================================================
