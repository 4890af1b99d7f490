------------------------------ MODULE Receivables ------------------------------
(***************************************************************************)
(* What a job bills: the client's invoices and their numbers               *)
(* (billing/client-invoices.ts), the payments received (payments.ts), and  *)
(* the invoice creator's drafts, their review and their publication        *)
(* (agents/invoice-creator).                                               *)
(*                                                                         *)
(* Creating an invoice locks the tenant's counter, then inserts and bumps  *)
(* it.  A publication is a sequence of transactions: create, one per line, *)
(* finalize; requests interleave, and may die, between any two.            *)
(***************************************************************************)
EXTENDS Money

CONSTANTS Bills,       \* ids of client invoices
          Drafts,      \* ids of the invoice creator's drafts
          Clerks,      \* requests that create an invoice or dispose of a draft
          MaxReceived  \* bound: payments on one invoice, summed

BillStatuses  == {"draft", "sent", "void"}
DraftStatuses == {"pending_review", "approved", "rejected", "discarded", "published"}
Discardable   == {"pending_review", "approved"}

ASSUME ReceivablesAssumption ==
    /\ MaxReceived \in Nat
    /\ None \notin Bills \cup Drafts \cup Clerks
    /\ None \notin BillStatuses \cup DraftStatuses

VARIABLES billStatus,    \* status of a client invoice (None: no row)
          billTotal,     \* its total
          number,        \* its sequence_number
          received,      \* payment_records on it, summed
          billPayStatus, \* payment_status
          billPaid,      \* client_invoice.paid events
          next,          \* the tenant's next_number
          draftStatus,   \* status of an invoice draft (None: no row)
          content,       \* its lines: approved content, once there is one
          link,          \* published_client_invoice_id
          counterHolder, \* the request that holds the counter FOR UPDATE
          stage,         \* where a request is
          source,        \* the draft it publishes or discards (None: by hand)
          bill,          \* the invoice it has created
          got,           \* the number it read
          left           \* lines still to add

invoices == <<billStatus, billTotal, number, received, billPayStatus, billPaid, next>>
drafts   == <<draftStatus, content, link>>
clerks   == <<counterHolder, stage, source, bill, got, left>>
receivables == <<invoices, drafts, clerks>>

Stages == {"idle", "create", "insert", "lines", "discard"}

ReceivablesInit ==
    /\ billStatus    = [b \in Bills |-> None]
    /\ billTotal     = [b \in Bills |-> 0]
    /\ number        = [b \in Bills |-> None]
    /\ received      = [b \in Bills |-> 0]
    /\ billPayStatus = [b \in Bills |-> "unpaid"]
    /\ billPaid      = [b \in Bills |-> 0]
    /\ next          = 1
    /\ draftStatus   = [d \in Drafts |-> None]
    /\ content       = [d \in Drafts |-> 0]
    /\ link          = [d \in Drafts |-> None]
    /\ counterHolder = None
    /\ stage         = [s \in Clerks |-> "idle"]
    /\ source        = [s \in Clerks |-> None]
    /\ bill          = [s \in Clerks |-> None]
    /\ got           = [s \in Clerks |-> 0]
    /\ left          = [s \in Clerks |-> 0]

-----------------------------------------------------------------------------
(* Transactions on one client invoice. *)

\* Mutant: an issued invoice can be edited until it is paid.
EditUnpaidBill(b, t) ==
    /\ billStatus[b] \in {"draft", "sent"} /\ billPayStatus[b] # "paid"
    /\ billTotal' = [billTotal EXCEPT ![b] = t]
    /\ UNCHANGED <<billStatus, number, received, billPayStatus, billPaid, next,
                   drafts, clerks>>

\* A draft's lines are added, changed or removed and its total recalculated.
EditBill(b, t) ==
    /\ billStatus[b] = "draft"
    /\ billTotal' = [billTotal EXCEPT ![b] = t]
    /\ UNCHANGED <<billStatus, number, received, billPayStatus, billPaid, next,
                   drafts, clerks>>

MoveBill(b, from, to) ==
    /\ billStatus[b] = from
    /\ billStatus' = [billStatus EXCEPT ![b] = to]
    /\ UNCHANGED <<billTotal, number, received, billPayStatus, billPaid, next,
                   drafts, clerks>>

SendClientInvoice(b) == MoveBill(b, "draft", "sent")

\* Whatever was paid on it: the refund is the operator's business.
VoidClientInvoice(b) == MoveBill(b, "sent", "void")

ReceivePayment(b, a) ==
    LET status == DerivePaymentStatus(received[b] + a, billTotal[b]) IN
    /\ billStatus[b] = "sent"
    /\ received[b] + a <= MaxReceived
    /\ received' = [received EXCEPT ![b] = @ + a]
    /\ billPayStatus' = [billPayStatus EXCEPT ![b] = status]
    /\ billPaid' = [billPaid EXCEPT
          ![b] = IF billPayStatus[b] # "paid" /\ status = "paid" THEN @ + 1 ELSE @]
    /\ UNCHANGED <<billStatus, billTotal, number, next, drafts, clerks>>

-----------------------------------------------------------------------------
(* The invoice creator's drafts. *)

DraftIs(d, status, lines) ==
    /\ draftStatus' = [draftStatus EXCEPT ![d] = status]
    /\ content' = [content EXCEPT ![d] = lines]
    /\ UNCHANGED <<invoices, link, clerks>>

CreateInvoiceDraft(d, lines) ==
    /\ draftStatus[d] = None
    /\ DraftIs(d, "pending_review", lines)

\* An approval may replace the content; a draft is reviewed once, under its lock.
CreateInvoiceReview(d, lines) ==
    /\ draftStatus[d] = "pending_review"
    /\ DraftIs(d, "approved", lines) \/ DraftIs(d, "rejected", content[d])

-----------------------------------------------------------------------------
(* Requests of several transactions. *)

Goto(s, label) == stage' = [stage EXCEPT ![s] = label]

Done(s) ==
    /\ Goto(s, "idle")
    /\ source' = [source EXCEPT ![s] = None]
    /\ bill' = [bill EXCEPT ![s] = None]
    /\ got' = [got EXCEPT ![s] = 0]
    /\ left' = [left EXCEPT ![s] = 0]

Begin(s, label, d, lines) ==
    /\ stage[s] = "idle"
    /\ Goto(s, label)
    /\ source' = [source EXCEPT ![s] = d]
    /\ left' = [left EXCEPT ![s] = lines]
    /\ UNCHANGED <<invoices, drafts, counterHolder, bill, got>>

BeginCreate(s) == Begin(s, "create", None, 0)

\* Guards b and c of publishInvoiceDraft, and its content, on one read.
BeginPublish(s, d) ==
    /\ draftStatus[d] = "approved"
    /\ link[d] = None
    /\ Begin(s, "create", d, content[d])

\* discardInvoiceDraft checks the status it read ...
BeginDiscard(s, d) ==
    /\ draftStatus[d] \in Discardable
    /\ Begin(s, "discard", d, 0)

\* ... and then updates the row by its id alone.
DiscardInvoiceDraft(s) ==
    /\ stage[s] = "discard"
    /\ draftStatus' = [draftStatus EXCEPT ![source[s]] = "discarded"]
    /\ Done(s)
    /\ UNCHANGED <<invoices, content, link, counterHolder>>

\* Mutant: the counter is read without FOR UPDATE.
ReadCounter(s) ==
    /\ stage[s] = "create"
    /\ got' = [got EXCEPT ![s] = next]
    /\ Goto(s, "insert")
    /\ UNCHANGED <<invoices, drafts, counterHolder, source, bill, left>>

\* createClientInvoice: the counter row is locked and the number read.
LockCounter(s) ==
    /\ stage[s] = "create"
    /\ counterHolder = None
    /\ counterHolder' = s
    /\ got' = [got EXCEPT ![s] = next]
    /\ Goto(s, "insert")
    /\ UNCHANGED <<invoices, drafts, source, bill, left>>

\* The invoice takes the number, the counter the next one; COMMIT.
InsertBill(s, b) ==
    /\ stage[s] = "insert"
    /\ billStatus[b] = None
    /\ billStatus' = [billStatus EXCEPT ![b] = "draft"]
    /\ number' = [number EXCEPT ![b] = got[s]]
    /\ next' = got[s] + 1
    /\ counterHolder' = IF counterHolder = s THEN None ELSE counterHolder
    /\ IF source[s] = None
       THEN Done(s)
       ELSE /\ Goto(s, "lines")
            /\ bill' = [bill EXCEPT ![s] = b]
            /\ UNCHANGED <<source, got, left>>
    /\ UNCHANGED <<billTotal, received, billPayStatus, billPaid, drafts>>

\* A line at price 1; if the invoice was issued meanwhile, the request fails.
AddLine(s) ==
    /\ stage[s] = "lines" /\ left[s] > 0
    /\ billStatus[bill[s]] = "draft"
    /\ billTotal[bill[s]] < MaxAmount
    /\ billTotal' = [billTotal EXCEPT ![bill[s]] = @ + 1]
    /\ left' = [left EXCEPT ![s] = @ - 1]
    /\ UNCHANGED <<billStatus, number, received, billPayStatus, billPaid, next, drafts,
                   counterHolder, stage, source, bill, got>>

\* Mutant: the guards before the sequence are trusted.
NotRejected(d) == draftStatus[d] # "rejected"

\* The finalize transaction's re-checks, under the draft's lock.
StillPublishable(d) == draftStatus[d] = "approved" /\ link[d] = None

Finalize(s) ==
    LET d == source[s] IN
    /\ stage[s] = "lines" /\ left[s] = 0
    /\ StillPublishable(d)
    /\ draftStatus' = [draftStatus EXCEPT ![d] = "published"]
    /\ link' = [link EXCEPT ![d] = bill[s]]
    /\ Done(s)
    /\ UNCHANGED <<invoices, content, counterHolder>>

\* A throw or a crash: the open transaction is rolled back, what was committed
\* before it stays.
Fail(s) ==
    /\ stage[s] # "idle"
    /\ counterHolder' = IF counterHolder = s THEN None ELSE counterHolder
    /\ Done(s)
    /\ UNCHANGED <<invoices, drafts>>

-----------------------------------------------------------------------------
\* What inserts a row that references the job, a billing event or an invoice,
\* and so waits for whoever holds the job FOR UPDATE ...
JobBillingWrite ==
    \/ \E b \in Bills : SendClientInvoice(b) \/ VoidClientInvoice(b)
    \/ \E b \in Bills, a \in 1..MaxReceived : ReceivePayment(b, a)
    \/ \E d \in Drafts, n \in Amounts : CreateInvoiceDraft(d, n)

\* ... and what does not.
OtherRequest ==
    \/ \E b \in Bills, t \in Amounts : EditBill(b, t)
    \/ \E d \in Drafts, n \in Amounts : CreateInvoiceReview(d, n)
    \/ \E s \in Clerks : BeginCreate(s)
    \/ \E s \in Clerks, d \in Drafts : BeginPublish(s, d) \/ BeginDiscard(s, d)

CreateStep == \E s \in Clerks, b \in Bills : InsertBill(s, b)

ClerkStep ==
    \E s \in Clerks :
        LockCounter(s) \/ AddLine(s) \/ Finalize(s) \/ DiscardInvoiceDraft(s) \/ Fail(s)

ReceivablesNext == JobBillingWrite \/ OtherRequest \/ CreateStep \/ ClerkStep

ReceivablesSpec == ReceivablesInit /\ [][ReceivablesNext]_receivables
-----------------------------------------------------------------------------
(* Properties. *)

ReceivablesTypeOK ==
    /\ billStatus \in [Bills -> BillStatuses \cup {None}]
    /\ billTotal \in [Bills -> Amounts]
    /\ number \in [Bills -> Nat \cup {None}]
    /\ received \in [Bills -> Nat]
    /\ billPayStatus \in [Bills -> PaymentStatuses]
    /\ billPaid \in [Bills -> Nat]
    /\ next \in Nat
    /\ draftStatus \in [Drafts -> DraftStatuses \cup {None}]
    /\ content \in [Drafts -> Amounts]
    /\ link \in [Drafts -> Bills \cup {None}]
    /\ counterHolder \in Clerks \cup {None}
    /\ stage \in [Clerks -> Stages]
    /\ source \in [Clerks -> Drafts \cup {None}]
    /\ bill \in [Clerks -> Bills \cup {None}]
    /\ got \in [Clerks -> Nat]
    /\ left \in [Clerks -> Nat]

\* client-invoices.ts: "allocation is gapless and concurrency-safe".  The numbers
\* given are 1 up to the counter, each to one invoice, whoever creates invoices at
\* once and whichever of them fail.
NumbersGapless ==
    /\ \A b \in Bills :
          billStatus[b] # None =>
             /\ number[b] \in 1..(next - 1)
             /\ \A c \in Bills : c # b /\ billStatus[c] # None => number[c] # number[b]
    /\ \A n \in 1..(next - 1) : \E b \in Bills : billStatus[b] # None /\ number[b] = n

\* Issued is issued: a sent or void invoice keeps its total.
IssuedIsFrozen ==
    [][\A b \in Bills : billStatus[b] \in {"sent", "void"} =>
          billTotal'[b] = billTotal[b] /\ billStatus'[b] \in {"sent", "void"}]_receivables

\* Payments are received on issued invoices only and derive their status from the
\* total that was issued; the paid event is emitted once.
ReceiptsMatch ==
    \A b \in Bills :
        /\ received[b] > 0 => billStatus[b] \in {"sent", "void"}
        /\ billPayStatus[b] =
              IF received[b] = 0 THEN "unpaid" ELSE DerivePaymentStatus(received[b], billTotal[b])
        /\ billPaid[b] = IF billPayStatus[b] = "paid" THEN 1 ELSE 0

\* publish.ts: the finalize transaction is "the single authority for 'this draft
\* published exactly once'".  Two publishers, a crash and a retry, a discard on a
\* stale read: the link of a draft is written once and never moved, to an invoice of
\* its own, and a draft that was rejected or discarded first is never published.
MaterializedOnce ==
    [][\A d \in Drafts :
         /\ link[d] # None => link'[d] = link[d]
         /\ link'[d] # link[d] =>
               draftStatus'[d] = "published" /\ \A e \in Drafts \ {d} : link[e] # link'[d]
         /\ draftStatus'[d] = "published" => link'[d] # None
         /\ draftStatus[d] \in {"rejected", "discarded"} =>
               draftStatus'[d] \in {"rejected", "discarded"}]_receivables
=============================================================================
