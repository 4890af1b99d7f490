# Verification of the facilities platform's operational core

TLA+ models, model-checking runs and machine-checked proofs for the part of this
platform where several people and jobs of its own write the same rows at once:
jobs, vendor dispatch, client proposals, the agents that publish proposals,
invoices, scopes and updates, the re-dispatch of jobs whose vendor stays silent,
the money of a job on both sides of the books, the flows that turn e-mails, portal
orders, maintenance schedules and storms into jobs, and outgoing communications.
The program is a Next.js server in TypeScript over PostgreSQL (Drizzle,
node-postgres `Pool`). Every request handler runs in the Node event loop and
interleaves with all the others at every `await`; transactions run at READ
COMMITTED. There is no queue and no in-memory state that outlives a request: all
of the protocol is in which rows a transaction locks, which it merely reads, and
what it checks again after it has waited.

## Inventory

Paths below are relative to the repository's root `src/`.

| Component | State it keeps | Operations | Hard behaviours | What makes it correct |
|---|---|---|---|---|
| Jobs and dispatch assignments (`src/server/jobs.ts`, `dispatch.ts`, `job-status.ts`, `vendor/assignment-actions.ts`, `billing/close.ts`) | `jobs.current_status_id`, `closed_at`, `job_status_history`; `job_vendor_assignments` with `sent_at`, their history; `job.dispatched` events | createDispatch, sendDispatch, setAssignmentStatus, the vendor's accept/decline/schedule/confirm/start/complete, auto-follow, setJobStatus, markJobReadyToBill, markBillingClosed | two lock orders; a follow that reads the job without a lock; a second pool connection inside a transaction | sent once; histories chain; a send respects the job; a close keeps its time; the follow never regresses |
| Proposals (`billing/proposals.ts`) | `proposals` (status, parent, revision number, kind, totals), line items, `proposal_approvals` | create, edit draft and lines, send, record decision, withdraw, revise | revision locks only the chain's root, reads and supersedes other members | one live revision per chain; numbers do not repeat; one decision; sent content is frozen |
| Proposal generator (`agents/proposal-generator/*`, `billing/proposal-routing.ts`) | `proposal_drafts` (status, approved content, published link) | create draft, review, discard, publish | publish is a sequence of transactions; crash, retry and rivals between any two | a draft is published once; nothing is billed without its publication |
| Re-dispatch (`redispatch-suggestion.ts`, `auto-redispatch*.ts`, `redispatch-cancellation.ts`, `auto-dispatch.ts`, `app/api/cron/auto-redispatch`) | replacement drafts, ghosted / declined assignments | prepare, approve, sweep, auto-dispatch, operator re-dispatch | check-then-act over several transactions; attempt caps, cooldowns and the money meter read without locks; overlapping sweeps | one replacement for a silent vendor; only the silent are ghosted; attempts and money stay capped |
| Payables (`billing/change-orders.ts`, `vendor-invoices.ts`, `payments.ts`, `totals.ts`, `jobs.ts` updateJob) | change orders, vendor invoices, payments on them, the job's not-to-exceed amount (NTE), `nte.exceeded` events | create, lines, submit, approve, decline, withdraw, dispute, pay, adjust the NTE | approvals of one job at once; a ceiling that moves; the first crossing is an event nobody repeats | no overrun is silent, none is reported twice, approved is frozen, paid follows payments |
| Receivables (`billing/client-invoices.ts`, `payments.ts`, `agents/invoice-creator/*`) | client invoices, the tenant's invoice counter, payments, invoice drafts | create, lines, send, void, pay; draft, review, publish, discard | numbers under failure; a publication of several transactions | gapless numbers; a draft is materialized once; issued is frozen |
| Billing close (`billing/close.ts`, `margin.ts`) | `billing.closed` events with the margin | markBillingClosed | the margin is read before the transaction | the snapshot is safe; the first close keeps its time |
| Single-active configuration (`billing/nte.ts`, `billing-rules.ts`, `agents/config/policies.ts`) | rules and policies, at most one active per scope | create, activate, archive | demote-then-insert with neither lock nor unique index | at most one active rule (false under overlap, see below) |
| Intake (`integrations/ingest-email.ts`, `lib/integrations/core/ingest.ts`, `pm/*`, `snow/*`) | stored e-mails and drafts, external links, schedules and visits, snow events and sites, each with its link to a job | ingest, approve, reject, generate, advance, declare, confirm, dispatch | the record is locked, released, then the job is created, then linked under a guard; copies, overlapping runs, crashes between | no job unaccounted for; one draft per message; no maintenance cycle lost |
| Scope generator and update rewriter (`agents/scope-generator/*`, `agents/drafts.ts`, `agents/reviews.ts`, `client-updates.ts`) | scope drafts, the job's scope steps and their mirror, rewrite drafts | create, review, discard, publish | content is read before the lock; a discard on a stale read | a scope is one reviewed draft; an update leaves once in its reviewed words |
| Communications (`communications.ts`, `contact-log.ts`, the mail provider) | `communication_logs`: content, delivery status, provider id | share, compose, log a contact, set the status, send | the provider call lies between an unlocked read and an unconditional write; lost answers, retries | nothing is delivered twice |
| Other agents (`agents/*`) | drafts, notes and suggestions, agent runs | one-shot model calls | outside the repository's control | a person reviews what they write |
| Magic links (`magic-links/*`, `app/link/[token]`) | hashed tokens, expiry, revocation | mint, resolve, revoke, act | resolve, then act later | none is used after it ends |
| Routing, scoring, analytics; tenancy and authentication; master data; operator presence | reads, single-row records, heartbeats | queries and CRUD | none over time | covered by unit tests |

Interactions. Everything hangs off a job row. Dispatch writes an assignment and
may write its job; vendors write the assignment through the portal or a magic
link, with the same auto-follow to the job; accounting writes the job's status
from the office side. Proposals and their agent only read the job. Re-dispatch
calls dispatch's operations, the intake flows call `createJob`, billing closes the
job that `JobDispatch` models, and payables and receivables meet at the job row: a
billing event or an invoice references it, and its foreign key waits for an approval
that holds the job. Updates become communications. Each call opens its own
transaction, so the composition of two calls is never atomic: that is where the
hazards in `PROJECT.json` come from.

## The modules

| Module | Models | How |
|---|---|---|
| `DispatchContract` | what dispatch promises, with no sessions, locks or transactions | abstract specification: Draft, Send, Move, SetJob |
| `JobDispatch` | every writer of a job's or an assignment's status | one step per database statement |
| `MCJobDispatch` | instances of it | one job, two assignments |
| `JobDispatch_proofs` | its theorems | invariant, refinement |
| `Proposals` | `billing/proposals.ts` | one step per single-row transaction, one per statement of a revision |
| `MCProposals`, `Proposals_proofs` | instances, theorems | |
| `ProposalPublishing` | the generator's drafts composed with `Proposals` (EXTENDS it and conjoins its actions) | one step per transaction of the publish |
| `MCPublishing`, `ProposalPublishing_proofs` | instances, theorems | |
| `Redispatch` | everything above dispatch that replaces a vendor (EXTENDS `DispatchContract`) | one step per unlocked read or per call to dispatch |
| `MCRedispatch`, `Redispatch_proofs` | instances, theorems | |
| `Money` | sums of amounts and the derived payment status | pure operators |
| `Payables` | what a job costs | one step per single-row transaction, one per lock of an approval |
| `Receivables` | what a job bills, and the invoice creator | one step per transaction of a publication |
| `Billing` | both and the billing close (EXTENDS them, conjoins their actions) | |
| `MCBilling`, `Payables_proofs`, `Billing_proofs` | instances, theorems (those of `Receivables` are in `Billing_proofs`) | |
| `Intake` | e-mail, portal orders, maintenance, snow: one record-then-create machine | one step per statement or transaction |
| `MCIntake`, `Intake_proofs` | instances, theorems | |
| `AgentDrafts` | scope and rewrite drafts, communications and the mail provider | one step per transaction, provider call or unlocked read |
| `MCAgentDrafts`, `AgentDrafts_proofs` | instances, theorems | |

`DispatchContract` links the two halves: `JobDispatch`, with locks and
transactions, is shown to implement it, and `Redispatch` uses a dispatch call as
the contract describes it, so its workers interleave between calls and never
inside one.

### JobDispatch

A *session* is one server request in flight: `pc` is where its handler is, `req`
what it was asked, `from` / `jobFrom` the statuses it has read, `jobTo` the job
status it will write. Row locks are `jobLock` and `asgLock`, and `statusLock` for rows of `job_statuses`. What a transaction
writes becomes visible in `Commit`, in one step, as READ COMMITTED makes it; the
rows it has written stay locked until then, so nothing is lost by keeping the
write in the session record.

| Action | Code |
|---|---|
| `SendDispatch`, `SendLocksJob`, `SendLocksAsg` | `dispatch.ts` 349-471: guards without locks, job FOR UPDATE, assignment FOR UPDATE, both re-checks |
| `SetAssignmentStatus`, `SetLocksAsg` | `dispatch.ts` 523-610 |
| `PerformTransition`, `VendorLocksAsg` | `vendor/assignment-actions.ts` 57-143 |
| `CountActive`, `ReadJob`, `UpdateJob` | `job-status.ts`: applyDispatchJobFollow, then advanceJobStatus |
| `SetJobStatus`, `MarkJobReadyToBill`, `SelectLocksJob`, `JobSetLocksStatus`, `ReadyLocksStatus` | `jobs.ts` 670-796: the FOR UPDATE of the join, row by row, and what follows |
| `ShareTo`, `ShareFrom` | the foreign keys of a job's update and of its history row |
| `MarkBillingClosed`/`CloseLocksJob`, `ClosedAt` | `billing/close.ts` |
| `Begin`, `Release` | `db.transaction`: a pool connection, the statement snapshot; COMMIT / ROLLBACK |
| `DeadlockVictim`, `ConnectionLost` | PostgreSQL's detector; a lost connection or a crash rolls back |

Three things PostgreSQL does are modelled because the code depends on them.
* The `FOR UPDATE` of setJobStatus and markJobReadyToBill is on `jobs JOIN
  job_statuses`: when the status moves while the statement waits, the re-evaluated
  join finds no row and the request ends as if there were no job (`from` holds the
  snapshot).
* That `FOR UPDATE` names no table, so it locks the status row as well (`statusLock`).
  Every write of a job's status takes, by foreign keys, KEY SHARE on the status it
  reaches and the one it leaves (`Shares`). These do not disturb each other, but they and
  the `FOR UPDATE` exclude each other: requests on different jobs wait at status rows.
* The foreign key of a new assignment waits for a `FOR UPDATE` holder of its job, not
  for a plain UPDATE of it (`JobTakesForeignKey`).

Abstracted: notes, check-in and check-out rows, audit and event rows nobody reads
back (the `job.dispatched` event is kept, as `dispatched`, since it says how often
a vendor was told), presence, and names of people. Statuses of assignments are never locked FOR UPDATE, so
their KEY SHARE locks never wait and are left out; an update that leaves the status it
found skips the check of `ShareTo`, which the model takes all the same. `vendor` scope and tenant checks are left out: one tenant, a vendor in
scope. `closed_at` is a counter of requests instead of a clock. `updateJob` (the
header edit) writes no status and is not modelled.

### Proposals

A row's `status`, `parent`, `revision`, `kind`, `total` and number of `decisions`.
`total` stands for what an edit of a draft changes: its lines and their sums; what
matters is when it may change. A revision copies the lines in its last statement, and
from its insert on the foreign key keeps out whoever would edit them; the texts of the
header, read a statement earlier, are not modelled. An
operation that locks one proposal, checks it and writes it is one step: nobody
else can see or write the row between its lock and its commit. `createProposalRevision`
is one step per statement, because it locks the chain's root but reads other
members: `Revise` (prior read), `LockRoot`, `ReadChain`, `ReadPrior`,
`InsertRevision` (from here the foreign key holds the prior KEY SHARE),
`CommitRevision`. A throw or a crash is `Abandon`. `BillInternally` is the direct
UPDATE in `publish.ts` 180-204, a writer of the same table. It takes no
`FOR UPDATE`, so it waits for a root that is locked but not for a prior
held by a foreign key.

### ProposalPublishing

A generator's draft (`draftStatus`, `content` = its approved lines at price 1,
`published`), its review, and *operators*: requests that publish or discard it.
Publishing is `BeginPublish` (guards and the internal / client gate on one read),
`Materialize` (createProposal, a transaction of its own), `AddLine` (one
transaction each), `Finalize` (draft locked and re-checked, proposal billed if
internal, link written). `Fail` may strike between any two and leaves what was
committed. All of Proposals' actions interleave, so an operator may edit, send or
withdraw the proposal while it is being built. `Nte` is the effective ceiling at
the moment the gate reads it: whatever moves it later, the gate does not look again. Left
out: the model call that writes the draft, and the mail after a publication.

### Redispatch

On top of the contract's rows: the link of a draft to the assignment it
`replaces`, who created it (`creator`) and who sent it (`sender`); the clocks,
as sets: `stuck` (SENT beyond the threshold) and `fresh` (replacements inside the
cooldown). A *worker* is a request or a cron invocation: `stage` is where it is, `op`
what it serves, `todo` the sweep's remaining candidates, `cur` the silent
assignment and `new` its replacement.

| Action | Code |
|---|---|
| `SelectCandidates`, `ReadCooldowns`, `NextCandidate` | `auto-redispatch-sweep.ts`, with the scan of `exceptions` it selects from; the pre-check of `auto-redispatch.ts` |
| `BeginOne` | the retry and prepare controls of the exceptions queue |
| `CheckSuggested`, `Decide`, `CreateReplacement` | `prepareRedispatchSuggestion` and `decideRedispatch` |
| `Gate`, `WithinSpendCeilings` | `auto-redispatch.ts`, `auto-dispatch.ts`, the meter in `agents/config/guardrails.ts` |
| `BeginApprove`, `GuardApproval`, `Ghost`, `SendReplacement` | `approveRedispatch` |
| `BeginCancel`, `DeclineCancelled` | `redispatch-cancellation.ts` |
| `BeginDispatch` | `auto-dispatch.ts` (exported and tested, but no route calls it yet) |
| `ManualDispatch`, `ManualSend`, `Respond`, `OperatorMoves`, `OperatorSetsJob`, `Dwell`, `CoolDown` | what operators, vendors and the clock do meanwhile |
| `Fail`, `Stop` | a call throws (a sweep goes on with its next candidate); the request ends or dies |

Abstracted: which vendor is chosen (only whether one is left, at any time); the
terms of the autonomy gate other than money (they may block at any time); the two
reads of `approveRedispatch`'s guard are one step: a replaced assignment that is SENT at
the second read was SENT at the first, since nothing returns to SENT. `Cap` counts jobs of
not-to-exceed amount 1.

### Payables, Receivables, Billing

An operation that locks one row, checks it and writes it is one step. What is left
is what spans more than a row.

| Action | Code |
|---|---|
| `AdjustNte` | `updateJob` (`jobs.ts`), the only writer of the NTE after creation |
| `EditChangeOrder`, `MoveChangeOrder` and its four moves | `billing/change-orders.ts`; the effective NTE is the job's plus the approved orders |
| `RecordVendorInvoice`, `EditVendorInvoice`, `DisputeVendorInvoice`, `PayVendor` | `billing/vendor-invoices.ts`, `payments.ts` |
| `ApproveLocksInvoice`, `ApproveLocksJob`, `ApproveCommit` | `approveVendorInvoice`: invoice FOR UPDATE, job FOR UPDATE with the reads of ceiling and approved totals, the events and the commit |
| `BeginCreate`, `LockCounter`, `InsertBill` | `createClientInvoice`: the counter FOR UPDATE, the insert, the bump |
| `EditBill`, `SendClientInvoice`, `VoidClientInvoice`, `ReceivePayment` | `billing/client-invoices.ts`, `payments.ts` |
| `CreateInvoiceReview`, `BeginPublish`, `AddLine`, `Finalize`, `BeginDiscard`, `DiscardInvoiceDraft` | `agents/invoice-creator/*`; create, one transaction per line, finalize; discard on a stale read |
| `MarkBillingClosed`, `RecordClose` | `billing/close.ts`: the margin is read through the pool, then the transaction |

`agreed` is the amount of the assignment an invoice is billed under, or `JobLevel`.
`crossed` is the sequence of aggregate `nte.exceeded` events by the ceiling they are
about; `cut` remembers that the NTE was set below what had been approved, since
`updateJob` looks at no invoice. A document's lines are its total; amounts are whole
units, so rounding is not modelled. `exceeds_nte` (the column) repeats the event.

### Intake

The four flows share one machine, because the code has one shape: `createJob` opens
a transaction of its own, so no flow can hold its record while it creates the job. A
request (`req[s]`) is at `create` with a record in hand, then at `link` with the job
it `made`. `Waiting` and `Linked` are the record's two statuses in its own table.

| Action | Code |
|---|---|
| `CreateJob`, `CreateFails`, `Link`, `LinkMisses`, `NoteFails`, `LinkFails`, `Crash` | the second half of `approveEmailDraft`, `ingestWorkOrder`, `generateVisits`, `approveVisits`, `dispatchSnowSites` |
| `IngestEmail`, `FlagDuplicate`, `DraftEmail`, `IngestFails`, `ApproveEmailDraft`, `RejectEmailDraft` | `integrations/ingest-email.ts` |
| `IngestWorkOrder` | `lib/integrations/core/ingest.ts` |
| `GenerateVisits`, `InsertVisit`, `AdvanceSchedule`, `ApproveVisits`, `RecheckVisit` | `pm/generate-visits.ts`, `pm/approve-visits.ts` |
| `DeclareSnowEvent`, `StageSite`, `ConfirmSnowDispatches`, `FireEvent`, `MarkDispatching`, `LoadSites`, `SpawnSite`, `CompleteEvent` | `snow/*` |

`noted` are unlinked jobs for which an audit or error row exists, `lost` those whose
request died, or could not write the link or the note: `writeAuditLog` swallows its
own failure. A due date is a number of periods. Parsing, code mapping and price lists
decide only whether a record can become a job (`CreateFails`). An e-mail row is ingested
by one request at a time while it is `received`, as its only caller does.

### AgentDrafts

Drafts of both agents share `status`, `approved` (the text of the approving review)
and the request that publishes or discards them; what they become differs: `steps`
and `mirror` of the job's scope, or a row of communications. Texts are values: the
steps of a scope and the words of an update. An approved scope has at least one step
(`scope-generator/edits.ts` 59-62 refuses an empty list, and its caller is the only one
that records reviews), so publishing one always leaves active steps.

| Action | Code |
|---|---|
| `Approve`, `Reject` | `scope-generator/reviews.ts`, `agents/reviews.ts`, under the draft's lock |
| `DiscardStart`, `DiscardEnd` | `scope-generator/drafts.ts`, `agents/drafts.ts`: unlocked read, unconditional write |
| `PublishStart`, `PublishScope`, `PublishUpdate`, `PublishRefused` | `scope-generator/publish.ts`, `client-updates.ts`: guards on unlocked reads, then a transaction that locks and checks again |
| `ShareNote`, `ComposeMessage`, `LogContact` | `communications.ts`, `dispatch-notify.ts`, `contact-log.ts` |
| `FlipStart`, `FlipEnd` | `updateCommunicationDeliveryStatus` |
| `SendStart`, `ProviderAccepts`, `ProviderFails`, `RecordSent`, `RecordFailed` | `sendCommunication` and the provider |
| `Die` | the process ends between two steps |

The provider is external. It is modelled by what the code relies on: a call that
carries the key of an earlier delivery delivers nothing more (`ProviderDelivers`), and
a call that fails may have been delivered. Providers keep a key for a limited time, and
the capture provider of the test environment has none: `DeliveredOnce` speaks of sends
within that time.

## Runs

| Run | Question | Result |
|---|---|---|
| `core_safety` | two requests of any kind at once, crashes included: send, histories, close, contract | holds |
| `core_vendor_only` | with milestones reported by vendors alone, does the follow keep to its guard; with requests on two jobs meeting at status rows, does every request end | holds |
| `core_follow_race` | does the follow "never regress" with operators at work | **violated** |
| `core_pool` | can a transaction always continue once it has its rows | **violated** |
| `proposals` | two revisions of one chain, with edits and decisions meanwhile; is the root superseded only while live | holds |
| `proposal_publishing` | two publishers or discarders, crashes and retries | holds |
| `redispatch` | one worker at a time with every operation, among vendors and operators: one replacement, attempts bounded, only the stuck ghosted | holds |
| `redispatch_overlap` | two sweeps that overlap | **violated** |
| `redispatch_spend` | does the money ceiling stop a sweep | **violated** |
| `billing` | two approvals of one job under a moving ceiling, two clerks who bill, publish and discard, payments both ways, a close: overruns reported once, numbers gapless, statuses derived, commitments frozen | holds |
| `intake` | e-mail copies, a portal order, a schedule and a storm, with two requests that overlap, fail and die: jobs accounted for, one draft per message, no cycle lost | holds |
| `agent_drafts` | two requests at once that review, publish, discard and send, with lost answers and crashes: one reviewed scope, one reviewed update, one delivery | holds |

Bounds, and why they are enough.
* Core: one job, two assignments, two sessions, four requests, three pool connections
  (two in `core_pool`); `core_vendor_only` has a second job, whose manual moves meet the
  first one's at the status rows. Four requests confirm both assignments of a job
  and bring both vendors to a milestone, together or one while the other is about to
  update the job. Only the count of active dispatches keeps them from both following
  (`CountAny`, the property's mutant, drops it); any number of them is the theorem's. The conflicts are
  between two writers of a row and between the two lock orders, both pairwise; two
  assignments are what the auto-follow's "exactly one active" can tell apart. Four
  requests let one prepare the state (draft sent), two race and one observe. The
  operator's pickers are cut to the statuses that differ in what follows: a
  milestone of each kind, an inactive one; for jobs one status outside every
  allow-list, one dispatchable without advance, one that reopens.
* Proposals: three rows make a chain of two and a new revision; two sessions revise
  at once. `total` is 0 or 1: a change is all that is asked about.
* Publishing: two operators on one draft, two proposals (one each), content above
  and within the NTE of 1 (`MaxTotal` 2), one reviser.
* Re-dispatch: one job with three assignments (the silent one, its replacement, one
  more to exceed the cap with) and `MaxAttempts` 2 instead of the code's 3, which
  makes the cap bite with the rows there are. `redispatch_overlap` has two
  workers; `redispatch_spend` has two jobs of two assignments and a ceiling one job
  fits under.
* Billing: one change order, two vendor invoices and two approvals (a crossing that
  each alone would miss takes two), two client invoices and two clerks, one invoice
  draft, amounts to 2 (under, at and over a ceiling of 1, and a second ceiling),
  payments to a sum of 2 (partial, exact and over), five requests: record two
  invoices, start two approvals, and one that moves the ceiling or pays.
* Intake: two copies of one message, one order, one schedule of one location with
  three visits (two runs that overlap and a later one), two sites, two requests at
  once and three in all: two race and one follows up on what they left.
* Agents' drafts: two scope drafts (siblings of one job), one rewrite draft, two
  communications, two texts, two requests at once and three in all; single-row
  operations (review, compose, log) are not counted, they are always possible.
* Symmetry is used in safety runs only, on sets of ids and sessions. The theorems
  below lift the safety results to any number of all of these.

No run checks deadlock of the model: with the bound on requests used up, or all rows
created, a behaviour may rightly stop.

Fairness. Only `FairSpec` of JobDispatch has any: weak fairness of each session's
own `Step`. A request that was accepted is run by the event loop and PostgreSQL as
long as it can go on, and PostgreSQL breaks every deadlock. No fairness is assumed
of users, of a crash or of a lost connection. In `core_vendor_only` the pool is one
larger than the requests in flight; `core_pool` shows why that is needed.

## What the violated runs show

1. `core_follow_race`: `advanceJobStatus` reads the job without a lock, checks
   `fromCodes`, and updates by id alone. `job-status.ts` 112-114 says the guard
   "makes a concurrent race a no-op (it never regresses)". An operator who puts the
   job ON_HOLD, or closes it, between the read and the UPDATE is overwritten.
2. `core_pool`: "UNDER THE CALLER'S TX", yet `getJobStatusByCode` goes through the
   pool. When every connection belongs to a transaction at that point, or to one
   waiting for its rows, nobody continues: the `Pool` has no connection timeout.
3. `redispatch_overlap`: `docs/phase-28-autonomy-response/05-system-workflows.md` 45,
   "A misfiring trigger or two close-together triggers cannot double-dispatch,
   double-send, or double-approve". All that stands in the way are unlocked reads:
   two sweeps find no suggestion, create one each, see the vendor SENT, ghost it
   (twice, the second a no-op) and send both.
4. `redispatch_spend`: the sweep is sequential so that "each sees the prior's committed
   spend" (`auto-redispatch-sweep.ts` 85-87), but the meter counts only assignments
   without a creator (`guardrails.ts` 159), and the flow creates its drafts as the
   integration service's user (`auto-redispatch.ts` 64, 75). It never counts its own.

Met on the way and not made into runs:
* `vendor/assignment-actions.ts` 37-39 and 235-237 say vendor actions do not advance
  the job; they do, at 119-125, and the model follows the code.
* `redispatch-suggestion.ts` 228-230 leaves a failed send to "the next stuck-scan". The
  scan lists SENT assignments only, and the vendor is GHOSTED by then, so no scan
  finds the job again. The draft stays and the page offers an ordinary Send.
* The margin of a billing close is read before the job is locked (`close.ts` 55): an
  invoice approved in between is missing from it. `SnapshotNeverOverstatesCost` says only
  that it errs on that side.
* A vendor who accepts between the guard and the ghost is ghosted all the same
  (`setAssignmentStatus` takes any status); `GhostedWasStuck` therefore speaks of who
  was stuck, not of who is still SENT.
* The "3 total attempts" count vendors already sent when a replacement is suggested.
  Drafts pending then are not counted, so approvals by hand, and sweeps that overlap,
  can go past it. `AutonomyBounded` is what does hold of one worker at a time, and
  `AutonomyOvershootBounded` says by how much overlapping ones exceed it.
* `job-status.ts` 112-114 calls the follow lock-free so as to avoid a deadlock with
  sendDispatch. An UPDATE takes the row lock anyway: assignment then job against job
  then assignment is a cycle, PostgreSQL aborts one of the two (`DeadlockVictim`), and
  `RequestsFinish` shows that nobody waits for ever.
* `jobs.ts` 681 and 746 mean to lock a job and lock its status row too: for as long as such
  a request runs, every request that moves some job into or out of that status waits for it.
* `proposals.ts` 407-409 supersedes the prior of a revision "ONLY if it's currently
  non-terminal", on an unlocked read. For the root of a chain, which the reviser holds,
  that is so (`LiveRootIsSuperseded`, proved); another member may be withdrawn or
  declined meanwhile and is overwritten.
* Setting the NTE below what is approved raises no event (`cut`); the comment at
  `vendor-invoices.ts` 34 has createJob as the NTE's sole writer. `under_review` is in
  the invoice statuses and no code writes it.
* The operator's status picker (`jobs.ts` 721) can set CLOSED_BILLED directly: no
  accounting gate, no `closed_at`, no margin event.
* An invoice half built by a publication that died is an ordinary draft: an operator may
  send it, and the retry bills the work again. The comment at `invoice-creator/publish.ts`
  27-33 counts on its being deleted; there is no such operation.
* Two copies of one message stored before either is ingested are both flagged duplicate,
  and no draft exists, where `docs/phase-13-email-ingestion/03-user-sop.md` 14 speaks of
  "a repeat email" and "a second draft". `OneDraftPerMessage` is the half that holds.
* `lib/integrations/core/ingest.ts` 40-43: a second job is still created for an order
  delivered twice at once; only its link is refused, with an error event that does not
  name the job.
* `snow/dispatch-sites.ts` 117-118 says the link-back's guard "prevents a double-spawn
  under a concurrent re-fire". The job exists by then, and the row count is ignored: a job nobody is told
  of. `EveryJobAccounted` therefore leaves sites out. A crash while dispatching leaves the
  event `dispatching`, which a later confirm refuses; a confirm during a declaration that
  still stages leaves the later sites behind.
* Maintenance runs that overlap repeat a cycle, and a slow one sets the due date back:
  re-firing is idempotent for sequential runs only. What always holds is `NoCycleLost`.
* Discarding a draft (of any agent) can overwrite an approved or published one.
* `communications.ts` 247-249 counts two layers of idempotency. Both are unlocked reads:
  overlapping sends both call the provider, and its key alone stops the second delivery.
  A failure recorded late may turn a `sent` row into `failed`; it keeps its message id, so
  it is never sent again. Setting `sent` by hand sends nothing.
* Two NTE rules, billing rules or agent policies created or activated at once both stay
  active; readers of the NTE rules and policies then throw until one is archived.

## What is proved

TLAPS checks the theorems for every value of the constants under the named
assumptions (`DispatchAssumption`, `ProposalAssumption`, `PublishingAssumption`,
`RedispatchAssumption`, `MoneyAssumption`, `PayablesAssumption`,
`ReceivablesAssumption`, `BillingAssumption`, `IntakeAssumption`, `AgentAssumption`:
typing, finite sets, disjoint tables, NULL distinct from all values; at least one
attempt and one worker in `Redispatch`, where the code's cap is the constant 3), which
TLC evaluates in the runs.

* `JobDispatch_proofs`. The properties are not inductive: that a send overwrites the
  status it read needs to know which locks it holds at each `pc`, and that what it
  read under them is still true. The invariant (`Invariance`) says: types; the shape
  of a request at each `pc`; a session past a lock step holds that row, so two
  never do; what was read under a held lock is current; the row-level properties.
  One step per action preserves it. From it: `TypeCorrect`, `NoDoubleSend`,
  `HistoryIsAChain`, `NoLostJobUpdate`, `CloseTimeIsFinal`, `SendRespectsItsJob`,
  and `Refinement`: every behaviour implements `DispatchContract`, with Commit as
  its Send, Move or SetJob and every other step a stutter or Draft.
  * *Locks.* `Holds` says which rows a session must hold; `LocksHaveUse` is the
    converse, that a row is held only by a session at a `pc` that uses it. Together
    they tell where a waiter that is waited for can be: a send at its assignment with
    the job, or a follow at its job with the assignment. Both take rows of one job
    only, so a circle of waits over these rows has two members. A longer one (three
    manual moves in a ring of statuses, say) passes through status rows, and a wait there
    is between requests on different jobs, one of them a manual move or a handoff
    (`LongDeadlocksAreOfOfficeMoves`); `DeadlockVictim` breaks circles of any length. And
    `NoLeakedLocks`: nothing stays locked after a refusal, a crash or an abort.
  * *The auto-follow* reads the job unlocked and overwrites it.
    `FollowsKeepTheirGuard` proves `FollowNeverRegresses` for any number of jobs,
    vendors and requests under `VendorsAlone`: operators set no milestone, set jobs
    only to NEW, SCHEDULED or DISPATCHED, and the office neither bills nor closes.
    `FollowInv` says why: a follower's own dispatch still reads CONFIRMED or ON_SITE
    until it commits and so counts as active for everybody else; hence two followers
    on one job are one (`CountedAlone`), and the writers left put the job where a
    follow may start. Each hypothesis is needed: TLC violates the invariant when
    operators may set ON_SITE, or WORK_COMPLETE, or a job ON_HOLD, or IN_PROGRESS, or
    when the office may mark ready, or close (`core_follow_race` keeps several).
* `Proposals_proofs`. The danger is what a reviser read under the root's lock while
  members of the chain are written without it. The argument: single-row writers
  are *tame* (they can end a row's life, never begin it again), so "no live
  revision but the prior" stays true once read, and the number computed stays above
  every number in the chain, because only a holder of the root can add a member.
  From `ProposalInvariance`: `ProposalTypes`, `OneLiveRevision`,
  `RevisionNumbersDiffer`, `OneDecision`, `SentStaysFrozen`, `RootsSupersededLive`.
* `ProposalPublishing_proofs`. `PublishingUsesProposals` shows that the composed
  system implements `Proposals`, so all of the above holds in it. The invariant adds
  that an operator past its guards remembers a draft whose content is still what it
  gated (approved content never changes), and that a billed proposal has its
  publication. From it: `PublishingTypes`, `PublishedExactlyOnce`,
  `BillingIsAccounted`, `LinkStays`, `DisposalWins`.
* `Redispatch_proofs`. The argument is about what never comes back: a draft once sent
  is never a draft again, links never change, a stuck assignment stays in `stuck`.
  `RedispatchInvariance` says that, and that a worker past a guard remembers an
  assignment that was stuck. It gives `RedispatchTypes` and `OnlyTheStuckAreGhosted`
  for any number of workers.
  * `RedispatchKeepsContract`: every step of the flows, the operators and the vendors
    is a step of `DispatchContract` or leaves its rows alone. `JobDispatch` implements
    that contract too, so what the flows assume of a send is what the locks provide.
  * *Counting.* Guards read without a lock are not inductive, but a sum is: what the
    system has sent on a job plus the requests on their way to send there
    (`OnTheWay`), and the replacements sent for a silent vendor plus the approvals past
    their guard (`Approved`). A request joins the second summand only when its guard
    saw the bound respected, and moves from the second to the first when it sends
    (`TotalHandsOver`); whatever else happens, the sum does not grow. `ContactInv`
    supplies that the first vendor of a job was never a replacement by the system, so
    vendors contacted exceed its replacements by one. With n requests at once this
    gives `OneReplacementPerRequest` (at most n replacements of a silent vendor) and
    `AutonomyOvershootBounded` (below `MaxAttempts + n - 1` on a job); TLC reaches
    both bounds with two. For one request at a time they are `OneReplacementAlone`
    and `AutonomyBoundedAlone`, the properties of the `redispatch` run; the hypothesis
    cannot be dropped there, as `redispatch_overlap` shows for the first.
* `Payables_proofs`. That an approval reports the crossing depends on what it read being
  still so when it commits. `LocksOK` says who holds which invoice and the job,
  `ReadsCurrent` that the holder of the job has the present ceiling and the present
  approved cost. Every other step either leaves the two sums alone, adjusts or raises the
  ceiling, or cannot run while the job is held. `ApprovedCost` is the cardinality of a set
  of units (`Money`), so the sums are reasoned about without recursion. Results:
  `OverrunsAreReported`, `CeilingsCrossedOnce`, `ApprovedStaysFrozen`.
* `Billing_proofs`. Receivables: whoever is about to insert holds the counter and has read
  its present value (`CounterOK`), an invoice a publication created is its own and linked
  to no draft (`OwnBill`, `LinksOK`). Billing: `BillingImplementsPayables` and
  `BillingImplementsReceivables` show that the composition only takes steps away from each
  half, so each half's theorems hold of it; `SnapshotIsSafe` adds that approved cost never
  falls.
* `Intake_proofs`. What a request carries through its unlocked steps: its shape at each
  stage, that its job is its own and was created for its record, that a generation run
  has visited what it has ticked off and every cycle before; and that of the copies of a
  message at most one is past the duplicate check. From `IntakeInvariance`: `IntakeTypes`,
  `JobsAreAccounted`, `MessagesAreDraftedOnce`, `CyclesAreKept`.
* `AgentDrafts_proofs`. A text read before the lock is still the approved text under it,
  because no step changes an approved text; a logged contact's status has no way out, so
  no send ever starts on it. From `AgentInvariance`: `AgentTypes`, `OneScope`,
  `ReviewedTextOnly`, `NoDoubleDelivery`.

Only model-checked: `RequestsFinish` (liveness under fairness is beyond the prover),
and the violations. Every other property of the passing runs is stated by a theorem,
three of them with a hypothesis that its run meets: `ReplacedOnce` and `AutonomyBounded`
(one request at a time), `FollowNeverRegresses` (vendors alone).

## Plan

Order, by how much rests on each:

1. Done: `JobDispatch`, `Proposals`, `ProposalPublishing`, `Redispatch`; `Payables`,
   `Receivables`, `Billing`; `Intake`; `AgentDrafts`; each with its theorems.
2. Done: every safety property of a passing run proved; bounds in the number of
   overlapping requests where the property itself needs them to come one at a time.
3. Left: the header edit `updateJob` in `JobDispatch`; more than one snow event and more
   than one schedule in `Intake`; that the records of the flows in `Redispatch` refine
   sessions of `JobDispatch` statement by statement, not only its contract.

Runs of at most about a million states each, two actors on one record; theorems for
the invariants that hold, by the pattern above.

## Not modelled, and why

* Model calls, storage and the mail provider's inside are outside the repository. The
  one-shot agents (intake, follow-up, tiebreaker, chatbot) write a draft, a note or a
  suggestion and keep no protocol.
* Routing, matching, scoring and analytics only read, and have unit tests; the choice of
  a vendor is "one is left or not" in `Redispatch`.
* Single-active configuration: create and activate demote, then insert, with nothing to
  keep two of them apart. The promise is false under overlap and nothing weaker is worth
  a model; the hazard is listed.
* Magic links: a token is resolved by one read, and minting, revocation and expiry are
  updates of one row; a revocation in between is honoured one request late. The vendor's
  actions behind a link are actions of `JobDispatch`.
* Tenancy is a WHERE clause on every statement (one tenant is modelled); authentication,
  roles, master data, rates and settings are single-row CRUD; presence is advisory.
* Pages, components and scripts (half of the repository's TypeScript), the schema's
  column definitions, PDF and mail layout and seeds hold no protocol.
