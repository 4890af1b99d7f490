------------------------------- MODULE Proposals -------------------------------
(***************************************************************************)
(* The proposal data layer (billing/proposals.ts): drafts, their edits,    *)
(* sending, the client's decision, withdrawal, the internal billing that   *)
(* the publish path stamps, and createProposalRevision, which locks the    *)
(* ROOT of a revision chain and reads the rest of it without locks.        *)
(*                                                                         *)
(* A transaction that locks one proposal FOR UPDATE, checks it and writes  *)
(* it is one step: nobody can see or write the row in between.  A revision *)
(* reads several rows, so it is one step per statement.                    *)
(***************************************************************************)
EXTENDS Integers, FiniteSets

CONSTANTS Ids,      \* ids of proposal rows
          Sessions, \* requests that create a revision
          MaxTotal, \* bound: totals of a proposal
          None      \* NULL / no row

Live         == {"draft", "sent", "viewed", "accepted"}
Withdrawable == {"draft", "sent", "viewed"}
\* Mutant: the words of the agents' reviews.
DecisionVerbs == {"approve", "reject"}
Decisions    == {"accepted", "declined"}
Statuses     == Live \cup {"declined", "superseded", "withdrawn", "internal_billed"}
Kinds        == {"client", "internal"}

ASSUME ProposalAssumption ==
    /\ MaxTotal \in Nat
    /\ None \notin Ids \cup Statuses \cup Kinds

VARIABLES status,    \* status of a proposal (None: no row)
          parent,    \* root of its revision chain (None: it is the root)
          revision,  \* revision_number
          kind,      \* client-facing or internal
          total,     \* its total; stands for the lines, all that a draft's edits change
          decisions, \* its proposal_approvals rows, counted
          pc,        \* where a revising request is
          prior,     \* the proposal it supersedes
          number,    \* the revision number it computed
          seen       \* the status of the prior it read

rows     == <<status, parent, revision, kind, total, decisions>>
revisers == <<pc, prior, number, seen>>
vars     == <<rows, revisers>>

RootOf(p)   == IF parent[p] = None THEN p ELSE parent[p]
Chain(r)    == {p \in Ids : status[p] # None /\ RootOf(p) = r}
IsLive(p)   == status[p] \in Live

InTxn == {"chain", "prior", "insert", "copy"}

\* A reviser holds the chain's root FOR UPDATE; from its insert on, the foreign
\* key holds the prior KEY SHARE, which only a FOR UPDATE waits for.
RootLocked(p) == \E s \in Sessions : pc[s] \in InTxn /\ RootOf(prior[s]) = p
Unlocked(p)   == ~RootLocked(p) /\ \A s \in Sessions : pc[s] = "copy" => prior[s] # p

Init ==
    /\ status    = [p \in Ids |-> None]
    /\ parent    = [p \in Ids |-> None]
    /\ revision  = [p \in Ids |-> 0]
    /\ kind      = [p \in Ids |-> None]
    /\ total     = [p \in Ids |-> 0]
    /\ decisions = [p \in Ids |-> 0]
    /\ pc        = [s \in Sessions |-> "idle"]
    /\ prior     = [s \in Sessions |-> None]
    /\ number    = [s \in Sessions |-> 0]
    /\ seen      = [s \in Sessions |-> None]

-----------------------------------------------------------------------------
(* Transactions on one proposal. *)

CreateProposal(p, k) ==
    /\ status[p] = None
    /\ status' = [status EXCEPT ![p] = "draft"]
    /\ revision' = [revision EXCEPT ![p] = 1]
    /\ kind' = [kind EXCEPT ![p] = k]
    /\ UNCHANGED <<parent, total, decisions, revisers>>

\* Mutant: the content is edited whatever the status.
EditAny(p, t) ==
    /\ status[p] # None
    /\ Unlocked(p)
    /\ total' = [total EXCEPT ![p] = t]
    /\ UNCHANGED <<status, parent, revision, kind, decisions, revisers>>

\* updateProposalDraft and the add, update and removal of a line item: each locks
\* the proposal, requires a draft, writes and recalculates the total.
EditDraft(p, t) ==
    /\ status[p] = "draft"
    /\ Unlocked(p)
    /\ total' = [total EXCEPT ![p] = t]
    /\ UNCHANGED <<status, parent, revision, kind, decisions, revisers>>

SetStatus(p, to) ==
    /\ status' = [status EXCEPT ![p] = to]
    /\ UNCHANGED <<parent, revision, kind, total, revisers>>

SendProposal(p) ==
    /\ status[p] = "draft"
    /\ Unlocked(p)
    /\ SetStatus(p, "sent")
    /\ UNCHANGED decisions

\* Mutant: a decision is recorded on any live proposal.
RecordOnLive(p, d) ==
    /\ IsLive(p)
    /\ Unlocked(p)
    /\ SetStatus(p, d)
    /\ decisions' = [decisions EXCEPT ![p] = @ + 1]

RecordProposalAcceptance(p, d) ==
    /\ status[p] = "sent"
    /\ Unlocked(p)
    /\ SetStatus(p, d)
    /\ decisions' = [decisions EXCEPT ![p] = @ + 1]

\* Mutant: the withdrawal does not lock the proposal.
WithdrawUnlocked(p) ==
    /\ status[p] \in Withdrawable
    /\ SetStatus(p, "withdrawn")
    /\ UNCHANGED decisions

WithdrawProposal(p) ==
    /\ status[p] \in Withdrawable
    /\ Unlocked(p)
    /\ SetStatus(p, "withdrawn")
    /\ UNCHANGED decisions

\* The publish path's direct UPDATE: it looks at no status.
BillInternally(p) ==
    /\ status[p] # None
    /\ kind[p] = "internal"
    /\ ~RootLocked(p)
    /\ SetStatus(p, "internal_billed")
    /\ UNCHANGED decisions

-----------------------------------------------------------------------------
(* createProposalRevision. *)

Goto(s, label) == pc' = [pc EXCEPT ![s] = label]

\* The read before the transaction finds the prior; its chain never changes.
Revise(s, p) ==
    /\ pc[s] = "idle"
    /\ status[p] # None
    /\ Goto(s, "lock")
    /\ prior' = [prior EXCEPT ![s] = p]
    /\ UNCHANGED <<rows, number, seen>>

\* Mutant: the chain's root is read, not locked.
ReadRoot(s) ==
    /\ pc[s] = "lock"
    /\ Goto(s, "chain")
    /\ UNCHANGED <<rows, prior, number, seen>>

LockRoot(s) ==
    /\ pc[s] = "lock"
    /\ Unlocked(RootOf(prior[s]))
    /\ Goto(s, "chain")
    /\ UNCHANGED <<rows, prior, number, seen>>

Finish(s) ==
    /\ Goto(s, "idle")
    /\ prior' = [prior EXCEPT ![s] = None]
    /\ number' = [number EXCEPT ![s] = 0]
    /\ seen' = [seen EXCEPT ![s] = None]

\* An error, a lost connection or a crash rolls the revision back.
Abandon(s) ==
    /\ pc[s] # "idle"
    /\ Finish(s)
    /\ UNCHANGED rows

\* Mutant: the number is the prior's plus one.
NumberAfterPrior(s) ==
    /\ pc[s] = "chain"
    /\ \A q \in Chain(RootOf(prior[s])) : IsLive(q) => q = prior[s]
    /\ number' = [number EXCEPT ![s] = revision[prior[s]] + 1]
    /\ Goto(s, "prior")
    /\ UNCHANGED <<rows, prior, seen>>

\* No live revision, or the one being superseded; else Abandon (the throw).
\* The number is one more than the chain's greatest.
ReadChain(s) ==
    LET chain == Chain(RootOf(prior[s])) IN
    /\ pc[s] = "chain"
    /\ \A q \in chain : IsLive(q) => q = prior[s]
    /\ \E top \in chain :
          /\ \A q \in chain : revision[q] <= revision[top]
          /\ number' = [number EXCEPT ![s] = revision[top] + 1]
    /\ Goto(s, "prior")
    /\ UNCHANGED <<rows, prior, seen>>

\* The prior's header is read again, without a lock.
ReadPrior(s) ==
    /\ pc[s] = "prior"
    /\ seen' = [seen EXCEPT ![s] = status[prior[s]]]
    /\ Goto(s, "insert")
    /\ UNCHANGED <<rows, prior, number>>

\* The new row is not visible before the commit; its foreign key locks the prior.
InsertRevision(s) ==
    /\ pc[s] = "insert"
    /\ Goto(s, "copy")
    /\ UNCHANGED <<rows, prior, number, seen>>

\* The lines are read and copied here, under the prior's foreign key, which has kept
\* their editors out since the insert; the kind never changes.  The prior is flipped
\* if it READ live, and all is committed.
CommitRevision(s, new) ==
    LET old == prior[s] IN
    /\ pc[s] = "copy"
    /\ status[new] = None
    /\ status' = [status EXCEPT ![new] = "draft",
                                ![old] = IF seen[s] \in Live THEN "superseded" ELSE @]
    /\ parent' = [parent EXCEPT ![new] = RootOf(old)]
    /\ revision' = [revision EXCEPT ![new] = number[s]]
    /\ kind' = [kind EXCEPT ![new] = kind[old]]
    /\ total' = [total EXCEPT ![new] = total[old]]
    /\ Finish(s)
    /\ UNCHANGED decisions

-----------------------------------------------------------------------------
Edit(p) ==
    \/ \E t \in 0..MaxTotal : EditDraft(p, t)
    \/ SendProposal(p) \/ WithdrawProposal(p)
    \/ \E d \in Decisions : RecordProposalAcceptance(p, d)

Supersede(s) ==
    \/ \E p \in Ids : Revise(s, p)
    \/ LockRoot(s) \/ ReadChain(s) \/ ReadPrior(s) \/ InsertRevision(s)
    \/ \E p \in Ids : CommitRevision(s, p)
    \/ Abandon(s)

Next ==
    \/ \E p \in Ids, k \in Kinds : CreateProposal(p, k)
    \/ \E p \in Ids : Edit(p) \/ BillInternally(p)
    \/ \E s \in Sessions : Supersede(s)

Spec == Init /\ [][Next]_vars
-----------------------------------------------------------------------------
(* Properties. *)

TypeOK ==
    /\ status \in [Ids -> Statuses \cup {None}]
    /\ parent \in [Ids -> Ids \cup {None}]
    /\ revision \in [Ids -> Nat]
    /\ kind \in [Ids -> Kinds \cup {None}]
    /\ total \in [Ids -> Nat]
    /\ decisions \in [Ids -> Nat]
    /\ pc \in [Sessions -> {"idle", "lock"} \cup InTxn]
    /\ prior \in [Sessions -> Ids \cup {None}]
    /\ number \in [Sessions -> Nat]
    /\ seen \in [Sessions -> Statuses \cup {None}]

\* "At most one non-terminal revision per chain", kept by the root lock alone:
\* a live revision is its chain's latest, so no other revision of it is live.
LiveRevisionIsLatest ==
    \A p, q \in Ids :
        IsLive(p) /\ status[q] # None /\ q # p /\ RootOf(q) = RootOf(p)
            => revision[q] < revision[p]

\* A chain hangs together whoever revises it, from whichever of its members:
\* every member names the root, the root is number 1 and no number repeats.
ChainNumbered ==
    \A p \in Ids : status[p] # None =>
        /\ revision[p] >= 1
        /\ parent[p] # None =>
              /\ status[parent[p]] # None
              /\ parent[parent[p]] = None
        /\ \A q \in Ids : q # p /\ status[q] # None /\ RootOf(q) = RootOf(p)
              => revision[q] # revision[p]

\* The operator and the client may both record a decision: a proposal has at
\* most one, and it has one if it reads accepted or declined.
DecidedOnce ==
    \A p \in Ids :
        /\ decisions[p] <= 1
        /\ status[p] \in Decisions => decisions[p] = 1

\* "Sent = immutable (only draft is editable in place)": what was sent is what
\* is decided on, whoever still edits the draft.
SentIsFrozen ==
    [][\A p \in Ids : status[p] \notin {None, "draft"} => total'[p] = total[p]]_vars

\* proposals.ts: "Flip the prior to superseded ONLY if it's currently
\* non-terminal".  The prior's status is read without a lock of its own; the
\* root's lock makes that safe for the root of a chain, whoever withdraws it or
\* decides on it meanwhile.
LiveRootIsSuperseded ==
    [][\A p \in Ids :
         status[p] # "superseded" /\ status'[p] = "superseded"
            => status[p] \in Live \/ parent[p] # None]_vars
=============================================================================
