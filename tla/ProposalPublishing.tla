--------------------------- MODULE ProposalPublishing ---------------------------
(***************************************************************************)
(* The proposal generator's drafts (agents/proposal-generator) on top of   *)
(* the proposal data layer: the agent's draft, the operator's review, its  *)
(* disposal, and publishProposalDraft, which materializes a proposal in a  *)
(* sequence of transactions of its own and may die between any two.        *)
(***************************************************************************)
EXTENDS Proposals

CONSTANTS Drafts,    \* rows of proposal_drafts
          Operators, \* requests that publish or discard a draft
          Nte        \* the job's effective not-to-exceed amount as the gate reads it

Disposable == {"pending_review", "approved"}
DraftStatuses == Disposable \cup {"rejected", "discarded", "published"}

ASSUME PublishingAssumption ==
    /\ Nte \in Nat
    /\ None \notin Drafts \cup Operators \cup DraftStatuses

VARIABLES draftStatus, \* status of a draft (None: no row)
          content,     \* its approved content, in lines of price 1 (0: not priced)
          published,   \* published_proposal_id
          stage,       \* where an operator's request is
          draft,       \* the draft it works on
          gate,        \* the kind it decided on
          made,        \* the proposal it created
          left         \* how many of the content's lines it has yet to add

draftRows  == <<draftStatus, content, published>>
publishers == <<stage, draft, gate, made, left>>
pubVars    == <<vars, draftRows, publishers>>

PubInit ==
    /\ Init
    /\ draftStatus = [d \in Drafts |-> None]
    /\ content     = [d \in Drafts |-> 0]
    /\ published   = [d \in Drafts |-> None]
    /\ stage       = [o \in Operators |-> "idle"]
    /\ draft       = [o \in Operators |-> None]
    /\ gate        = [o \in Operators |-> None]
    /\ made        = [o \in Operators |-> None]
    /\ left        = [o \in Operators |-> 0]

-----------------------------------------------------------------------------
(* The draft and its review. *)

CreateProposalDraft(d) ==
    /\ draftStatus[d] = None
    /\ draftStatus' = [draftStatus EXCEPT ![d] = "pending_review"]
    /\ UNCHANGED <<vars, content, published, publishers>>

\* Mutant: the review does not check that the draft is still pending.
ReviewAny(d, to, c) ==
    /\ draftStatus[d] # None
    /\ draftStatus' = [draftStatus EXCEPT ![d] = to]
    /\ content' = [content EXCEPT ![d] = IF to = "approved" THEN c ELSE 0]
    /\ UNCHANGED <<vars, published, publishers>>

\* The review locks the draft and checks it; approving fixes the content.
CreateProposalReview(d, to, c) ==
    /\ draftStatus[d] = "pending_review"
    /\ draftStatus' = [draftStatus EXCEPT ![d] = to]
    /\ content' = [content EXCEPT ![d] = IF to = "approved" THEN c ELSE 0]
    /\ UNCHANGED <<vars, published, publishers>>

\* discardProposalDraft looks, then updates whatever is there by then.
BeginDiscard(o, d) ==
    /\ stage[o] = "idle"
    /\ draftStatus[d] \in Disposable
    /\ stage' = [stage EXCEPT ![o] = "discard"]
    /\ draft' = [draft EXCEPT ![o] = d]
    /\ UNCHANGED <<vars, draftRows, gate, made, left>>

End(o) ==
    /\ stage' = [stage EXCEPT ![o] = "idle"]
    /\ draft' = [draft EXCEPT ![o] = None]
    /\ gate' = [gate EXCEPT ![o] = None]
    /\ made' = [made EXCEPT ![o] = None]
    /\ left' = [left EXCEPT ![o] = 0]

DiscardProposalDraft(o) ==
    /\ stage[o] = "discard"
    /\ draftStatus' = [draftStatus EXCEPT ![draft[o]] = "discarded"]
    /\ End(o)
    /\ UNCHANGED <<vars, content, published>>

-----------------------------------------------------------------------------
(* publishProposalDraft. *)

\* Steps a to g: the guards, the pricing guard and the gate, all on one read.
BeginPublish(o, d, forced) ==
    /\ stage[o] = "idle"
    /\ draftStatus[d] = "approved"
    /\ published[d] = None
    /\ content[d] > 0
    /\ stage' = [stage EXCEPT ![o] = "create"]
    /\ draft' = [draft EXCEPT ![o] = d]
    /\ gate' = [gate EXCEPT ![o] =
                  IF forced \/ content[d] > Nte THEN "client" ELSE "internal"]
    /\ left' = [left EXCEPT ![o] = content[d]]
    /\ UNCHANGED <<vars, draftRows, made>>

Materialize(o, p) ==
    /\ stage[o] = "create"
    /\ CreateProposal(p, gate[o])
    /\ stage' = [stage EXCEPT ![o] = "lines"]
    /\ made' = [made EXCEPT ![o] = p]
    /\ UNCHANGED <<draftRows, draft, gate, left>>

\* Mutant: one line too many.
AddOneMore(o) ==
    LET p == made[o] IN
    /\ stage[o] = "lines"
    /\ left[o] >= 0 /\ total[p] < MaxTotal
    /\ EditDraft(p, total[p] + 1)
    /\ left' = [left EXCEPT ![o] = @ - 1]
    /\ UNCHANGED <<draftRows, stage, draft, gate, made>>

\* One transaction per line: each raises the total (up to the bound MaxTotal), on a
\* proposal any operator may meanwhile edit, send or withdraw.
AddLine(o) ==
    LET p == made[o] IN
    /\ stage[o] = "lines"
    /\ left[o] > 0 /\ total[p] < MaxTotal
    /\ EditDraft(p, total[p] + 1)
    /\ left' = [left EXCEPT ![o] = @ - 1]
    /\ UNCHANGED <<draftRows, stage, draft, gate, made>>

\* Mutants of the re-check under the draft's lock: only the link, none.
StillUnlinked(d)  == published[d] = None
NoRecheck(d)      == d \in Drafts
StillPublishable(d) == draftStatus[d] = "approved" /\ published[d] = None

\* The finalize transaction: an internal proposal is billed, whatever it became;
\* the link's foreign key waits for a reviser that locks the proposal.
Finalize(o) ==
    /\ stage[o] = "lines"
    /\ left[o] = 0
    /\ StillPublishable(draft[o])
    /\ IF gate[o] = "internal" THEN BillInternally(made[o])
       ELSE ~RootLocked(made[o]) /\ UNCHANGED vars
    /\ draftStatus' = [draftStatus EXCEPT ![draft[o]] = "published"]
    /\ published' = [published EXCEPT ![draft[o]] = made[o]]
    /\ End(o)
    /\ UNCHANGED content

\* A throw (the draft is no longer publishable, the proposal no longer a draft)
\* or a crash: what was committed stays, an orphan if it is not linked.
Fail(o) ==
    /\ stage[o] # "idle"
    /\ End(o)
    /\ UNCHANGED <<vars, draftRows>>

-----------------------------------------------------------------------------
\* The operator and the client work on proposals as before; an operator's own
\* proposals are client-facing.
Office ==
    /\ \/ \E p \in Ids : CreateProposal(p, "client") \/ Edit(p)
       \/ \E s \in Sessions : Supersede(s)
    /\ UNCHANGED <<draftRows, publishers>>

Review(d) ==
    \/ CreateProposalDraft(d)
    \/ \E to \in {"approved", "rejected"}, c \in 0..MaxTotal : CreateProposalReview(d, to, c)

Publish(o) ==
    \/ \E d \in Drafts : BeginDiscard(o, d) \/ \E forced \in BOOLEAN : BeginPublish(o, d, forced)
    \/ \E p \in Ids : Materialize(o, p)
    \/ AddLine(o) \/ Finalize(o) \/ DiscardProposalDraft(o) \/ Fail(o)

PubNext ==
    \/ Office
    \/ \E d \in Drafts : Review(d)
    \/ \E o \in Operators : Publish(o)

PubSpec == PubInit /\ [][PubNext]_pubVars
-----------------------------------------------------------------------------
(* Properties. *)

PubTypeOK ==
    /\ TypeOK
    /\ draftStatus \in [Drafts -> DraftStatuses \cup {None}]
    /\ content \in [Drafts -> Nat]
    /\ published \in [Drafts -> Ids \cup {None}]
    /\ stage \in [Operators -> {"idle", "discard", "create", "lines"}]
    /\ draft \in [Operators -> Drafts \cup {None}]
    /\ gate \in [Operators -> Kinds \cup {None}]
    /\ made \in [Operators -> Ids \cup {None}]
    /\ left \in [Operators -> Nat]

\* A draft is decided once and published at most once, however its review, its
\* disposal, publishers, retries and crashes interleave: one that reads published
\* has its proposal; one that has a proposal was approved with priced content and
\* never returns to the reviewers or to the publishers.
PublishedOnce ==
    \A d \in Drafts :
        /\ draftStatus[d] = "published" => published[d] # None
        /\ published[d] # None =>
              /\ draftStatus[d] \in {"published", "discarded"}
              /\ content[d] > 0
              /\ status[published[d]] # None

\* publish.ts: the finalize transaction's lock and re-check is "the single
\* authority" for "this draft published exactly once": of two publishers that
\* both passed the guards, the second never moves the first one's link.
LinkIsFinal ==
    [][\A d \in Drafts : published[d] # None => published'[d] = published[d]]_pubVars

\* A draft an operator rejected or discarded is not published by a publisher
\* that read it while it was approved.
DisposedStaysUnpublished ==
    [][\A d \in Drafts :
         draftStatus[d] \in {"rejected", "discarded"} => published'[d] = published[d]]_pubVars

\* No proposal is billed internally without the publication that accounts for
\* it: a crashed or losing publisher leaves an unbilled orphan at worst.
BilledOnlyByPublication ==
    \A p \in Ids : status[p] = "internal_billed" =>
        \E d \in Drafts : published[d] = p /\ content[d] \in 1..Nte
=============================================================================
