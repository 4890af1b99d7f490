------------------------------ MODULE AgentDrafts ------------------------------
(***************************************************************************)
(* What an agent writes reaches the job or the client only through an      *)
(* operator: the scope generator's drafts become the job's steps, the      *)
(* update rewriter's drafts become communications, and a communication     *)
(* reaches its recipient through a mail provider that may answer late,     *)
(* wrongly or not at all.  One job; operators' requests interleave and may *)
(* die at any step.                                                        *)
(***************************************************************************)
EXTENDS Naturals, FiniteSets

CONSTANTS ScopeDrafts,   \* rows of job_scope_drafts
          RewriteDrafts, \* rows of update_rewrite_drafts
          Comms,         \* rows of communication_logs
          Texts,         \* contents: the steps of a scope, the text of an update
          Requests,      \* server actions in progress
          MaxRequests,   \* bound of the model: server actions of several steps
          None

Drafts == ScopeDrafts \cup RewriteDrafts
DraftStatuses == {"pending_review", "approved", "rejected", "discarded", "published"}
DeliveryStatuses == {"draft", "queued", "sent", "delivered", "failed", "bounced", "received"}
Origins == {"note", "message", "contact"}  \* a row that no rewrite draft is behind

ASSUME AgentAssumption ==
    /\ MaxRequests \in Nat
    /\ ScopeDrafts \cap RewriteDrafts = {}
    /\ RewriteDrafts \cap Origins = {} /\ Drafts \cap Comms = {}
    /\ None \notin Drafts \cup Comms \cup Texts \cup DraftStatuses
                   \cup DeliveryStatuses \cup Origins

VARIABLES status,     \* of a draft (None: no row)
          approved,   \* the text its approving review settled on
          steps,      \* the job's active scope steps, per draft they came from
          mirror,     \* jobs.approved_scope_of_work
          source,     \* what a communication was made from (None: no row)
          body,       \* the text resolveSendContent finds for it
          delivery,   \* its delivery_status
          messageId,  \* provider_message_id is set
          deliveries, \* how often the provider delivered it
          stage,      \* where a request is
          target,     \* the draft or communication it works on
          seen,       \* what it read, to be written or sent later
          begun       \* server actions started so far (the model's own count)

drafts   == <<status, approved>>
scope    == <<steps, mirror>>
comms    == <<source, body, delivery, messageId>>
requests == <<stage, target, seen, begun>>
vars     == <<drafts, scope, comms, deliveries, requests>>

Init ==
    /\ status     = [d \in Drafts |-> None]
    /\ approved   = [d \in Drafts |-> None]
    /\ steps      = {}
    /\ mirror     = None
    /\ source     = [c \in Comms |-> None]
    /\ body       = [c \in Comms |-> None]
    /\ delivery   = [c \in Comms |-> None]
    /\ messageId  = [c \in Comms |-> FALSE]
    /\ deliveries = [c \in Comms |-> 0]
    /\ stage      = [r \in Requests |-> "idle"]
    /\ target     = [r \in Requests |-> None]
    /\ seen       = [r \in Requests |-> None]
    /\ begun      = 0

\* A request starts on x with what it read there.
Start(r, at, x, value) ==
    /\ stage[r] = "idle"
    /\ begun < MaxRequests
    /\ begun'  = begun + 1
    /\ stage'  = [stage EXCEPT ![r] = at]
    /\ target' = [target EXCEPT ![r] = x]
    /\ seen'   = [seen EXCEPT ![r] = value]

\* It returns, throws, or dies with its process; what it committed stays.
Return(r) ==
    /\ stage'  = [stage EXCEPT ![r] = "idle"]
    /\ target' = [target EXCEPT ![r] = None]
    /\ seen'   = [seen EXCEPT ![r] = None]
    /\ UNCHANGED begun

Die(r) ==
    /\ stage[r] # "idle"
    /\ Return(r)
    /\ UNCHANGED <<drafts, scope, comms, deliveries>>

-----------------------------------------------------------------------------
(* Drafts and their reviews. *)

\* The agent's only write.
CreateDraft(d) ==
    /\ status[d] = None
    /\ status' = [status EXCEPT ![d] = "pending_review"]
    /\ UNCHANGED <<approved, scope, comms, deliveries, requests>>

\* The review locks the draft and checks it; the operator's edit, or the agent's
\* text, is what publishing will use.
Approve(d, text) ==
    /\ status[d] = "pending_review"
    /\ status'   = [status EXCEPT ![d] = "approved"]
    /\ approved' = [approved EXCEPT ![d] = text]
    /\ UNCHANGED <<scope, comms, deliveries, requests>>

\* Mutant: the rejection does not check the draft under its lock.
RejectAny(d) ==
    /\ status[d] # None
    /\ status' = [status EXCEPT ![d] = "rejected"]
    /\ UNCHANGED <<approved, scope, comms, deliveries, requests>>

Reject(d) ==
    /\ status[d] = "pending_review"
    /\ status' = [status EXCEPT ![d] = "rejected"]
    /\ UNCHANGED <<approved, scope, comms, deliveries, requests>>

\* A stranded approved scope can be discarded, an approved update cannot.
Discardable(d) == IF d \in ScopeDrafts THEN {"pending_review", "approved"}
                                       ELSE {"pending_review"}

\* Discarding reads without a lock and writes without a condition.
DiscardStart(r, d) ==
    /\ status[d] \in Discardable(d)
    /\ Start(r, "discarding", d, None)
    /\ UNCHANGED <<drafts, scope, comms, deliveries>>

DiscardEnd(r) ==
    /\ stage[r] = "discarding"
    /\ status' = [status EXCEPT ![target[r]] = "discarded"]
    /\ Return(r)
    /\ UNCHANGED <<approved, scope, comms, deliveries>>

-----------------------------------------------------------------------------
(* Publishing: guards on unlocked reads, then one transaction that locks the *)
(* job, then the draft.                                                      *)

PublishStart(r, d) ==
    /\ status[d] = "approved"
    /\ Start(r, "publishing", d, approved[d])
    /\ UNCHANGED <<drafts, scope, comms, deliveries>>

\* Mutant: a sibling's steps do not stand in the way.
ScopeOpenAlways(d) == status[d] = "approved"

\* Under the job's and the draft's lock: still approved, and no active steps yet.
ScopeOpen(d) ==
    /\ status[d] = "approved"
    /\ steps = {}

\* Mutant: the draft is not checked again under its lock.
UpdateOpenAlways(d) == status[d] \in DraftStatuses

UpdateOpen(d) == status[d] = "approved"

\* An approved scope has at least one step: the review's action refuses to record
\* another.  So there are active steps afterwards.
PublishScope(r) ==
    /\ stage[r] = "publishing"
    /\ target[r] \in ScopeDrafts
    /\ ScopeOpen(target[r])
    /\ steps'  = steps \cup {[from |-> target[r], text |-> seen[r]]}
    /\ mirror' = seen[r]
    /\ status' = [status EXCEPT ![target[r]] = "published"]
    /\ Return(r)
    /\ UNCHANGED <<approved, comms, deliveries>>

\* A new row of communication_logs, never more than the table of the instance holds.
NewComm(c, from, text, at) ==
    /\ source[c] = None
    /\ source'   = [source EXCEPT ![c] = from]
    /\ body'     = [body EXCEPT ![c] = text]
    /\ delivery' = [delivery EXCEPT ![c] = at]
    /\ UNCHANGED messageId

PublishUpdate(r, c) ==
    /\ stage[r] = "publishing"
    /\ target[r] \in RewriteDrafts
    /\ UpdateOpen(target[r])
    /\ NewComm(c, target[r], seen[r], "draft")
    /\ status' = [status EXCEPT ![target[r]] = "published"]
    /\ Return(r)
    /\ UNCHANGED <<approved, scope, deliveries>>

PublishRefused(r) ==
    /\ stage[r] = "publishing"
    /\ \/ target[r] \in ScopeDrafts /\ ~ScopeOpen(target[r])
       \/ target[r] \in RewriteDrafts /\ ~UpdateOpen(target[r])
    /\ Return(r)
    /\ UNCHANGED <<drafts, scope, comms, deliveries>>

-----------------------------------------------------------------------------
(* Communications. *)

\* A shared note has no content that could be sent; an outbound message (a dispatch
\* notice, a magic link, an invoice mail) has.  A logged contact already took place:
\* the notes of an outbound call are kept as an outbound message too.
ShareNote(c) ==
    /\ NewComm(c, "note", None, "draft")
    /\ UNCHANGED <<drafts, scope, deliveries, requests>>

ComposeMessage(c, text) ==
    /\ NewComm(c, "message", text, "draft")
    /\ UNCHANGED <<drafts, scope, deliveries, requests>>

LogContact(c, notes) ==
    /\ \/ NewComm(c, "contact", notes, "delivered")
       \/ NewComm(c, "contact", None, "received")
    /\ UNCHANGED <<drafts, scope, deliveries, requests>>

LegalTransitions ==
    [draft  |-> {"sent", "queued"},    queued    |-> {"sent"},
     sent   |-> {"delivered", "failed"}, failed  |-> {"sent"},
     delivered |-> {}, bounced |-> {}, received |-> {}]

\* The operator moves the status by hand: a check on an unlocked read, then an
\* unconditional write.
FlipStart(r, c, to) ==
    /\ source[c] # None
    /\ to \in LegalTransitions[delivery[c]]
    /\ Start(r, "flipping", c, to)
    /\ UNCHANGED <<drafts, scope, comms, deliveries>>

FlipEnd(r) ==
    /\ stage[r] = "flipping"
    /\ delivery' = [delivery EXCEPT ![target[r]] = seen[r]]
    /\ Return(r)
    /\ UNCHANGED <<drafts, scope, source, body, messageId, deliveries>>

\* sendCommunication reads the row: it returns at once when the row is sent or was
\* handed to a provider, and throws when the move is illegal or nothing can be sent.
SendStart(r, c) ==
    /\ body[c] # None
    /\ ~messageId[c]
    /\ "sent" \in LegalTransitions[delivery[c]]
    /\ Start(r, "sending", c, body[c])
    /\ UNCHANGED <<drafts, scope, comms, deliveries>>

\* Mutant: the call does not carry the communication as its idempotency key.
ProviderDeliversAlways(c) == deliveries' = [deliveries EXCEPT ![c] = @ + 1]

\* The provider delivers once per idempotency key, the communication's id.
ProviderDelivers(c) == deliveries' = [deliveries EXCEPT ![c] = 1]

\* The provider's answer: accepted with a message id, or failed.  A failed call may
\* have been delivered (a lost answer, a 2xx without an id).
ProviderAccepts(r) ==
    /\ stage[r] = "sending"
    /\ ProviderDelivers(target[r])
    /\ stage' = [stage EXCEPT ![r] = "accepted"]
    /\ UNCHANGED <<drafts, scope, comms, target, seen, begun>>

ProviderFails(r) ==
    /\ stage[r] = "sending"
    /\ \/ ProviderDelivers(target[r])
       \/ UNCHANGED deliveries
    /\ stage' = [stage EXCEPT ![r] = "failed"]
    /\ UNCHANGED <<drafts, scope, comms, target, seen, begun>>

\* Neither write has a condition: the later of two overlapping sends decides the
\* status, and a failure leaves an earlier message id alone.
RecordSent(r) ==
    /\ stage[r] = "accepted"
    /\ delivery'  = [delivery EXCEPT ![target[r]] = "sent"]
    /\ messageId' = [messageId EXCEPT ![target[r]] = TRUE]
    /\ Return(r)
    /\ UNCHANGED <<drafts, scope, source, body, deliveries>>

RecordFailed(r) ==
    /\ stage[r] = "failed"
    /\ delivery' = [delivery EXCEPT ![target[r]] = "failed"]
    /\ Return(r)
    /\ UNCHANGED <<drafts, scope, source, body, messageId, deliveries>>

-----------------------------------------------------------------------------

OnDraft == \E d \in Drafts :
    \/ CreateDraft(d) \/ Reject(d)
    \/ \E text \in Texts : Approve(d, text)
    \/ \E r \in Requests : DiscardStart(r, d) \/ PublishStart(r, d)

OnComm == \E c \in Comms :
    \/ ShareNote(c)
    \/ \E text \in Texts : ComposeMessage(c, text) \/ LogContact(c, text)
    \/ \E r \in Requests : SendStart(r, c) \/ PublishUpdate(r, c)
    \/ \E r \in Requests, to \in DeliveryStatuses : FlipStart(r, c, to)

Continue == \E r \in Requests :
    \/ DiscardEnd(r) \/ PublishScope(r) \/ PublishRefused(r) \/ FlipEnd(r)
    \/ ProviderAccepts(r) \/ ProviderFails(r) \/ RecordSent(r) \/ RecordFailed(r)
    \/ Die(r)

Next == OnDraft \/ OnComm \/ Continue

Spec == Init /\ [][Next]_vars

-----------------------------------------------------------------------------
(* Properties. *)

\* Every row and request is one the schema and the code allow: an approved text belongs
\* to a draft that was approved, and a request on a draft works on a draft.
AgentTypeOK ==
    /\ status \in [Drafts -> DraftStatuses \cup {None}]
    /\ approved \in [Drafts -> Texts \cup {None}]
    /\ \A d \in Drafts :
        /\ status[d] \in {None, "pending_review", "rejected"} => approved[d] = None
        /\ status[d] \in {"approved", "published"} => approved[d] # None
    /\ steps \subseteq [from : ScopeDrafts, text : Texts]
    /\ mirror \in Texts \cup {None}
    /\ source \in [Comms -> RewriteDrafts \cup Origins \cup {None}]
    /\ body \in [Comms -> Texts \cup {None}]
    /\ delivery \in [Comms -> DeliveryStatuses \cup {None}]
    /\ messageId \in [Comms -> BOOLEAN]
    /\ deliveries \in [Comms -> 0..1]
    /\ stage \in [Requests -> {"idle", "discarding", "publishing", "flipping",
                               "sending", "accepted", "failed"}]
    /\ target \in [Requests -> Drafts \cup Comms \cup {None}]
    /\ \A r \in Requests :
        /\ stage[r] = "idle" <=> target[r] = None
        /\ stage[r] \in {"discarding", "publishing"} <=> target[r] \in Drafts
    /\ seen \in [Requests -> Texts \cup DeliveryStatuses \cup {None}]
    /\ begun \in 0..MaxRequests

\* A job's scope comes from one draft, as its review approved it, and the text that
\* dispatch shows the vendor says what the steps say: publishScopeDraft appends, and
\* two publishers of one draft or of two siblings must not both get through, whatever
\* was discarded meanwhile.
ScopeIsOneDraft ==
    /\ Cardinality(steps) <= 1
    /\ \A s \in steps : s.text = approved[s.from] /\ s.text = mirror

\* An update reaches the client in the words of its approving review and once: no two
\* communications come from one draft, and none from a draft that was not approved,
\* although publishRewriteDraft reads the text before it takes a lock.
ClientSeesReviewedText ==
    \A c \in Comms : source[c] \in RewriteDrafts =>
        /\ body[c] = approved[source[c]]
        /\ status[source[c]] \in {"published", "discarded"}
        /\ \A e \in Comms : source[e] = source[c] => e = c

\* A communication is delivered at most once, through overlapping sends, lost answers,
\* crashes before the answer is recorded and retries; a message id is recorded only for
\* a communication that was delivered; and a logged call is never transmitted.
DeliveredOnce ==
    \A c \in Comms :
        /\ deliveries[c] <= 1
        /\ messageId[c] => deliveries[c] = 1
        /\ source[c] = "contact" => deliveries[c] = 0
=============================================================================
