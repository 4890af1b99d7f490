--------------------------- MODULE AgentDrafts_proofs ---------------------------
(***************************************************************************)
(* Theorems about agents' drafts and communications, for any number of     *)
(* drafts, communications and requests.  What a request read before it     *)
(* took a lock stays true for two reasons: a text once approved never      *)
(* changes, and a logged contact leaves its status never.                  *)
(***************************************************************************)
EXTENDS AgentDrafts, FiniteSetTheorems, TLAPS

Calling == {"sending", "accepted", "failed"}

\* What a request under way remembers.
ReqInv(r) ==
    /\ stage[r] = "publishing" => seen[r] \in Texts /\ seen[r] = approved[target[r]]
    /\ stage[r] = "flipping" => seen[r] \in DeliveryStatuses
    /\ stage[r] \in Calling \cup {"flipping"} =>
          target[r] \in Comms /\ source[target[r]] \notin {None, "contact"}
    /\ stage[r] = "accepted" => deliveries[target[r]] = 1

\* A row that is not there was not sent; a logged contact stays in its last status.
CommInv(c) ==
    /\ source[c] = None =>
          body[c] = None /\ delivery[c] = None /\ ~messageId[c] /\ deliveries[c] = 0
    /\ source[c] # None => delivery[c] \in DeliveryStatuses
    /\ source[c] = "contact" => delivery[c] \in {"delivered", "received"}

Inv ==
    /\ AgentTypeOK
    /\ \A r \in Requests : ReqInv(r)
    /\ \A c \in Comms : CommInv(c)
    /\ ScopeIsOneDraft
    /\ ClientSeesReviewedText
    /\ DeliveredOnce

\* Initially there is nothing.
LEMMA InitInv == Init => Inv
<1>. SUFFICES ASSUME Init PROVE Inv
  OBVIOUS
<1>. USE AgentAssumption DEF Init
<1>1. AgentTypeOK
  BY DEF AgentTypeOK, Origins, DraftStatuses
<1>2. \A r \in Requests : ReqInv(r)
  BY DEF ReqInv, Calling
<1>3. \A c \in Comms : CommInv(c)
  BY DEF CommInv, Origins
<1>4. ScopeIsOneDraft
  BY FS_EmptySet DEF ScopeIsOneDraft
<1>5. ClientSeesReviewedText /\ DeliveredOnce
  BY DEF ClientSeesReviewedText, DeliveredOnce, Drafts, Origins
<1>. QED
  BY <1>1, <1>2, <1>3, <1>4, <1>5 DEF Inv

-----------------------------------------------------------------------------
(* Drafts. *)

LEMMA CreateDraftInv ==
  ASSUME Inv, NEW d \in Drafts, CreateDraft(d)
  PROVE  Inv'
<1>. USE AgentAssumption DEF CreateDraft, Inv, drafts, scope, comms, requests
<1>1. AgentTypeOK'
  BY DEF AgentTypeOK, DraftStatuses
<1>2. (\A r \in Requests : ReqInv(r))' /\ (\A c \in Comms : CommInv(c))'
  BY DEF ReqInv, CommInv
<1>3. ScopeIsOneDraft' /\ DeliveredOnce'
  BY DEF ScopeIsOneDraft, DeliveredOnce
<1>4. ClientSeesReviewedText'
  BY DEF ClientSeesReviewedText, AgentTypeOK, Drafts, DraftStatuses
<1>. QED
  BY <1>1, <1>2, <1>3, <1>4

LEMMA RejectInv ==
  ASSUME Inv, NEW d \in Drafts, Reject(d)
  PROVE  Inv'
<1>. USE AgentAssumption DEF Reject, Inv, drafts, scope, comms, requests
<1>1. AgentTypeOK'
  BY DEF AgentTypeOK, DraftStatuses
<1>2. (\A r \in Requests : ReqInv(r))' /\ (\A c \in Comms : CommInv(c))'
  BY DEF ReqInv, CommInv
<1>3. ScopeIsOneDraft' /\ DeliveredOnce'
  BY DEF ScopeIsOneDraft, DeliveredOnce
<1>4. ClientSeesReviewedText'
  BY DEF ClientSeesReviewedText, AgentTypeOK, Drafts, DraftStatuses
<1>. QED
  BY <1>1, <1>2, <1>3, <1>4

\* A pending draft has no approved text yet, so no text that was read changes.
LEMMA ApproveInv ==
  ASSUME Inv, NEW d \in Drafts, NEW text \in Texts, Approve(d, text)
  PROVE  Inv'
<1>. USE AgentAssumption DEF Approve, Inv, drafts, scope, comms, requests
<1>0. approved[d] = None
  BY DEF AgentTypeOK
<1>1. AgentTypeOK'
  BY DEF AgentTypeOK, DraftStatuses
<1>2. (\A r \in Requests : ReqInv(r))'
  BY <1>0 DEF ReqInv, AgentTypeOK
<1>3. (\A c \in Comms : CommInv(c))' /\ DeliveredOnce'
  BY DEF CommInv, DeliveredOnce
<1>4. ScopeIsOneDraft'
  BY <1>0 DEF ScopeIsOneDraft, AgentTypeOK, Drafts
<1>5. ClientSeesReviewedText'
  BY <1>0 DEF ClientSeesReviewedText, AgentTypeOK, Drafts, DraftStatuses
<1>. QED
  BY <1>1, <1>2, <1>3, <1>4, <1>5

LEMMA DiscardStartInv ==
  ASSUME Inv, NEW r \in Requests, NEW d \in Drafts, DiscardStart(r, d)
  PROVE  Inv'
<1>. USE AgentAssumption DEF DiscardStart, Start, Inv, drafts, scope, comms, requests
<1>1. AgentTypeOK'
  BY DEF AgentTypeOK
<1>2. (\A q \in Requests : ReqInv(q))' /\ (\A c \in Comms : CommInv(c))'
  BY DEF ReqInv, CommInv, AgentTypeOK, Calling
<1>3. ScopeIsOneDraft' /\ DeliveredOnce' /\ ClientSeesReviewedText'
  BY DEF ScopeIsOneDraft, DeliveredOnce, ClientSeesReviewedText
<1>. QED
  BY <1>1, <1>2, <1>3

LEMMA DiscardEndInv ==
  ASSUME Inv, NEW r \in Requests, DiscardEnd(r)
  PROVE  Inv'
<1>. USE AgentAssumption DEF DiscardEnd, Return, Inv, drafts, scope, comms, requests
<1>0. target[r] \in Drafts
  BY DEF AgentTypeOK
<1>1. AgentTypeOK'
  BY <1>0 DEF AgentTypeOK, DraftStatuses
<1>2. (\A q \in Requests : ReqInv(q))' /\ (\A c \in Comms : CommInv(c))'
  BY DEF ReqInv, CommInv, AgentTypeOK, Calling
<1>3. ScopeIsOneDraft' /\ DeliveredOnce'
  BY DEF ScopeIsOneDraft, DeliveredOnce
<1>4. ClientSeesReviewedText'
  BY <1>0 DEF ClientSeesReviewedText, AgentTypeOK, Drafts
<1>. QED
  BY <1>1, <1>2, <1>3, <1>4

-----------------------------------------------------------------------------
(* Publishing. *)

LEMMA PublishStartInv ==
  ASSUME Inv, NEW r \in Requests, NEW d \in Drafts, PublishStart(r, d)
  PROVE  Inv'
<1>. USE AgentAssumption DEF PublishStart, Start, Inv, drafts, scope, comms, requests
<1>0. approved[d] \in Texts
  BY DEF AgentTypeOK
<1>1. AgentTypeOK'
  BY <1>0 DEF AgentTypeOK
<1>2. (\A q \in Requests : ReqInv(q))' /\ (\A c \in Comms : CommInv(c))'
  BY <1>0 DEF ReqInv, CommInv, AgentTypeOK, Calling
<1>3. ScopeIsOneDraft' /\ DeliveredOnce' /\ ClientSeesReviewedText'
  BY DEF ScopeIsOneDraft, DeliveredOnce, ClientSeesReviewedText
<1>. QED
  BY <1>1, <1>2, <1>3

\* The steps were empty under the lock, so they are this draft's alone.
LEMMA PublishScopeInv ==
  ASSUME Inv, NEW r \in Requests, PublishScope(r)
  PROVE  Inv'
<1>. USE AgentAssumption DEF PublishScope, Inv, drafts, scope, comms, requests
<1>0. /\ target[r] \in Drafts /\ status[target[r]] = "approved"
      /\ seen[r] \in Texts /\ seen[r] = approved[target[r]]
      /\ steps' = {[from |-> target[r], text |-> seen[r]]}
  BY DEF ReqInv, ScopeOpen, Drafts
<1>1. AgentTypeOK'
  BY <1>0 DEF AgentTypeOK, DraftStatuses, Return
<1>2. (\A q \in Requests : ReqInv(q))' /\ (\A c \in Comms : CommInv(c))'
  BY DEF ReqInv, CommInv, AgentTypeOK, Calling, Return
<1>3. ScopeIsOneDraft'
  <2>1. Cardinality(steps') = 1
    BY <1>0, FS_Singleton
  <2>. QED
    BY <1>0, <2>1 DEF ScopeIsOneDraft
<1>4. DeliveredOnce'
  BY DEF DeliveredOnce
<1>5. ClientSeesReviewedText'
  BY <1>0 DEF ClientSeesReviewedText, AgentTypeOK, Drafts
<1>. QED
  BY <1>1, <1>2, <1>3, <1>4, <1>5

\* A new row disturbs no other row, and no request works on it.
LEMMA NewCommInv ==
  ASSUME Inv, NEW c \in Comms, NEW from \in Origins \cup RewriteDrafts,
         NEW text \in Texts \cup {None}, NEW at \in DeliveryStatuses,
         NewComm(c, from, text, at), UNCHANGED <<deliveries, requests, approved>>,
         from = "contact" => at \in {"delivered", "received"}
  PROVE  /\ (\A q \in Requests : ReqInv(q))'
         /\ (\A e \in Comms : CommInv(e))'
         /\ DeliveredOnce'
<1>. USE AgentAssumption DEF NewComm, Inv, requests
<1>1. from # None
  BY DEF Drafts
<1>2. (\A q \in Requests : ReqInv(q))'
  BY <1>1 DEF ReqInv, AgentTypeOK
<1>3. (\A e \in Comms : CommInv(e))'
  BY <1>1 DEF CommInv, AgentTypeOK
<1>4. DeliveredOnce'
  BY DEF DeliveredOnce, CommInv, AgentTypeOK
<1>. QED
  BY <1>2, <1>3, <1>4

\* No communication came from an approved draft, so this one is the draft's only one.
LEMMA PublishUpdateInv ==
  ASSUME Inv, NEW r \in Requests, NEW c \in Comms, PublishUpdate(r, c)
  PROVE  Inv'
<1>. USE AgentAssumption DEF PublishUpdate, Inv, drafts, scope, comms
<1>0. /\ target[r] \in RewriteDrafts /\ status[target[r]] = "approved"
      /\ seen[r] \in Texts /\ seen[r] = approved[target[r]]
      /\ source[c] = None /\ NewComm(c, target[r], seen[r], "draft")
  BY DEF ReqInv, UpdateOpen, NewComm
<1>1. AgentTypeOK'
  BY <1>0 DEF AgentTypeOK, DraftStatuses, DeliveryStatuses, Return, NewComm, Drafts
<1>2. (\A q \in Requests : ReqInv(q))'
  BY <1>0 DEF ReqInv, AgentTypeOK, Calling, Return, NewComm
<1>3. (\A e \in Comms : CommInv(e))'
  BY <1>0 DEF CommInv, AgentTypeOK, NewComm, DeliveryStatuses, Drafts, Origins
<1>4. ScopeIsOneDraft'
  BY DEF ScopeIsOneDraft
<1>5. DeliveredOnce'
  BY <1>0 DEF DeliveredOnce, AgentTypeOK, NewComm, Origins
<1>6. ClientSeesReviewedText'
  <2>. SUFFICES ASSUME NEW e \in Comms, source'[e] \in RewriteDrafts
       PROVE  /\ body'[e] = approved'[source'[e]]
              /\ status'[source'[e]] \in {"published", "discarded"}
              /\ \A f \in Comms : source'[f] = source'[e] => f = e
    BY DEF ClientSeesReviewedText
  <2>1. \A f \in Comms : source[f] # target[r]
    BY <1>0 DEF ClientSeesReviewedText
  <2>2. CASE e = c
    BY <1>0, <2>1, <2>2 DEF NewComm, AgentTypeOK, Drafts
  <2>3. CASE e # c
    BY <1>0, <2>1, <2>3 DEF NewComm, AgentTypeOK, ClientSeesReviewedText, Drafts
  <2>. QED
    BY <2>2, <2>3
<1>. QED
  BY <1>1, <1>2, <1>3, <1>4, <1>5, <1>6

\* What returns without a write disturbs nothing.
LEMMA ReturnInv ==
  ASSUME Inv, NEW r \in Requests, stage[r] # "idle", Return(r),
         UNCHANGED <<drafts, scope, comms, deliveries>>
  PROVE  Inv'
<1>. USE AgentAssumption DEF Return, Inv, drafts, scope, comms
<1>1. AgentTypeOK'
  BY DEF AgentTypeOK
<1>2. (\A q \in Requests : ReqInv(q))' /\ (\A c \in Comms : CommInv(c))'
  BY DEF ReqInv, CommInv, AgentTypeOK, Calling
<1>3. ScopeIsOneDraft' /\ DeliveredOnce' /\ ClientSeesReviewedText'
  BY DEF ScopeIsOneDraft, DeliveredOnce, ClientSeesReviewedText
<1>. QED
  BY <1>1, <1>2, <1>3

-----------------------------------------------------------------------------
(* Communications. *)

\* A row that comes from no draft.
LEMMA OwnCommInv ==
  ASSUME Inv, NEW c \in Comms, NEW from \in Origins,
         NEW text \in Texts \cup {None}, NEW at \in DeliveryStatuses,
         NewComm(c, from, text, at), UNCHANGED <<drafts, scope, deliveries, requests>>,
         from = "contact" => at \in {"delivered", "received"}
  PROVE  Inv'
<1>. USE AgentAssumption DEF drafts, scope, requests
<1>1. /\ (\A q \in Requests : ReqInv(q))'
      /\ (\A e \in Comms : CommInv(e))'
      /\ DeliveredOnce'
  BY NewCommInv
<1>2. AgentTypeOK'
  BY DEF Inv, AgentTypeOK, NewComm
<1>3. ScopeIsOneDraft'
  BY DEF Inv, ScopeIsOneDraft
<1>4. ClientSeesReviewedText'
  BY DEF Inv, ClientSeesReviewedText, NewComm, AgentTypeOK
<1>. QED
  BY <1>1, <1>2, <1>3, <1>4 DEF Inv

LEMMA NewRowInv ==
  ASSUME Inv, NEW c \in Comms, NEW text \in Texts,
         ShareNote(c) \/ ComposeMessage(c, text) \/ LogContact(c, text)
  PROVE  Inv'
<1>1. CASE ShareNote(c)
  BY <1>1, OwnCommInv DEF ShareNote, Origins, DeliveryStatuses
<1>2. CASE ComposeMessage(c, text)
  BY <1>2, OwnCommInv DEF ComposeMessage, Origins, DeliveryStatuses
<1>3. CASE LogContact(c, text)
  BY <1>3, OwnCommInv DEF LogContact, Origins, DeliveryStatuses
<1>. QED
  BY <1>1, <1>2, <1>3

\* No transition leaves the statuses of a logged contact.
LEMMA FlipStartInv ==
  ASSUME Inv, NEW r \in Requests, NEW c \in Comms, NEW to \in DeliveryStatuses,
         FlipStart(r, c, to)
  PROVE  Inv'
<1>. USE AgentAssumption DEF FlipStart, Start, Inv, drafts, scope, comms
<1>0. source[c] \notin {None, "contact"}
  BY DEF CommInv, LegalTransitions
<1>1. AgentTypeOK'
  BY DEF AgentTypeOK
<1>2. (\A q \in Requests : ReqInv(q))' /\ (\A e \in Comms : CommInv(e))'
  BY <1>0 DEF ReqInv, CommInv, AgentTypeOK, Calling
<1>3. ScopeIsOneDraft' /\ DeliveredOnce' /\ ClientSeesReviewedText'
  BY DEF ScopeIsOneDraft, DeliveredOnce, ClientSeesReviewedText
<1>. QED
  BY <1>1, <1>2, <1>3

LEMMA SendStartInv ==
  ASSUME Inv, NEW r \in Requests, NEW c \in Comms, SendStart(r, c)
  PROVE  Inv'
<1>. USE AgentAssumption DEF SendStart, Start, Inv, drafts, scope, comms
<1>0. source[c] \notin {None, "contact"}
  BY DEF CommInv, LegalTransitions
<1>1. AgentTypeOK'
  BY DEF AgentTypeOK
<1>2. (\A q \in Requests : ReqInv(q))' /\ (\A e \in Comms : CommInv(e))'
  BY <1>0 DEF ReqInv, CommInv, AgentTypeOK, Calling
<1>3. ScopeIsOneDraft' /\ DeliveredOnce' /\ ClientSeesReviewedText'
  BY DEF ScopeIsOneDraft, DeliveredOnce, ClientSeesReviewedText
<1>. QED
  BY <1>1, <1>2, <1>3

\* A status is written to a row that exists and is no contact.
LEMMA StatusWriteInv ==
  ASSUME Inv, NEW r \in Requests, NEW to \in DeliveryStatuses,
         stage[r] \in Calling \cup {"flipping"},
         delivery' = [delivery EXCEPT ![target[r]] = to],
         messageId' = messageId
            \/ (stage[r] = "accepted" /\ messageId' = [messageId EXCEPT ![target[r]] = TRUE]),
         Return(r), UNCHANGED <<drafts, scope, source, body, deliveries>>
  PROVE  Inv'
<1>. USE AgentAssumption DEF Return, Inv, drafts, scope
<1>0. target[r] \in Comms /\ source[target[r]] \notin {None, "contact"}
  BY DEF ReqInv
<1>1. AgentTypeOK'
  <2>1. /\ delivery' \in [Comms -> DeliveryStatuses \cup {None}]
        /\ messageId' \in [Comms -> BOOLEAN]
    BY <1>0 DEF AgentTypeOK
  <2>2. (/\ stage \in [Requests -> {"idle", "discarding", "publishing", "flipping",
                                    "sending", "accepted", "failed"}]
         /\ target \in [Requests -> Drafts \cup Comms \cup {None}]
         /\ \A q \in Requests :
              /\ stage[q] = "idle" <=> target[q] = None
              /\ stage[q] \in {"discarding", "publishing"} <=> target[q] \in Drafts
         /\ seen \in [Requests -> Texts \cup DeliveryStatuses \cup {None}])'
    BY DEF AgentTypeOK
  <2>. QED
    BY <2>1, <2>2 DEF AgentTypeOK
<1>2. (\A q \in Requests : ReqInv(q))'
  BY DEF ReqInv, AgentTypeOK, Calling
<1>3. (\A e \in Comms : CommInv(e))'
  BY <1>0 DEF CommInv, AgentTypeOK
<1>4. ScopeIsOneDraft' /\ ClientSeesReviewedText'
  BY DEF ScopeIsOneDraft, ClientSeesReviewedText
<1>5. DeliveredOnce'
  BY <1>0 DEF DeliveredOnce, AgentTypeOK, ReqInv
<1>. QED
  BY <1>1, <1>2, <1>3, <1>4, <1>5

LEMMA StatusInv ==
  ASSUME Inv, NEW r \in Requests, FlipEnd(r) \/ RecordSent(r) \/ RecordFailed(r)
  PROVE  Inv'
<1>1. CASE FlipEnd(r)
  <2>1. seen[r] \in DeliveryStatuses
    BY <1>1 DEF FlipEnd, Inv, ReqInv
  <2>. QED
    BY <1>1, <2>1, StatusWriteInv DEF FlipEnd, Calling
<1>2. CASE RecordSent(r)
  BY <1>2, StatusWriteInv DEF RecordSent, Calling, DeliveryStatuses
<1>3. CASE RecordFailed(r)
  BY <1>3, StatusWriteInv DEF RecordFailed, Calling, DeliveryStatuses
<1>. QED
  BY <1>1, <1>2, <1>3

\* The provider's answer: a repeated key is delivered once.
LEMMA ProviderInv ==
  ASSUME Inv, NEW r \in Requests, ProviderAccepts(r) \/ ProviderFails(r)
  PROVE  Inv'
<1>. USE AgentAssumption DEF ProviderAccepts, ProviderFails, ProviderDelivers, Inv,
         drafts, scope, comms
<1>0. target[r] \in Comms /\ source[target[r]] \notin {None, "contact"}
  BY DEF ReqInv, Calling
<1>1. AgentTypeOK'
  BY <1>0 DEF AgentTypeOK
<1>2. (\A q \in Requests : ReqInv(q))'
  BY <1>0 DEF ReqInv, AgentTypeOK, Calling
<1>3. (\A e \in Comms : CommInv(e))'
  BY <1>0 DEF CommInv, AgentTypeOK
<1>4. ScopeIsOneDraft' /\ ClientSeesReviewedText'
  BY DEF ScopeIsOneDraft, ClientSeesReviewedText
<1>5. DeliveredOnce'
  BY <1>0 DEF DeliveredOnce, AgentTypeOK
<1>. QED
  BY <1>1, <1>2, <1>3, <1>4, <1>5

-----------------------------------------------------------------------------

LEMMA NextInv == Inv /\ [Next]_vars => Inv'
<1>. SUFFICES ASSUME Inv, [Next]_vars PROVE Inv'
  OBVIOUS
<1>1. CASE OnDraft
  <2>. PICK d \in Drafts :
         \/ CreateDraft(d) \/ Reject(d)
         \/ \E text \in Texts : Approve(d, text)
         \/ \E r \in Requests : DiscardStart(r, d) \/ PublishStart(r, d)
    BY <1>1 DEF OnDraft
  <2>. QED
    BY CreateDraftInv, RejectInv, ApproveInv, DiscardStartInv, PublishStartInv
<1>2. CASE OnComm
  <2>. PICK c \in Comms :
         \/ ShareNote(c)
         \/ \E text \in Texts : ComposeMessage(c, text) \/ LogContact(c, text)
         \/ \E r \in Requests : SendStart(r, c) \/ PublishUpdate(r, c)
         \/ \E r \in Requests, to \in DeliveryStatuses : FlipStart(r, c, to)
    BY <1>2 DEF OnComm
  <2>1. CASE ShareNote(c)
    BY <2>1, OwnCommInv DEF ShareNote, Origins, DeliveryStatuses
  <2>. QED
    BY <2>1, NewRowInv, SendStartInv, PublishUpdateInv, FlipStartInv
<1>3. CASE Continue
  <2>. PICK r \in Requests :
         \/ DiscardEnd(r) \/ PublishScope(r) \/ PublishRefused(r) \/ FlipEnd(r)
         \/ ProviderAccepts(r) \/ ProviderFails(r) \/ RecordSent(r) \/ RecordFailed(r)
         \/ Die(r)
    BY <1>3 DEF Continue
  <2>1. CASE PublishRefused(r) \/ Die(r)
    BY <2>1, ReturnInv DEF PublishRefused, Die
  <2>. QED
    BY <2>1, DiscardEndInv, PublishScopeInv, StatusInv, ProviderInv
<1>4. CASE UNCHANGED vars
  <2>. USE <1>4 DEF vars, drafts, scope, comms, requests, Inv
  <2>1. AgentTypeOK'
    BY DEF AgentTypeOK
  <2>2. (\A r \in Requests : ReqInv(r))' /\ (\A c \in Comms : CommInv(c))'
    BY DEF ReqInv, CommInv
  <2>3. ScopeIsOneDraft' /\ DeliveredOnce' /\ ClientSeesReviewedText'
    BY DEF ScopeIsOneDraft, DeliveredOnce, ClientSeesReviewedText
  <2>. QED
    BY <2>1, <2>2, <2>3
<1>. QED
  BY <1>1, <1>2, <1>3, <1>4 DEF Next

\* The inductive invariant: the properties, and what every request remembers of the
\* rows it has read.
THEOREM AgentInvariance == Spec => []Inv
<1>. QED
  BY InitInv, NextInv, PTL DEF Spec

\* Types, and what belongs to which status of a draft.
THEOREM AgentTypes == Spec => []AgentTypeOK
<1>1. Inv => AgentTypeOK
  BY DEF Inv
<1>. QED
  BY <1>1, AgentInvariance, PTL

\* A job's scope comes from one draft in the words of its review, however many drafts
\* and publishers there are.
THEOREM OneScope == Spec => []ScopeIsOneDraft
<1>1. Inv => ScopeIsOneDraft
  BY DEF Inv
<1>. QED
  BY <1>1, AgentInvariance, PTL

\* A draft becomes at most one communication, in the words of its review.
THEOREM ReviewedTextOnly == Spec => []ClientSeesReviewedText
<1>1. Inv => ClientSeesReviewedText
  BY DEF Inv
<1>. QED
  BY <1>1, AgentInvariance, PTL

\* Nothing is delivered twice and no logged contact is transmitted, given a provider
\* that keeps to the idempotency key.
THEOREM NoDoubleDelivery == Spec => []DeliveredOnce
<1>1. Inv => DeliveredOnce
  BY DEF Inv
<1>. QED
  BY <1>1, AgentInvariance, PTL
=============================================================================
